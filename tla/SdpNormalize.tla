---------------------------- MODULE SdpNormalize ----------------------------
(***************************************************************************)
(* The SDP rewriting of sip2openai, on session descriptions as sequences   *)
(* of lines.  Of a line only what EnsureBundleMid and StripBundleMid look  *)
(* at is kept: whether it is an m=, an a=mid:, an a=group:BUNDLE or        *)
(* another line, and the mids it names (none for a blank a=mid:).          *)
(* A definition marked "mutant" is a plausible bug in the definition that  *)
(* follows it; nothing uses it.                                            *)
(***************************************************************************)
EXTENDS Naturals, SequencesExt

Line(type, mids) == [type |-> type, mids |-> mids]

Lines(mids) ==
  {Line("m", <<>>), Line("other", <<>>), Line("mid", <<>>), Line("group", <<>>)}
    \cup {Line("mid", <<x>>) : x \in mids} \cup {Line("group", <<x>>) : x \in mids}

-----------------------------------------------------------------------------
(***************************************************************************)
(* Pass 1: the mid of each section, its own or its number, and whether     *)
(* there is a group.                                                       *)
(***************************************************************************)

\* Where the sections of a description start.
Sections(sdp) == {i \in DOMAIN sdp : sdp[i].type = "m"}

\* strconv.Itoa of the number of a section, from 0.
Number(sdp, i) == ToString(Cardinality({j \in Sections(sdp) : j < i}))

\* Numbers up to n have different names.
ItoaIsInjective(n) == \A i, j \in 0 .. n : ToString(i) = ToString(j) => i = j

\* A blank a=mid: does not count as one.
OwnMids(sdp, i) ==
  {j \in DOMAIN sdp : /\ j > i /\ sdp[j].type = "mid" /\ sdp[j].mids # <<>>
                      /\ ~\E k \in Sections(sdp) : i < k /\ k < j}

Assigned(sdp, i) == OwnMids(sdp, i) = {}

MidOf(sdp, i) ==
  IF Assigned(sdp, i) THEN Number(sdp, i) ELSE sdp[Min(OwnMids(sdp, i))].mids[1]

HasGroup(sdp) == \E i \in DOMAIN sdp : sdp[i].type = "group"

\* In the order of the sections.
MidsOf(sdp) ==
  FlattenSeq([i \in DOMAIN sdp |->
    IF i \in Sections(sdp) THEN <<MidOf(sdp, i)>> ELSE <<>>])

-----------------------------------------------------------------------------
(***************************************************************************)
(* Pass 2: the group goes before the first m=, a mid after its own.        *)
(***************************************************************************)

GroupLines(sdp) == IF HasGroup(sdp) THEN <<>> ELSE <<Line("group", MidsOf(sdp))>>

MidLines(sdp, i) == IF Assigned(sdp, i) THEN <<Line("mid", <<MidOf(sdp, i)>>)>> ELSE <<>>

Rebuilt(sdp, i) ==
  IF sdp[i].type # "m" THEN <<sdp[i]>>
  ELSE (IF i = Min(Sections(sdp)) THEN GroupLines(sdp) ELSE <<>>)
         \o <<sdp[i]>> \o MidLines(sdp, i)

EnsureGroupOnly(sdp) ==   \* mutant: the mids that were assigned are not written
  FlattenSeq([i \in DOMAIN sdp |->
    IF i \in Sections(sdp) /\ i = Min(Sections(sdp))
    THEN GroupLines(sdp) \o <<sdp[i]>> ELSE <<sdp[i]>>])

EnsureBundleMid(sdp) == FlattenSeq([i \in DOMAIN sdp |-> Rebuilt(sdp, i)])

Without(types, sdp) ==
  FlattenSeq([i \in DOMAIN sdp |-> IF sdp[i].type \in types THEN <<>> ELSE <<sdp[i]>>])

StripMidsOnly(sdp) == Without({"mid"}, sdp)   \* mutant: the group stays

StripBundleMid(sdp) == Without({"mid", "group"}, sdp)

-----------------------------------------------------------------------------
(***************************************************************************)
(* What the rewriting is for.                                              *)
(***************************************************************************)

\* The caller offered neither mids nor a group, as telephony does.
Plain(sdp) == \A i \in DOMAIN sdp : sdp[i].type \notin {"mid", "group"}

\* Every section has a mid, and the first group lists those of all sections.
Idiomatic(sdp) ==
  /\ \A i \in Sections(sdp) : ~Assigned(sdp, i)
  /\ Sections(sdp) # {} =>
       LET groups == {i \in DOMAIN sdp : sdp[i].type = "group"}
       IN  groups # {} /\ sdp[Min(groups)].mids = MidsOf(sdp)

Distinct(sdp) == IsInjective(MidsOf(sdp))

\* out is in with mids and groups put in, and no other change.
OnlyAdds(in, out) ==
  \E kept \in SUBSET DOMAIN out :
    /\ FlattenSeq([i \in DOMAIN out |-> IF i \in kept THEN <<out[i]>> ELSE <<>>]) = in
    /\ \A i \in DOMAIN out \ kept : out[i].type \in {"mid", "group"}
=============================================================================
