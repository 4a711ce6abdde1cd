---------------------------- MODULE MCCallSetup ----------------------------
(***************************************************************************)
(* CallSetup for TLC: two calls.  Either both draw their header from a few *)
(* and offer the same, or the first draws its offer from all the short     *)
(* ones and the second is an ordinary call.                                *)
(***************************************************************************)
EXTENDS CallSetup

CONSTANTS a, b, serverKey, callerKey, m1, m2, p1, p2, sales

TwoCalls  == {a, b}
TwoKeys   == {serverKey, callerKey}
TwoModels == {m1, m2}
TwoPrompts == {p1, p2}
SomeMids  == {"1", "x"}

Destination(scheme, blank, padded) == [scheme |-> scheme, blank |-> blank, padded |-> padded]

\* Load has normalised the server's destinations.
ServerConfig ==
  [key |-> serverKey, model |-> m1, prompt |-> p1,
   transfers |-> NormalizeTransfers([name \in {sales} |-> Destination("", FALSE, TRUE)])]

Absent == [form |-> "absent", key |-> {}, model |-> {}, prompt |-> {},
           negativeDelay |-> FALSE, transfers |-> {}]

Key(text, padded) == {[text |-> text, padded |-> padded]}
To(d) == {[name \in {sales} |-> d]}

Empty == [Absent EXCEPT !.form = "override"]

SomeHeaders ==
  {Absent, Empty,
   [Absent EXCEPT !.form = "malformed"],
   [Empty EXCEPT !.negativeDelay = TRUE],
   [Empty EXCEPT !.key = Key(NoKey, TRUE)],
   [Empty EXCEPT !.key = Key(serverKey, TRUE), !.model = {NoModel}],
   [Empty EXCEPT !.key = Key(callerKey, TRUE), !.prompt = {p2}],
   [Empty EXCEPT !.model = {m2}, !.transfers = To(Destination("", FALSE, TRUE))],
   [Empty EXCEPT !.transfers = To(Destination("sip", FALSE, FALSE))],
   [Empty EXCEPT !.transfers = To(Destination("", TRUE, TRUE))]}

PlainOffer == <<Line("other", <<>>), Line("m", <<>>), Line("other", <<>>)>>

Ordinary == [header |-> Absent, body |-> TRUE, offer |-> PlainOffer]

OneSection == Line("m", <<>>)

\* All of up to three lines, and those of four that have two sections.
ShortOffers ==
  UNION {[1 .. n -> Lines(SomeMids)] : n \in 0 .. 3}
    \cup {<<x, OneSection, y, OneSection>> : x \in Lines(SomeMids), y \in Lines(SomeMids)}

SomeInvites ==
  {[c \in TwoCalls |-> [Ordinary EXCEPT !.header = h[c]]] : h \in [TwoCalls -> SomeHeaders]}
    \cup {[c \in TwoCalls |-> IF c = a THEN [Ordinary EXCEPT !.offer = o] ELSE Ordinary] :
            o \in ShortOffers}
    \cup {[c \in TwoCalls |-> [Ordinary EXCEPT !.body = FALSE]]}

SomeStatuses == {400, 401, 403, 429, 500}
=============================================================================
