SPECIFICATION Spec
CONSTANTS
  FrameDuration = 2
  Second = 8000
  Providers = {"openai", "deepgram", "gemini"}
  Offers <- SomeOffers
  CallerSamples <- TwoSamples
  Chunks <- SomeChunks
  MaxChunks = 2
  EncodeG711 <- Encode711
  DecodeG711 <- Decode711
INVARIANT GeminiAtItsRate
CHECK_DEADLOCK FALSE
