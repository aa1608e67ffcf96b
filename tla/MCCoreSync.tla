----------------------------- MODULE MCCoreSync -----------------------------
(* What a node may offer, for TLC. *)
EXTENDS CoreSync

Offer(pixel, size, rates) == [pixel |-> pixel, size |-> size, rates |-> rates]
Choice(choice, vals) == [choice |-> choice, vals |-> vals]

OneSize == Choice("None", <<1>>)

Sources == {
  \* A V4L2 source: one object per pixel format, its rates in any order, with
  \* repetitions, and more of them than there is room for.
  <<Offer("YUY2", OneSize, Choice("Enum",
      <<<<30, 1>>, <<15, 1>>, <<30, 1>>, <<5, 1>>, <<30, 1>>, <<120, 2>>>>)),
    Offer("MJPG", Choice("Range", <<2, 1, 3>>),
                  Choice("Range", <<<<15, 1>>, <<5, 1>>, <<5, 1>>>>)),
    Offer("H264", OneSize, Choice("None", <<<<30, 1>>>>))>>,
  \* Objects without a format that can be named, without a size, or without a
  \* rate that can be told.
  <<Offer(NULL, OneSize, Choice("None", <<<<30, 1>>>>)),
    Offer("YUY2", Choice("None", <<0>>), Choice("None", <<<<30, 1>>>>)),
    Offer("H264", OneSize, Choice("Enum", <<<<30, 1>>, <<30, 0>>, <<1, 2>>>>))>>}

\* What pwf_video_parse_framerates() promises, for every list of up to four
\* rates.
ASSUME RatesAreFastest ==
  \A n \in 0..4 : \A vals \in [1..n -> {1, 2, 3, 5} \X {0, 1, 2}] :
    LET prop == Choice("Enum", <<<<1, 1>>>> \o vals)
    IN  IsFastest(ParseFramerates(prop), prop)
=============================================================================
