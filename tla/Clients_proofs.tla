--------------------------- MODULE Clients_proofs ---------------------------
(***************************************************************************)
(* Proofs about the two programs of utils/, for any number of streams,     *)
(* buffers of any size and any failure, signal or lost stream in between.  *)
(*                                                                         *)
(* Every call has a rank, and the calls main() has left are in the order   *)
(* of their ranks: so "X is released after Y" is a comparison of numbers,  *)
(* and what is left to do is a set.  The invariant says, while main() sets *)
(* things up, that a failure here would clean up all there is; and during  *)
(* the cleanup, that what there still is has its call left.                *)
(***************************************************************************)
EXTENDS Clients, SequenceTheorems, TLAPS

----------------------------------------------------------------------------
(* The order of the calls *)

CallType == [op : Ops, h : {0} \cup Handles]

SetupOps == {"open", "signals", "ring", "ctxs", "create", "configure", "activate", "started",
             "wait"}
CleanupOps == {"stop", "stopped", "destroy", "patch", "free_ctxs", "free_ring", "close"}
FailOps == {"open", "ring", "ctxs", "create", "configure", "activate"}

\* The calls on no stream, on the two audio streams, and on a video stream
FixedRank(op) ==
  CASE op = "open" -> 1 [] op = "signals" -> 2 [] op = "ring" -> 3 [] op = "ctxs" -> 12
    [] op = "wait" -> 4 * MaxVideos + 13
    [] op = "free_ctxs" -> 2 * MaxVideos + 5 [] op = "patch" -> 2 * MaxVideos + 10
    [] op = "free_ring" -> 2 * MaxVideos + 11 [] op = "close" -> 2 * MaxVideos + 12
    [] OTHER -> 0
CaptureRank(op) ==
  CASE op = "create" -> 4 [] op = "configure" -> 5 [] op = "activate" -> 8
    [] op = "started" -> 9 [] op = "stop" -> 2 * MaxVideos + 8
    [] op = "stopped" -> 2 * MaxVideos + 8 [] op = "destroy" -> 2 * MaxVideos + 9
    [] OTHER -> 0
PlaybackRank(op) ==
  CASE op = "create" -> 6 [] op = "configure" -> 7 [] op = "activate" -> 10
    [] op = "started" -> 11 [] op = "stop" -> 2 * MaxVideos + 6
    [] op = "stopped" -> 2 * MaxVideos + 6 [] op = "destroy" -> 2 * MaxVideos + 7
    [] OTHER -> 0
VideoRank(op, h) ==
  CASE op = "create" -> 4 * h + 1 [] op = "configure" -> 4 * h + 2
    [] op = "activate" -> 4 * h + 3 [] op = "started" -> 4 * h + 4
    [] op = "stop" -> 2 * h - 1 [] op = "stopped" -> 2 * h - 1 [] op = "destroy" -> 2 * h
    [] OTHER -> 0

Rank(c) ==
  IF c.h = 0 THEN FixedRank(c.op)
  ELSE IF c.h = Capture THEN CaptureRank(c.op)
  ELSE IF c.h = Playback THEN PlaybackRank(c.op)
  ELSE VideoRank(c.op, c.h)

\* What s calls, and that it is in order, after rank a and up to rank b
Members(s) == {s[i] : i \in 1..Len(s)}

Spans(s, a, b) ==
  /\ s \in Seq(CallType)
  /\ \A i \in 1..Len(s) : a < Rank(s[i]) /\ Rank(s[i]) <= b
  /\ \A i, j \in 1..Len(s) : i < j => Rank(s[i]) < Rank(s[j])

LastRank == 4 * MaxVideos + 13

LEMMA RankType ==
  ASSUME NEW c \in CallType
  PROVE  Rank(c) \in Nat
<1>1. c.h \in Nat /\ MaxVideos \in Nat
  BY HandlesAssumption, ClientsAssumption DEF CallType, Streams
<1>2. FixedRank(c.op) \in Nat
  BY <1>1 DEF FixedRank
<1>3. CaptureRank(c.op) \in Nat
  BY <1>1 DEF CaptureRank
<1>4. PlaybackRank(c.op) \in Nat
  BY <1>1 DEF PlaybackRank
<1>5. c.h > 2 => VideoRank(c.op, c.h) \in Nat
  BY <1>1 DEF VideoRank
<1>6. c.h = 0 \/ c.h = 1 \/ c.h = 2 \/ c.h > 2
  BY <1>1
<1> QED BY <1>2, <1>3, <1>4, <1>5, <1>6 DEF Rank, Capture, Playback

LEMMA FixedRanks ==
  /\ Rank(Call("open", 0)) = 1 /\ Rank(Call("signals", 0)) = 2 /\ Rank(Call("ring", 0)) = 3
  /\ Rank(Call("ctxs", 0)) = 12 /\ Rank(Call("wait", 0)) = 4 * MaxVideos + 13
  /\ Rank(Call("free_ctxs", 0)) = 2 * MaxVideos + 5 /\ Rank(Call("patch", 0)) = 2 * MaxVideos + 10
  /\ Rank(Call("free_ring", 0)) = 2 * MaxVideos + 11 /\ Rank(Call("close", 0)) = 2 * MaxVideos + 12
BY DEF Rank, Call, FixedRank

LEMMA CaptureRanks ==
  /\ Rank(Call("create", Capture)) = 4 /\ Rank(Call("configure", Capture)) = 5
  /\ Rank(Call("activate", Capture)) = 8 /\ Rank(Call("started", Capture)) = 9
  /\ Rank(Call("stop", Capture)) = 2 * MaxVideos + 8
  /\ Rank(Call("stopped", Capture)) = 2 * MaxVideos + 8
  /\ Rank(Call("destroy", Capture)) = 2 * MaxVideos + 9
BY DEF Rank, Call, Capture, CaptureRank

LEMMA PlaybackRanks ==
  /\ Rank(Call("create", Playback)) = 6 /\ Rank(Call("configure", Playback)) = 7
  /\ Rank(Call("activate", Playback)) = 10 /\ Rank(Call("started", Playback)) = 11
  /\ Rank(Call("stop", Playback)) = 2 * MaxVideos + 6
  /\ Rank(Call("stopped", Playback)) = 2 * MaxVideos + 6
  /\ Rank(Call("destroy", Playback)) = 2 * MaxVideos + 7
BY DEF Rank, Call, Capture, Playback, PlaybackRank

LEMMA VideoRanks ==
  ASSUME NEW h \in Nat, h > Playback
  PROVE  /\ Rank(Call("create", h)) = 4 * h + 1 /\ Rank(Call("configure", h)) = 4 * h + 2
         /\ Rank(Call("activate", h)) = 4 * h + 3 /\ Rank(Call("started", h)) = 4 * h + 4
         /\ Rank(Call("stop", h)) = 2 * h - 1 /\ Rank(Call("stopped", h)) = 2 * h - 1
         /\ Rank(Call("destroy", h)) = 2 * h
BY DEF Rank, Call, Capture, Playback, VideoRank

LEMMA CallIs ==
  ASSUME NEW c \in CallType
  PROVE  c = Call(c.op, c.h)
BY DEF CallType, Call

LEMMA HandlesAre ==
  /\ Handles \subseteq Nat \ {0} /\ 0 \notin Handles
  /\ \A h \in Handles : h <= 2 + MaxVideos
  /\ \A h \in Handles : h = Capture \/ h = Playback \/ h > Playback
  /\ Capture \in Handles /\ Playback \in Handles
BY HandlesAssumption, ClientsAssumption DEF Streams, Capture, Playback

LEMMA TailSpans ==
  ASSUME NEW s, NEW a \in Nat, NEW b \in Nat, Spans(s, a, b), s # <<>>
  PROVE  /\ Spans(Tail(s), a, b) /\ Head(s) \in CallType /\ Head(s) \in Members(s)
         /\ Members(Tail(s)) = Members(s) \ {Head(s)}
         /\ \A c \in Members(Tail(s)) : Rank(Head(s)) < Rank(c)
<1>1. s \in Seq(CallType) /\ Len(s) \in Nat /\ Len(s) >= 1 /\ \A i \in 1..Len(s) : s[i] \in CallType
  BY ElementOfSeq, EmptySeq, LenProperties DEF Spans
<1>2. Head(s) = s[1] /\ Tail(s) \in Seq(CallType) /\ Len(Tail(s)) = Len(s) - 1
       /\ \A i \in 1..Len(s) - 1 : Tail(s)[i] = s[i + 1]
  BY <1>1, HeadTailProperties
<1> DEFINE n == Len(s)
<1> HIDE DEF n
<1>3. Spans(Tail(s), a, b)
  BY <1>1, <1>2 DEF Spans, n
<1>4. \A c \in Members(Tail(s)) : Rank(s[1]) < Rank(c) /\ c \in Members(s)
  BY <1>1, <1>2 DEF Members, Spans
<1>5. \A i \in 2..Len(s) : Tail(s)[i - 1] = s[i] /\ i - 1 \in 1..Len(Tail(s))
  BY <1>1, <1>2
<1>6. \A c \in Members(s) : c = s[1] \/ c \in Members(Tail(s))
  <2>1. \A i \in 1..Len(s) : i = 1 \/ i \in 2..Len(s)
    BY <1>1
  <2> QED BY <1>5, <2>1, ZenonT(40) DEF Members
<1>7. Rank(s[1]) \in Nat
  BY <1>1, RankType
<1> QED BY <1>1, <1>2, <1>3, <1>4, <1>6, <1>7 DEF Members

LEMMA JoinSpans ==
  ASSUME NEW s, NEW t, NEW a \in Nat, NEW b \in Nat, NEW d \in Nat, Spans(s, a, b), Spans(t, b, d),
         a <= b, b <= d
  PROVE  Spans(s \o t, a, d) /\ Members(s \o t) = Members(s) \cup Members(t)
<1>1. s \in Seq(CallType) /\ t \in Seq(CallType) /\ Len(s) \in Nat /\ Len(t) \in Nat
  BY LenProperties DEF Spans
<1> DEFINE m == Len(s)  n == Len(t)  u == s \o t
<1>2. u \in Seq(CallType) /\ Len(u) = m + n
       /\ \A i \in 1..m + n : u[i] = IF i <= m THEN s[i] ELSE t[i - m]
  BY <1>1, ConcatProperties
<1>3. \A i \in 1..m : s[i] \in CallType
  BY <1>1, ElementOfSeq
<1>4. \A i \in 1..n : t[i] \in CallType
  BY <1>1, ElementOfSeq
<1>5. m \in Nat /\ n \in Nat
  BY <1>1
<1> HIDE DEF m, n, u
<1>6. \A i \in 1..m : u[i] = s[i] /\ a < Rank(s[i]) /\ Rank(s[i]) <= b /\ Rank(s[i]) \in Nat
  BY <1>2, <1>3, <1>5, RankType, SMTT(30) DEF Spans, m
<1>7. \A i \in m + 1..m + n : u[i] = t[i - m] /\ i - m \in 1..n
  BY <1>2, <1>5
<1>8. \A i \in 1..n : b < Rank(t[i]) /\ Rank(t[i]) <= d /\ Rank(t[i]) \in Nat
  BY <1>4, RankType DEF Spans, n
<1>9. \A i \in 1..m + n : i \in 1..m \/ i \in m + 1..m + n
  BY <1>5
<1>10. \A i \in 1..m + n : a < Rank(u[i]) /\ Rank(u[i]) <= d
  BY <1>5, <1>6, <1>7, <1>8, <1>9
<1>11. ASSUME NEW i \in 1..m + n, NEW j \in 1..m + n, i < j PROVE Rank(u[i]) < Rank(u[j])
  <2>1. CASE i \in 1..m /\ j \in 1..m
    BY <2>1, <1>6, <1>11 DEF Spans, m
  <2>2. CASE i \in 1..m /\ j \in m + 1..m + n
    BY <2>2, <1>6, <1>7, <1>8
  <2>3. CASE i \in m + 1..m + n /\ j \in m + 1..m + n
    <3>1. i - m < j - m
      BY <1>5, <1>11
    <3> QED BY <2>3, <3>1, <1>7 DEF Spans, n
  <2> QED BY <1>5, <1>9, <1>11, <2>1, <2>2, <2>3
<1>12. Members(u) = Members(s) \cup Members(t)
  <2>1. Members(u) \subseteq Members(s) \cup Members(t)
    BY <1>2, <1>6, <1>7, <1>9 DEF Members, m, n
  <2>2. Members(s) \subseteq Members(u)
    <3>1. \A i \in 1..m : i \in 1..m + n
      BY <1>5
    <3> QED BY <1>2, <1>6, <3>1 DEF Members, m
  <2>3. Members(t) \subseteq Members(u)
    <3>1. \A i \in 1..n : i + m \in m + 1..m + n /\ i + m \in 1..m + n /\ (i + m) - m = i
      BY <1>5
    <3>2. \A i \in 1..n : u[i + m] = t[i] /\ i + m \in 1..Len(u)
      BY <1>2, <1>7, <3>1
    <3> QED BY <3>2 DEF Members, n
  <2> QED BY <2>1, <2>2, <2>3
<1> QED BY <1>2, <1>10, <1>11, <1>12 DEF Spans, u

LEMMA SpansOne ==
  ASSUME NEW c \in CallType, NEW a \in Nat, a < Rank(c)
  PROVE  Spans(<<c>>, a, Rank(c)) /\ Members(<<c>>) = {c}
<1> DEFINE s == <<c>>
<1>1. s \in Seq(CallType) /\ Len(s) = 1 /\ s[1] = c
  OBVIOUS
<1>2. Rank(c) \in Nat
  BY RankType
<1> HIDE DEF s
<1>3. Spans(s, a, Rank(c)) /\ Members(s) = {c}
  BY <1>1, <1>2 DEF Spans, Members
<1> QED BY <1>3 DEF s

LEMMA SpansTwo ==
  ASSUME NEW c \in CallType, NEW d \in CallType, NEW a \in Nat, a < Rank(c), Rank(c) < Rank(d)
  PROVE  Spans(<<c, d>>, a, Rank(d)) /\ Members(<<c, d>>) = {c, d}
<1> DEFINE s == <<c, d>>
<1>1. s \in Seq(CallType) /\ Len(s) = 2 /\ s[1] = c /\ s[2] = d
  OBVIOUS
<1>2. Rank(c) \in Nat /\ Rank(d) \in Nat
  BY RankType
<1> HIDE DEF s
<1>3. 1..Len(s) = {1, 2}
  BY <1>1
<1>4. Spans(s, a, Rank(d)) /\ Members(s) = {c, d}
  BY <1>1, <1>2, <1>3 DEF Spans, Members
<1> QED BY <1>4 DEF s

\* A part that may be missing, and one that ends earlier than said
LEMMA SpansNone ==
  ASSUME NEW a \in Nat, NEW b \in Nat
  PROVE  Spans(<<>>, a, b) /\ Members(<<>>) = {}
<1>1. <<>> \in Seq(CallType) /\ 1..Len(<<>>) = {}
  OBVIOUS
<1> QED BY <1>1 DEF Spans, Members

LEMMA SpansWiden ==
  ASSUME NEW s, NEW a \in Nat, NEW b \in Nat, NEW d \in Nat, NEW e \in Nat,
         Spans(s, b, d), a <= b, d <= e
  PROVE  Spans(s, a, e)
<1>1. s \in Seq(CallType)
  BY DEF Spans
<1>2. \A i \in 1..Len(s) : Rank(s[i]) \in Nat
  BY <1>1, ElementOfSeq, RankType
<1> QED BY <1>2 DEF Spans

\* The calls on the video streams: two of the cleanup, or the four of the setup
LEMMA EachVideoIs ==
  ASSUME NEW n \in 0..MaxVideos, NEW m \in {2, 4}, NEW base \in Nat, NEW ops, Len(ops) = m,
         \A i \in 1..m : ops[i] \in Ops,
         \A q \in 0..n - 1, r \in 0..m - 1 : Rank(Call(ops[1 + r], 3 + q)) = m * q + r + 1 + base
  PROVE  /\ Spans(EachVideo(ops, n), base, m * MaxVideos + base)
         /\ Members(EachVideo(ops, n)) = {Call(ops[i], h) : i \in 1..m, h \in 3..n + 2}
<1>1. n \in Nat /\ MaxVideos \in Nat
  BY ClientsAssumption
<1> DEFINE s == EachVideo(ops, n)
<1>2. s = [k \in 1..n * m |-> Call(ops[1 + ((k - 1) % m)], 3 + (k - 1) \div m)]
  <2>1. \A k \in 1..n * m : Video(1 + (k - 1) \div m) = 3 + (k - 1) \div m
    BY <1>1 DEF Video
  <2> QED BY <2>1 DEF EachVideo
<1>3. \A k \in 1..n * m : \E q \in 0..n - 1, r \in 0..m - 1 : k = m * q + r + 1
  <2> TAKE k \in 1..n * m
  <2> DEFINE q == (k - 1) \div m  r == (k - 1) % m
  <2>1. CASE m = 2
    <3>1. q \in 0..n - 1 /\ r \in 0..m - 1 /\ k = m * q + r + 1
      BY <1>1, <2>1
    <3> QED BY <3>1
  <2>2. CASE m = 4
    <3>1. q \in 0..n - 1 /\ r \in 0..m - 1 /\ k = m * q + r + 1
      BY <1>1, <2>2
    <3> QED BY <3>1
  <2> QED BY <2>1, <2>2
<1>4. ASSUME NEW q \in 0..n - 1, NEW r \in 0..m - 1
      PROVE  m * q + r + 1 \in 1..n * m /\ s[m * q + r + 1] = Call(ops[1 + r], 3 + q)
  <2> DEFINE k == m * q + r + 1
  <2>1. k \in 1..n * m /\ (k - 1) \div m = q /\ (k - 1) % m = r
    <3>1. CASE m = 2
      BY <1>1, <3>1
    <3>2. CASE m = 4
      BY <1>1, <3>2
    <3> QED BY <3>1, <3>2
  <2> HIDE DEF k
  <2>2. k \in 1..n * m /\ s[k] = Call(ops[1 + r], 3 + q)
    BY <1>2, <2>1
  <2> QED BY <2>2 DEF k
<1>5. ASSUME NEW q \in 0..n - 1, NEW r \in 0..m - 1
      PROVE  /\ Call(ops[1 + r], 3 + q) \in CallType
             /\ Rank(Call(ops[1 + r], 3 + q)) = m * q + r + 1 + base
  <2>1. 3 + q \in Handles /\ 1 + r \in 1..m
    BY <1>1, HandlesAssumption DEF Streams
  <2> QED BY <2>1 DEF CallType, Call
<1> HIDE DEF s
<1>6. n * m \in Nat /\ n * m <= m * MaxVideos
  <2>1. CASE m = 2
    BY <1>1, <2>1
  <2>2. CASE m = 4
    BY <1>1, <2>2
  <2> QED BY <2>1, <2>2
<1>7. ASSUME NEW k \in 1..n * m PROVE s[k] \in CallType /\ Rank(s[k]) = k + base
  <2>1. PICK q \in 0..n - 1, r \in 0..m - 1 : k = m * q + r + 1
    BY <1>3
  <2> QED BY <1>4, <1>5, <2>1, ZenonT(40)
<1>8. s \in Seq(CallType) /\ Len(s) = n * m
  <2>1. s = [k \in 1..n * m |-> s[k]]
    BY <1>2
  <2> QED BY <1>6, <1>7, <2>1, IsASeq, LenProperties
<1>9. Spans(s, base, m * MaxVideos + base)
  <2>1. \A k \in 1..n * m : k \in Int /\ base < k + base /\ k + base <= m * MaxVideos + base
    BY <1>1, <1>6
  <2>2. \A i, j \in 1..n * m : i < j => i + base < j + base
    BY <1>6
  <2> QED BY <1>7, <1>8, <2>1, <2>2 DEF Spans
<1> DEFINE T == {Call(ops[i], h) : i \in 1..m, h \in 3..n + 2}
<1>10. ASSUME NEW k \in 1..n * m PROVE s[k] \in T
  <2>1. PICK q \in 0..n - 1, r \in 0..m - 1 : k = m * q + r + 1
    BY <1>3
  <2>2. 3 + q \in 3..n + 2 /\ 1 + r \in 1..m
    BY <1>1
  <2>3. s[k] = Call(ops[1 + r], 3 + q)
    BY <1>4, <2>1
  <2> QED BY <2>2, <2>3
<1>11. ASSUME NEW i \in 1..m, NEW h \in 3..n + 2 PROVE \E k \in 1..n * m : s[k] = Call(ops[i], h)
  <2>1. h - 3 \in 0..n - 1 /\ i - 1 \in 0..m - 1 /\ 3 + (h - 3) = h /\ 1 + (i - 1) = i
    BY <1>1
  <2> QED BY <1>4, <2>1
<1>12. Members(s) = T
  <2>1. Members(s) \subseteq T
    BY <1>8, <1>10 DEF Members
  <2>2. T \subseteq Members(s)
    BY <1>8, <1>11 DEF Members
  <2> QED BY <2>1, <2>2
<1> QED BY <1>9, <1>12 DEF s

LEMMA OpenVideos ==
  ASSUME NEW n \in 0..MaxVideos
  PROVE  /\ Spans(EachVideo(<<"create", "configure", "activate", "started">>, n),
                  12, 4 * MaxVideos + 12)
         /\ Members(EachVideo(<<"create", "configure", "activate", "started">>, n))
              = {Call(op, h) : op \in {"create", "configure", "activate", "started"}, h \in 3..n + 2}
<1> DEFINE ops == <<"create", "configure", "activate", "started">>
<1>1. /\ Len(ops) = 4
      /\ ops[1] = "create" /\ ops[2] = "configure" /\ ops[3] = "activate" /\ ops[4] = "started"
  OBVIOUS
<1> HIDE DEF ops
<1>2. ASSUME NEW q \in 0..n - 1, NEW r \in 0..3 PROVE Rank(Call(ops[1 + r], 3 + q)) = 4 * q + r + 1 + 12
  <2>1. 3 + q \in Nat /\ 3 + q > Playback /\ (r = 0 \/ r = 1 \/ r = 2 \/ r = 3)
    BY ClientsAssumption DEF Playback
  <2> QED BY <1>1, <2>1, VideoRanks
<1>3. \A i \in 1..4 : i = 1 \/ i = 2 \/ i = 3 \/ i = 4
  OBVIOUS
<1>4. {Call(ops[i], h) : i \in 1..4, h \in 3..n + 2}
        = {Call(op, h) : op \in {"create", "configure", "activate", "started"}, h \in 3..n + 2}
  <2>1. {ops[i] : i \in 1..4} = {"create", "configure", "activate", "started"}
    BY <1>1, <1>3
  <2> QED BY <2>1, SMTT(30)
<1>5. \A i \in 1..4 : ops[i] \in Ops
  BY <1>1, <1>3 DEF Ops
<1>6. /\ Spans(EachVideo(ops, n), 12, 4 * MaxVideos + 12)
      /\ Members(EachVideo(ops, n)) = {Call(ops[i], h) : i \in 1..4, h \in 3..n + 2}
  BY <1>1, <1>2, <1>5, EachVideoIs
<1> QED BY <1>4, <1>6 DEF ops

LEMMA CloseVideos ==
  ASSUME NEW n \in 0..MaxVideos
  PROVE  /\ Spans(EachVideo(<<"stop", "destroy">>, n), 4, 2 * MaxVideos + 4)
         /\ Members(EachVideo(<<"stop", "destroy">>, n))
              = {Call(op, h) : op \in {"stop", "destroy"}, h \in 3..n + 2}
<1> DEFINE ops == <<"stop", "destroy">>
<1>1. Len(ops) = 2 /\ ops[1] = "stop" /\ ops[2] = "destroy"
  OBVIOUS
<1> HIDE DEF ops
<1>2. ASSUME NEW q \in 0..n - 1, NEW r \in 0..1 PROVE Rank(Call(ops[1 + r], 3 + q)) = 2 * q + r + 1 + 4
  <2>1. 3 + q \in Nat /\ 3 + q > Playback /\ (r = 0 \/ r = 1)
    BY ClientsAssumption DEF Playback
  <2> QED BY <1>1, <2>1, VideoRanks
<1>3. \A i \in 1..2 : i = 1 \/ i = 2
  OBVIOUS
<1>4. {Call(ops[i], h) : i \in 1..2, h \in 3..n + 2}
        = {Call(op, h) : op \in {"stop", "destroy"}, h \in 3..n + 2}
  <2>1. {ops[i] : i \in 1..2} = {"stop", "destroy"}
    BY <1>1, <1>3
  <2> QED BY <2>1
<1>5. \A i \in 1..2 : ops[i] \in Ops
  BY <1>1, <1>3 DEF Ops
<1>6. /\ Spans(EachVideo(ops, n), 4, 2 * MaxVideos + 4)
      /\ Members(EachVideo(ops, n)) = {Call(ops[i], h) : i \in 1..2, h \in 3..n + 2}
  BY <1>1, <1>2, <1>5, EachVideoIs
<1> QED BY <1>4, <1>6 DEF ops

----------------------------------------------------------------------------
(* The lists of calls main() makes *)

LEMMA DoSpans ==
  ASSUME NEW op \in Ops, NEW a \in Nat, a < Rank(Call(op, 0))
  PROVE  Spans(Do(op), a, Rank(Call(op, 0))) /\ Members(Do(op)) = {Call(op, 0)}
BY SpansOne DEF Do, Call, CallType

LEMMA TwoSpans ==
  ASSUME NEW one \in Ops, NEW two \in Ops, NEW h \in Handles, NEW a \in Nat,
         a < Rank(Call(one, h)), Rank(Call(one, h)) < Rank(Call(two, h))
  PROVE  /\ Spans(<<Call(one, h), Call(two, h)>>, a, Rank(Call(two, h)))
         /\ Members(<<Call(one, h), Call(two, h)>>) = {Call(one, h), Call(two, h)}
<1>1. Call(one, h) \in CallType /\ Call(two, h) \in CallType
  BY DEF Call, CallType
<1> QED BY <1>1, SpansTwo

LEMMA OpenSpans ==
  ASSUME NEW h \in Handles, NEW a \in Nat, NEW b \in Nat, a < Rank(Call("create", h)),
         Rank(Call("create", h)) < Rank(Call("configure", h)), Rank(Call("configure", h)) = b
  PROVE  Spans(Open(h), a, b) /\ Members(Open(h)) = {Call("create", h), Call("configure", h)}
<1>1. "create" \in Ops /\ "configure" \in Ops
  BY DEF Ops
<1>2. /\ Spans(<<Call("create", h), Call("configure", h)>>, a, Rank(Call("configure", h)))
      /\ Members(<<Call("create", h), Call("configure", h)>>) = {Call("create", h), Call("configure", h)}
  BY <1>1, TwoSpans
<1> QED BY <1>2 DEF Open

LEMMA StartSpans ==
  ASSUME NEW h \in Handles, NEW a \in Nat, NEW b \in Nat, a < Rank(Call("activate", h)),
         Rank(Call("activate", h)) < Rank(Call("started", h)), Rank(Call("started", h)) = b
  PROVE  Spans(Start(h), a, b) /\ Members(Start(h)) = {Call("activate", h), Call("started", h)}
<1>1. "activate" \in Ops /\ "started" \in Ops
  BY DEF Ops
<1>2. /\ Spans(<<Call("activate", h), Call("started", h)>>, a, Rank(Call("started", h)))
      /\ Members(<<Call("activate", h), Call("started", h)>>) = {Call("activate", h), Call("started", h)}
  BY <1>1, TwoSpans
<1> QED BY <1>2 DEF Start

LEMMA TakeDownSpans ==
  ASSUME NEW h \in Handles, NEW a \in Nat, NEW b \in Nat, a < Rank(Call("stop", h)),
         Rank(Call("stop", h)) < Rank(Call("destroy", h)), Rank(Call("destroy", h)) = b
  PROVE  Spans(TakeDown(h), a, b) /\ Members(TakeDown(h)) = {Call("stop", h), Call("destroy", h)}
<1>1. "stop" \in Ops /\ "destroy" \in Ops
  BY DEF Ops
<1>2. /\ Spans(<<Call("stop", h), Call("destroy", h)>>, a, Rank(Call("destroy", h)))
      /\ Members(<<Call("stop", h), Call("destroy", h)>>) = {Call("stop", h), Call("destroy", h)}
  BY <1>1, TwoSpans
<1> QED BY <1>2 DEF TakeDown

LEMMA IfSpans ==
  ASSUME NEW s, NEW given, NEW a \in Nat, NEW b \in Nat, Spans(s, a, b)
  PROVE  /\ Spans(If(given, s), a, b)
         /\ Members(If(given, s)) = IF given THEN Members(s) ELSE {}
BY SpansNone DEF If

RecordSetup == {Call("open", 0), Call("signals", 0), Call("create", Capture),
                Call("configure", Capture), Call("activate", Capture),
                Call("started", Capture), Call("wait", 0)}
AudioSetup == {Call("ring", 0)}
              \cup {Call(op, h) : op \in {"create", "configure", "activate", "started"},
                                 h \in {Capture, Playback}}
VideoSetup(n) == {Call("ctxs", 0)}
                 \cup {Call(op, h) : op \in {"create", "configure", "activate", "started"},
                                    h \in 3..n + 2}

LEMMA SetupRecord ==
  ASSUME NEW o \in Options, o.program = "record"
  PROVE  Spans(Setup(o), 0, LastRank) /\ Members(Setup(o)) = RecordSetup
<1> USE FixedRanks, CaptureRanks, HandlesAre, ClientsAssumption
<1>1. Spans(Do("open"), 0, 1) /\ Members(Do("open")) = {Call("open", 0)}
  BY DoSpans DEF Ops
<1>2. Spans(Do("signals"), 1, 2) /\ Members(Do("signals")) = {Call("signals", 0)}
  BY DoSpans DEF Ops
<1>3. /\ Spans(Open(Capture), 2, 5)
      /\ Members(Open(Capture)) = {Call("create", Capture), Call("configure", Capture)}
  BY OpenSpans
<1>4. /\ Spans(Start(Capture), 5, 9)
      /\ Members(Start(Capture)) = {Call("activate", Capture), Call("started", Capture)}
  BY StartSpans
<1>5. Spans(Do("wait"), 9, LastRank) /\ Members(Do("wait")) = {Call("wait", 0)}
  BY DoSpans DEF Ops, LastRank
<1> DEFINE a == Do("open") \o Do("signals")  b == a \o Open(Capture)  c == b \o Start(Capture)
           d == c \o Do("wait")
<1> HIDE FixedRanks, CaptureRanks, HandlesAre
<1>6. Spans(a, 0, 2) /\ Members(a) = {Call("open", 0), Call("signals", 0)}
  BY <1>1, <1>2, JoinSpans
<1> HIDE DEF a
<1>7. Spans(b, 0, 5) /\ Members(b) = Members(a) \cup {Call("create", Capture), Call("configure", Capture)}
  BY <1>6, <1>3, JoinSpans
<1> HIDE DEF b
<1>8. Spans(c, 0, 9) /\ Members(c) = Members(b) \cup {Call("activate", Capture), Call("started", Capture)}
  BY <1>7, <1>4, JoinSpans
<1> HIDE DEF c
<1>9. LastRank \in Nat /\ 9 <= LastRank
  BY DEF LastRank
<1>10. Spans(d, 0, LastRank) /\ Members(d) = Members(c) \cup {Call("wait", 0)}
  BY <1>8, <1>5, <1>9, JoinSpans
<1>11. Setup(o) = d
  BY DEF Setup, a, b, c
<1> HIDE DEF d
<1> QED BY <1>6, <1>7, <1>8, <1>10, <1>11 DEF RecordSetup

LEMMA SetupLoopback ==
  ASSUME NEW o \in Options, o.program = "loopback"
  PROVE  /\ Spans(Setup(o), 0, LastRank)
         /\ Members(Setup(o)) = {Call("signals", 0), Call("wait", 0)}
                               \cup (IF o.audio THEN AudioSetup ELSE {})
                               \cup (IF o.videos > 0 THEN VideoSetup(o.videos) ELSE {})
<1> USE FixedRanks, CaptureRanks, PlaybackRanks, HandlesAre, ClientsAssumption
<1>1. Spans(Do("signals"), 0, 2) /\ Members(Do("signals")) = {Call("signals", 0)}
  BY DoSpans DEF Ops
<1>2. Spans(Do("ring"), 2, 3) /\ Members(Do("ring")) = {Call("ring", 0)}
  BY DoSpans DEF Ops
<1>3. /\ Spans(Open(Capture), 3, 5)
      /\ Members(Open(Capture)) = {Call("create", Capture), Call("configure", Capture)}
  BY OpenSpans
<1>4. /\ Spans(Open(Playback), 5, 7)
      /\ Members(Open(Playback)) = {Call("create", Playback), Call("configure", Playback)}
  BY OpenSpans
<1>5. /\ Spans(Start(Capture), 7, 9)
      /\ Members(Start(Capture)) = {Call("activate", Capture), Call("started", Capture)}
  BY StartSpans
<1>6. /\ Spans(Start(Playback), 9, 11)
      /\ Members(Start(Playback)) = {Call("activate", Playback), Call("started", Playback)}
  BY StartSpans
<1>7. Spans(Do("ctxs"), 11, 12) /\ Members(Do("ctxs")) = {Call("ctxs", 0)}
  BY DoSpans DEF Ops
<1>8. Spans(Do("wait"), 4 * MaxVideos + 12, LastRank) /\ Members(Do("wait")) = {Call("wait", 0)}
  BY DoSpans DEF Ops, LastRank
<1> HIDE FixedRanks, CaptureRanks, PlaybackRanks, HandlesAre
<1> DEFINE v == EachVideo(<<"create", "configure", "activate", "started">>, o.videos)
           V == {Call(op, h) : op \in {"create", "configure", "activate", "started"}, h \in 3..o.videos + 2}
<1>9. o.videos \in 0..MaxVideos
  BY DEF Options
<1>10. Spans(v, 12, 4 * MaxVideos + 12) /\ Members(v) = V
  BY <1>9, OpenVideos
<1> DEFINE a == Do("ring") \o Open(Capture)  b == a \o Open(Playback)  c == b \o Start(Capture)
           d == c \o Start(Playback)  w == Do("ctxs") \o v
<1> HIDE DEF v, V
<1>11. 4 * MaxVideos + 12 \in Nat /\ LastRank \in Nat /\ 4 * MaxVideos + 12 <= LastRank
       /\ 12 <= 4 * MaxVideos + 12 /\ 11 <= 4 * MaxVideos + 12
  BY DEF LastRank
<1>12. Spans(a, 2, 5) /\ Members(a) = {Call("ring", 0), Call("create", Capture), Call("configure", Capture)}
  BY <1>2, <1>3, JoinSpans
<1> HIDE DEF a
<1>13. Spans(b, 2, 7) /\ Members(b) = Members(a) \cup {Call("create", Playback), Call("configure", Playback)}
  BY <1>4, <1>12, JoinSpans
<1> HIDE DEF b
<1>14. Spans(c, 2, 9) /\ Members(c) = Members(b) \cup {Call("activate", Capture), Call("started", Capture)}
  BY <1>5, <1>13, JoinSpans
<1> HIDE DEF c
<1>15. Spans(d, 2, 11) /\ Members(d) = Members(c) \cup {Call("activate", Playback), Call("started", Playback)}
  BY <1>6, <1>14, JoinSpans
<1> HIDE DEF d
<1>16. Spans(w, 11, 4 * MaxVideos + 12) /\ Members(w) = {Call("ctxs", 0)} \cup V
  BY <1>7, <1>10, <1>11, JoinSpans
<1> HIDE DEF w
<1>17. Members(d) = AudioSetup
  BY <1>12, <1>13, <1>14, <1>15 DEF AudioSetup
<1>18. Members(w) = VideoSetup(o.videos)
  BY <1>16 DEF VideoSetup, V
<1> DEFINE e == Do("signals") \o If(o.audio, d)  f == e \o If(o.videos > 0, w)  g == f \o Do("wait")
<1>19. Setup(o) = g
  BY DEF Setup, a, b, c, d, v, w
<1>20. Spans(If(o.audio, d), 2, 11) /\ Members(If(o.audio, d)) = IF o.audio THEN AudioSetup ELSE {}
  BY <1>15, <1>17, IfSpans
<1>21. /\ Spans(If(o.videos > 0, w), 11, 4 * MaxVideos + 12)
       /\ Members(If(o.videos > 0, w)) = IF o.videos > 0 THEN VideoSetup(o.videos) ELSE {}
  BY <1>11, <1>16, <1>18, IfSpans
<1>22. Spans(e, 0, 11) /\ Members(e) = {Call("signals", 0)} \cup Members(If(o.audio, d))
  BY <1>1, <1>20, JoinSpans
<1> HIDE DEF e
<1>23. Spans(f, 0, 4 * MaxVideos + 12) /\ Members(f) = Members(e) \cup Members(If(o.videos > 0, w))
  BY <1>11, <1>21, <1>22, JoinSpans
<1> HIDE DEF f
<1>24. Spans(g, 0, LastRank) /\ Members(g) = Members(f) \cup {Call("wait", 0)}
  BY <1>8, <1>11, <1>23, JoinSpans
<1> HIDE DEF g
<1> DEFINE A == IF o.audio THEN AudioSetup ELSE {}
           W == IF o.videos > 0 THEN VideoSetup(o.videos) ELSE {}
<1>25. Members(g) = (({Call("signals", 0)} \cup A) \cup W) \cup {Call("wait", 0)}
  BY <1>20, <1>21, <1>22, <1>23, <1>24
<1> HIDE DEF A, W
<1>26. Members(g) = {Call("signals", 0), Call("wait", 0)} \cup A \cup W
  BY <1>25
<1> QED BY <1>19, <1>24, <1>26 DEF A, W

LEMMA FinishIs ==
  /\ Spans(Finish, 0, LastRank)
  /\ Members(Finish) = {Call("stop", Capture), Call("destroy", Capture), Call("close", 0)}
                        \cup (IF Format(options) = "wav" THEN {Call("patch", 0)} ELSE {})
<1> DEFINE r == 2 * MaxVideos  wav == Format(options) = "wav"
<1>1. r \in Nat /\ MaxVideos \in Nat
  BY ClientsAssumption
<1>2. Spans(TakeDown(Capture), 0, r + 9)
      /\ Members(TakeDown(Capture)) = {Call("stop", Capture), Call("destroy", Capture)}
  BY <1>1, CaptureRanks, HandlesAre, TakeDownSpans
<1>3. Spans(Do("patch"), r + 9, r + 10) /\ Members(Do("patch")) = {Call("patch", 0)}
  BY <1>1, FixedRanks, DoSpans DEF Ops
<1>4. Spans(Do("close"), r + 10, r + 12) /\ Members(Do("close")) = {Call("close", 0)}
  BY <1>1, FixedRanks, DoSpans DEF Ops
<1>5. LastRank \in Nat /\ r + 12 <= LastRank
  BY <1>1 DEF LastRank
<1> DEFINE p == If(wav, Do("patch"))  a == TakeDown(Capture) \o p  f == a \o Do("close")
<1>6. Finish = f
  BY DEF Finish
<1> HIDE DEF r, wav
<1>7. Spans(p, r + 9, r + 10) /\ Members(p) = IF wav THEN {Call("patch", 0)} ELSE {}
  BY <1>1, <1>3, IfSpans
<1> HIDE DEF p
<1>8. Spans(a, 0, r + 10) /\ Members(a) = {Call("stop", Capture), Call("destroy", Capture)} \cup Members(p)
  BY <1>1, <1>2, <1>7, JoinSpans
<1> HIDE DEF a
<1>9. Spans(f, 0, r + 12) /\ Members(f) = Members(a) \cup {Call("close", 0)}
  BY <1>1, <1>4, <1>8, JoinSpans
<1> HIDE DEF f
<1>10. Spans(f, 0, LastRank)
  BY <1>1, <1>5, <1>9, SpansWiden
<1> DEFINE W == IF wav THEN {Call("patch", 0)} ELSE {}
<1>11. Members(f) = ({Call("stop", Capture), Call("destroy", Capture)} \cup W) \cup {Call("close", 0)}
  BY <1>7, <1>8, <1>9
<1> HIDE DEF W
<1>12. Members(f) = {Call("stop", Capture), Call("destroy", Capture), Call("close", 0)} \cup W
  BY <1>11
<1> QED BY <1>6, <1>10, <1>12 DEF W, wav

\* What the cleanup calls, when `started' video streams are counted
CleanupOf(started) ==
  IF Recording
    THEN (IF Alive(Capture) THEN {Call("destroy", Capture)} ELSE {})
         \cup (IF "file" \in memory THEN {Call("close", 0)} ELSE {})
    ELSE {Call(op, h) : op \in {"stop", "destroy"}, h \in 3..started + 2}
         \cup (IF "ctxs" \in memory THEN {Call("free_ctxs", 0)} ELSE {})
         \cup (IF Alive(Playback) THEN {Call("stop", Playback), Call("destroy", Playback)} ELSE {})
         \cup (IF Alive(Capture) THEN {Call("stop", Capture), Call("destroy", Capture)} ELSE {})
         \cup (IF "ring" \in memory THEN {Call("free_ring", 0)} ELSE {})

LEMMA CleanupIs ==
  ASSUME NEW started \in 0..MaxVideos
  PROVE  Spans(Cleanup(started), 0, LastRank) /\ Members(Cleanup(started)) = CleanupOf(started)
<1> DEFINE r == 2 * MaxVideos
<1>1. r \in Nat /\ MaxVideos \in Nat /\ LastRank \in Nat /\ r + 12 <= LastRank
  BY ClientsAssumption DEF LastRank
<1>2. CASE Recording
  <2> DEFINE open == "file" \in memory  a == If(Alive(Capture), <<Call("destroy", Capture)>>)
             b == If(open, Do("close"))  c == a \o b
  <2>1. Cleanup(started) = c
    BY <1>2 DEF Cleanup
  <2>2. Call("destroy", Capture) \in CallType
    BY HandlesAre DEF Call, CallType, Ops
  <2>3. Spans(<<Call("destroy", Capture)>>, 0, r + 9)
        /\ Members(<<Call("destroy", Capture)>>) = {Call("destroy", Capture)}
    BY <1>1, <2>2, CaptureRanks, SpansOne
  <2>4. Spans(Do("close"), r + 9, r + 12) /\ Members(Do("close")) = {Call("close", 0)}
    BY <1>1, FixedRanks, DoSpans DEF Ops
  <2> HIDE DEF r, open
  <2>5. Spans(a, 0, r + 9) /\ Members(a) = IF Alive(Capture) THEN {Call("destroy", Capture)} ELSE {}
    BY <1>1, <2>3, IfSpans
  <2>6. Spans(b, r + 9, r + 12) /\ Members(b) = IF open THEN {Call("close", 0)} ELSE {}
    BY <1>1, <2>4, IfSpans
  <2> HIDE DEF a, b
  <2>7. Spans(c, 0, r + 12) /\ Members(c) = Members(a) \cup Members(b)
    BY <1>1, <2>5, <2>6, JoinSpans
  <2> HIDE DEF c
  <2>8. Spans(c, 0, LastRank)
    BY <1>1, <2>7, SpansWiden
  <2> QED BY <1>2, <2>1, <2>5, <2>6, <2>7, <2>8 DEF CleanupOf, open
<1>3. CASE ~ Recording
  <2> DEFINE v == EachVideo(<<"stop", "destroy">>, started)
             ctxs == "ctxs" \in memory  ring == "ring" \in memory
             x == If(ctxs, Do("free_ctxs"))
             p == If(Alive(Playback), TakeDown(Playback))
             c == If(Alive(Capture), TakeDown(Capture))
             f == If(ring, Do("free_ring"))
             V == {Call(op, h) : op \in {"stop", "destroy"}, h \in 3..started + 2}
             X == IF ctxs THEN {Call("free_ctxs", 0)} ELSE {}
             P == IF Alive(Playback) THEN {Call("stop", Playback), Call("destroy", Playback)} ELSE {}
             C == IF Alive(Capture) THEN {Call("stop", Capture), Call("destroy", Capture)} ELSE {}
             F == IF ring THEN {Call("free_ring", 0)} ELSE {}
  <2>1. Cleanup(started) = v \o x \o p \o c \o f
    BY <1>3 DEF Cleanup
  <2>2. CleanupOf(started) = V \cup X \cup P \cup C \cup F
    BY <1>3 DEF CleanupOf
  <2>3. Spans(v, 4, r + 4) /\ Members(v) = V
    BY CloseVideos
  <2>4. Spans(Do("free_ctxs"), r + 4, r + 5) /\ Members(Do("free_ctxs")) = {Call("free_ctxs", 0)}
    BY <1>1, FixedRanks, DoSpans DEF Ops
  <2>5. /\ Spans(TakeDown(Playback), r + 5, r + 7)
        /\ Members(TakeDown(Playback)) = {Call("stop", Playback), Call("destroy", Playback)}
    BY <1>1, PlaybackRanks, HandlesAre, TakeDownSpans
  <2>6. /\ Spans(TakeDown(Capture), r + 7, r + 9)
        /\ Members(TakeDown(Capture)) = {Call("stop", Capture), Call("destroy", Capture)}
    BY <1>1, CaptureRanks, HandlesAre, TakeDownSpans
  <2>7. Spans(Do("free_ring"), r + 9, r + 11) /\ Members(Do("free_ring")) = {Call("free_ring", 0)}
    BY <1>1, FixedRanks, DoSpans DEF Ops
  <2> HIDE DEF r, v, V, ctxs, ring
  <2>8. Spans(x, r + 4, r + 5) /\ Members(x) = X
    BY <1>1, <2>4, IfSpans
  <2>9. Spans(p, r + 5, r + 7) /\ Members(p) = P
    BY <1>1, <2>5, IfSpans
  <2>10. Spans(c, r + 7, r + 9) /\ Members(c) = C
    BY <1>1, <2>6, IfSpans
  <2>11. Spans(f, r + 9, r + 11) /\ Members(f) = F
    BY <1>1, <2>7, IfSpans
  <2> HIDE DEF x, p, c, f, X, P, C, F
  <2> DEFINE a1 == v \o x  a2 == a1 \o p  a3 == a2 \o c  a4 == a3 \o f
  <2>12. Spans(a1, 4, r + 5) /\ Members(a1) = V \cup X
    BY <1>1, <2>3, <2>8, JoinSpans
  <2> HIDE DEF a1
  <2>13. Spans(a2, 4, r + 7) /\ Members(a2) = Members(a1) \cup P
    BY <1>1, <2>9, <2>12, JoinSpans
  <2> HIDE DEF a2
  <2>14. Spans(a3, 4, r + 9) /\ Members(a3) = Members(a2) \cup C
    BY <1>1, <2>10, <2>13, JoinSpans
  <2> HIDE DEF a3
  <2>15. Spans(a4, 4, r + 11) /\ Members(a4) = Members(a3) \cup F
    BY <1>1, <2>11, <2>14, JoinSpans
  <2> HIDE DEF a4
  <2>16. Spans(a4, 0, LastRank)
    BY <1>1, <2>15, SpansWiden
  <2>17. Members(a4) = V \cup X \cup P \cup C \cup F
    BY <2>12, <2>13, <2>14, <2>15
  <2> QED BY <2>1, <2>2, <2>16, <2>17 DEF a1, a2, a3, a4
<1> QED BY <1>2, <1>3

----------------------------------------------------------------------------
(* The invariant *)

Pending == Members(todo)
InOrder == Spans(todo, 0, LastRank)

\* What the callbacks of h need comes from, and goes with
Allocation(h) == Call(IF Recording THEN "open"
                      ELSE IF h \in {Capture, Playback} THEN "ring" ELSE "ctxs", 0)
Freeing(what) == Call(CASE what = "file" -> "close" [] what = "ring" -> "free_ring"
                        [] OTHER -> "free_ctxs", 0)

HandlesInv ==
  \A h \in Handles :
    /\ handle[h].active \/ handle[h].delivering \/ handle[h].reporting => Alive(h)
    /\ Alive(h) => UserData(h) \in memory
    /\ Alive(h) /\ Recording => h = Capture

MemoryInv == memory \subseteq (IF Recording THEN {"file"} ELSE {"ring", "ctxs"})

Quiet == \A h \in Handles : ~ handle[h].active /\ ~ handle[h].delivering

\* Of the recording: what is counted; that the header will tell it, wherever
\* stdio has that header; and that there is nothing left that stdio has.
CountInv == ~ failed /\ written + buffered < Width => bytes_written = written + buffered

Tells ==
  ~ failed /\ options.output = "file" =>
    /\ patch.at # "end"
    /\ Fits(IF patch.at = "start" THEN patch.header ELSE header, written + buffered)

Written == ~ failed => buffered = 0 /\ (patch.at = "start" => header = patch.header)

FileType ==
  /\ bytes_written \in Nat /\ buffered \in Nat /\ written \in Nat /\ failed \in BOOLEAN
  /\ header \in [riff : Nat, data : Nat]
  /\ patch \in [at : {"none", "start", "end"}, header : [riff : Nat, data : Nat]]

\* main() before it has to clean up: what it creates will have its data; what
\* is alive was created before all that is left, and is started or counted.
SetupInv ==
  /\ Call("wait", 0) \in Pending
  /\ \A c \in Pending : c.op \in SetupOps
  /\ \A c \in Pending : IF Recording THEN c.h \in {0, Capture} /\ c.op \notin {"ring", "ctxs"}
                        ELSE c.op # "open"
  /\ \A h \in Handles :
       /\ Call("create", h) \in Pending =>
            /\ UserData(h) \in memory \/ Allocation(h) \in Pending
            /\ Call("started", h) \in Pending
       /\ Alive(h) => \A c \in Pending : Rank(Call("create", h)) < Rank(c)
       /\ Alive(h) /\ h > Playback => Call("started", h) \in Pending \/ h - Playback <= video_started
  /\ patch.at = "none" /\ header = Header(0)
  /\ Recording /\ (\E c \in Pending : c.op \in FailOps) => Quiet /\ written = 0 /\ buffered = 0

\* main() cleaning up, or back
CleanupInv ==
  /\ \A c \in Pending : c.op \in CleanupOps
  /\ \A h \in Handles : Alive(h) => Call("destroy", h) \in Pending
  /\ \A what \in memory : Freeing(what) \in Pending
  /\ Recording /\ Format(options) = "wav" => Call("patch", 0) \in Pending \/ (Quiet /\ Tells)
  /\ Recording => Call("close", 0) \in Pending \/ (Quiet /\ Written)
  /\ Call("patch", 0) \in Pending => Call("close", 0) \in Pending

IInv ==
  /\ TypeOK /\ InOrder /\ HandlesInv /\ MemoryInv /\ CountInv
  /\ SetupInv \/ CleanupInv

LEMMA CallEq ==
  ASSUME NEW a, NEW b, NEW c, NEW d
  PROVE  /\ Call(a, b) = Call(c, d) <=> a = c /\ b = d
         /\ Call(a, b).op = a /\ Call(a, b).h = b
BY DEF Call

LEMMA ProgramIs ==
  ASSUME options \in Options
  PROVE  /\ Recording => options.program = "record"
         /\ ~ Recording => options.program = "loopback"
BY DEF Options, Recording

\* The header without data
LEMMA NoData ==
  /\ Header(0) \in [riff : Nat, data : Nat]
  /\ Fits(Header(0), 0)
<1>1. HeaderSize \in Nat /\ Width \in Nat /\ Width > 0
  BY ClientsAssumption
<1>2. HeaderSize % Width \in Nat /\ 0 % Width = 0 /\ (HeaderSize < Width => HeaderSize % Width = HeaderSize)
  BY <1>1
<1>3. HeaderSize + 0 = HeaderSize /\ 0 + HeaderSize = HeaderSize
  BY <1>1
<1> QED BY <1>2, <1>3 DEF Header, Fits

LEMMA InitInv == Init => IInv
<1> SUFFICES ASSUME Init PROVE IInv
  OBVIOUS
<1>1. /\ \A h \in Handles : handle[h] = Absent /\ ~ Alive(h)
      /\ options \in Options /\ memory = {} /\ video_started = 0
      /\ bytes_written = 0 /\ written = 0 /\ buffered = 0
      /\ header = Header(0) /\ patch = [at |-> "none", header |-> Header(0)]
  BY DEF Init, Alive, Absent
<1>2. Quiet /\ Tells /\ Written /\ HandlesInv /\ MemoryInv /\ CountInv
  <2>1. Quiet /\ HandlesInv /\ MemoryInv
    BY <1>1 DEF Quiet, HandlesInv, MemoryInv, Absent
  <2>2. patch.at = "none" /\ written + buffered = 0
    BY <1>1
  <2>3. Tells /\ Written /\ CountInv
    BY <1>1, <2>2, NoData DEF Tells, Written, CountInv
  <2> QED BY <2>1, <2>3
<1>3. LastRank \in Nat
  BY ClientsAssumption DEF LastRank
<1>4. ASSUME InOrder PROVE TypeOK
  <2>1. todo \in Seq(CallType)
    BY <1>4 DEF InOrder, Spans
  <2>2. 0 \in 0..MaxVideos
    BY ClientsAssumption
  <2> QED BY <2>1, <2>2, NoData DEF TypeOK, Init, Absent, CallType
<1>5. CASE ~ Accepted(options)
  <2>1. todo = <<>>
    BY <1>5 DEF Init
  <2>2. InOrder /\ Pending = {}
    BY <1>3, <2>1, SpansNone DEF InOrder, Pending
  <2>3. CleanupInv
    BY <1>1, <1>2, <2>2 DEF CleanupInv
  <2> QED BY <1>2, <1>4, <2>2, <2>3 DEF IInv
<1>6. CASE Accepted(options)
  <2>1. todo = Setup(options)
    BY <1>6 DEF Init
  <2>2. CASE Recording
    <3>1. InOrder /\ Pending = RecordSetup
      BY <1>1, <2>1, <2>2, ProgramIs, SetupRecord DEF InOrder, Pending
    <3>2. \A c \in Pending : c.op \in SetupOps /\ c.h \in {0, Capture} /\ c.op \notin {"ring", "ctxs"}
      BY <3>1 DEF RecordSetup, SetupOps, Call
    <3>3. ASSUME NEW h \in Handles, Call("create", h) \in Pending
          PROVE  Allocation(h) \in Pending /\ Call("started", h) \in Pending
      <4>1. h = Capture
        BY <3>1, <3>3, CallEq DEF RecordSetup
      <4> QED BY <2>2, <3>1, <4>1 DEF RecordSetup, Allocation
    <3>4. SetupInv
      BY <1>1, <1>2, <2>2, <3>1, <3>2, <3>3 DEF SetupInv, RecordSetup
    <3> QED BY <1>2, <1>4, <3>1, <3>4 DEF IInv
  <2>3. CASE ~ Recording
    <3> DEFINE A == IF options.audio THEN AudioSetup ELSE {}
               W == IF options.videos > 0 THEN VideoSetup(options.videos) ELSE {}
    <3>1. InOrder /\ Pending = {Call("signals", 0), Call("wait", 0)} \cup A \cup W
      BY <1>1, <2>1, <2>3, ProgramIs, SetupLoopback DEF InOrder, Pending
    <3>2. \A c \in A : c.op \in SetupOps /\ c.op # "open"
      BY DEF AudioSetup, SetupOps, Call
    <3>3. \A c \in W : c.op \in SetupOps /\ c.op # "open"
      BY DEF VideoSetup, SetupOps, Call
    <3>4. \A c \in Pending : c.op \in SetupOps /\ c.op # "open"
      <4> HIDE DEF A, W
      <4> QED BY <3>1, <3>2, <3>3 DEF SetupOps, Call
    <3>5. ASSUME NEW h \in Handles, Call("create", h) \in A
          PROVE  Allocation(h) \in A /\ Call("started", h) \in A
      <4>1. h \in {Capture, Playback} /\ A = AudioSetup
        BY <3>5, CallEq DEF AudioSetup
      <4> QED BY <2>3, <4>1 DEF AudioSetup, Allocation
    <3>6. ASSUME NEW h \in Handles, Call("create", h) \in W
          PROVE  Allocation(h) \in W /\ Call("started", h) \in W
      <4>1. h \in 3..options.videos + 2 /\ W = VideoSetup(options.videos)
        BY <3>6, CallEq DEF VideoSetup
      <4>2. h \notin {Capture, Playback}
        BY <4>1 DEF Capture, Playback
      <4> QED BY <2>3, <4>1, <4>2 DEF VideoSetup, Allocation
    <3>7. ASSUME NEW h \in Handles, Call("create", h) \in Pending
          PROVE  Allocation(h) \in Pending /\ Call("started", h) \in Pending
      <4> HIDE DEF A, W
      <4>1. Call("create", h) \in A \/ Call("create", h) \in W
        BY <3>1, <3>7, CallEq
      <4> QED BY <3>1, <3>5, <3>6, <4>1
    <3>8. Call("wait", 0) \in Pending
      BY <3>1
    <3> HIDE DEF A, W
    <3>9. SetupInv
      BY <1>1, <1>2, <2>3, <3>4, <3>7, <3>8 DEF SetupInv
    <3> QED BY <1>2, <1>4, <3>1, <3>9 DEF IInv
  <2> QED BY <2>2, <2>3
<1> QED BY <1>5, <1>6

----------------------------------------------------------------------------
(* One call of main() *)

Current == Head(todo)

LEMMA CurrentIs ==
  ASSUME IInv, ~ Ended
  PROVE  /\ Current \in Pending /\ Current \in CallType /\ Current = Call(Current.op, Now)
         /\ Now \in {0} \cup Handles
         /\ \A c \in Pending : c \in CallType /\ Rank(c) \in Nat
<1>1. Spans(todo, 0, LastRank) /\ LastRank \in Nat /\ todo # <<>>
  BY ClientsAssumption DEF IInv, InOrder, LastRank, Ended
<1>2. Current \in Pending /\ Current \in CallType
  BY <1>1, TailSpans DEF Current, Pending
<1>3. \A c \in Pending : c \in CallType
  BY <1>1, ElementOfSeq DEF Spans, Pending, Members
<1> QED BY <1>2, <1>3, CallIs, RankType DEF Current, Now, CallType

LEMMA DoneIs ==
  ASSUME IInv, ~ Ended, Done
  PROVE  /\ InOrder' /\ Pending' = Pending \ {Current}
         /\ \A c \in Pending' : Rank(Current) < Rank(c)
<1>1. Spans(todo, 0, LastRank) /\ LastRank \in Nat /\ todo # <<>>
  BY ClientsAssumption DEF IInv, InOrder, LastRank, Ended
<1>2. todo' = Tail(todo)
  BY DEF Done
<1>3. Spans(Tail(todo), 0, LastRank) /\ Members(Tail(todo)) = Members(todo) \ {Head(todo)}
      /\ \A c \in Members(Tail(todo)) : Rank(Head(todo)) < Rank(c)
  BY <1>1, TailSpans
<1> QED BY <1>2, <1>3 DEF InOrder, Pending, Current

\* What a call before the cleanup must do to keep SetupInv
LEMMA SetupMoves ==
  ASSUME IInv, SetupInv, ~ Ended, Done, Current.op # "wait",
         options' = options, header' = header, written' = written, buffered' = buffered,
         patch' = patch,
         \A h \in Handles :
           UserData(h) \in memory \/ Current = Allocation(h) => UserData(h) \in memory',
         \A h \in Handles : Alive(h)' => Alive(h) \/ Current = Call("create", h),
         \A h \in Handles :
           /\ Alive(h) /\ h > Playback
           /\ Current = Call("started", h) \/ h - Playback <= video_started
           => h - Playback <= video_started',
         \A h \in Handles :
           /\ handle'[h].active => handle[h].active \/ Current = Call("activate", h)
           /\ handle'[h].delivering => handle[h].delivering
  PROVE  SetupInv'
<1>1. /\ Current \in Pending /\ Current \in CallType /\ Current = Call(Current.op, Now)
      /\ \A c \in Pending : c \in CallType /\ Rank(c) \in Nat
  BY CurrentIs
<1>2. Pending' = Pending \ {Current} /\ \A c \in Pending' : Rank(Current) < Rank(c)
  BY DoneIs
<1>3. (Recording <=> Recording') /\ \A h \in Handles : UserData(h)' = UserData(h) /\ Allocation(h)' = Allocation(h)
  BY DEF Recording, UserData, Allocation
<1>4. Call("wait", 0) \in Pending'
  BY <1>2, CallEq DEF SetupInv
<1>5. /\ \A c \in Pending' : c.op \in SetupOps
      /\ \A c \in Pending' : IF Recording' THEN c.h \in {0, Capture} /\ c.op \notin {"ring", "ctxs"}
                           ELSE c.op # "open"
  BY <1>2, <1>3 DEF SetupInv
<1>6. ASSUME NEW h \in Handles, Call("create", h) \in Pending'
      PROVE  /\ UserData(h)' \in memory' \/ Allocation(h)' \in Pending'
             /\ Call("started", h) \in Pending'
  <2>1. /\ UserData(h) \in memory \/ Allocation(h) \in Pending
        /\ Call("started", h) \in Pending
    BY <1>2, <1>6 DEF SetupInv
  <2>2. Current # Call("started", h)
    <3>1. Rank(Call("create", h)) < Rank(Call("started", h))
      BY HandlesAre, CaptureRanks, PlaybackRanks, VideoRanks
    <3>2. Rank(Current) < Rank(Call("create", h)) /\ Call("create", h) \in Pending
      BY <1>2, <1>6
    <3> HIDE DEF Current
    <3> QED BY <1>1, <2>1, <3>1, <3>2
  <2> QED BY <1>2, <1>3, <2>1, <2>2
<1>7. ASSUME NEW h \in Handles, Alive(h)', NEW c \in Pending'
      PROVE  Rank(Call("create", h)) < Rank(c)
  BY <1>2, <1>7 DEF SetupInv
<1>8. ASSUME NEW h \in Handles, Alive(h)', h > Playback
      PROVE  Call("started", h) \in Pending' \/ h - Playback <= video_started'
  <2>1. CASE Current = Call("create", h)
    BY <1>1, <1>2, <2>1, CallEq DEF SetupInv
  <2>2. CASE Alive(h)
    <3>1. Call("started", h) \in Pending \/ h - Playback <= video_started
      BY <1>8, <2>2 DEF SetupInv
    <3> QED BY <1>2, <1>8, <2>2, <3>1
  <2> QED BY <1>8, <2>1, <2>2
<1>9. ASSUME Recording, NEW c \in Pending', c.op \in FailOps PROVE Quiet' /\ written' = 0 /\ buffered' = 0
  <2>1. c \in Pending /\ Rank(Current) < Rank(c)
    BY <1>2, <1>9
  <2>2. Quiet /\ written = 0 /\ buffered = 0
    BY <1>9, <2>1 DEF SetupInv
  <2>3. c = Call(c.op, c.h) /\ c.h \in {0, Capture} /\ c.op \notin {"ring", "ctxs"}
    BY <1>1, <1>9, <2>1, CallIs DEF SetupInv
  <2>4. Rank(c) <= 8
    <3>1. CASE c.h = 0
      <4>1. Rank(c) = FixedRank(c.op)
        BY <3>1 DEF Rank
      <4> QED BY <1>9, <2>3, <4>1 DEF FixedRank, FailOps
    <3>2. CASE c.h = Capture
      <4>1. Rank(c) = CaptureRank(c.op)
        BY <3>2 DEF Rank, Capture
      <4> QED BY <1>9, <2>3, <4>1 DEF CaptureRank, FailOps
    <3> QED BY <2>3, <3>1, <3>2
  <2>5. ASSUME NEW h \in Handles PROVE Current # Call("activate", h)
    <3>1. SUFFICES ASSUME Current = Call("activate", h) PROVE FALSE
      OBVIOUS
    <3>2. h = Capture
      BY <1>1, <1>9, <3>1, CallEq, HandlesAre DEF SetupInv
    <3>3. Rank(Current) = 8
      BY <3>1, <3>2, CaptureRanks
    <3> QED BY <2>1, <2>4, <3>3, <1>1
  <2> QED BY <2>2, <2>5 DEF Quiet
<1>10. patch'.at = "none" /\ header' = Header(0)
  BY DEF SetupInv
<1> HIDE DEF Current
<1> QED BY <1>3, <1>4, <1>5, <1>6, <1>7, <1>8, <1>9, <1>10 DEF SetupInv

\* What a call of the cleanup must do to keep CleanupInv
LEMMA CleanupMoves ==
  ASSUME IInv, CleanupInv, ~ Ended, Done, options' = options,
         \A h \in Handles : Alive(h)' => Alive(h) /\ Current # Call("destroy", h),
         \A what \in memory' : what \in memory /\ Current # Freeing(what),
         Quiet => Quiet', Tells => Tells', Current = Call("patch", 0) => Quiet' /\ Tells',
         Written => Written' \/ Current = Call("patch", 0),
         Current = Call("close", 0) => Quiet' /\ Written'
  PROVE  CleanupInv'
<1>1. Pending' = Pending \ {Current} /\ \A c \in Pending' : Rank(Current) < Rank(c)
  BY DoneIs
<1>2. (Recording' <=> Recording) /\ Format(options)' = Format(options)
  BY DEF Recording, Format
<1> HIDE DEF Current
<1>3. \A h \in Handles : Alive(h)' => Call("destroy", h) \in Pending'
  BY <1>1 DEF CleanupInv
<1>4. \A what \in memory' : Freeing(what) \in Pending'
  BY <1>1 DEF CleanupInv
<1>5. \A c \in Pending' : c.op \in CleanupOps
  BY <1>1 DEF CleanupInv
<1>6. Recording' /\ Format(options)' = "wav" => Call("patch", 0) \in Pending' \/ (Quiet' /\ Tells')
  BY <1>1, <1>2 DEF CleanupInv
<1>7. Call("patch", 0) \in Pending' => Call("close", 0) \in Pending'
  <2>1. Call("patch", 0) \in Pending' => Current # Call("close", 0)
    BY <1>1, FixedRanks, ClientsAssumption
  <2> QED BY <1>1, <2>1 DEF CleanupInv
<1>8. Recording' => Call("close", 0) \in Pending' \/ (Quiet' /\ Written')
  <2>1. CASE Current = Call("patch", 0)
    <3>1. Current \in Pending /\ Current # Call("close", 0)
      BY <2>1, CurrentIs, CallEq
    <3> QED BY <1>1, <2>1, <3>1 DEF CleanupInv
  <2>2. CASE Current # Call("patch", 0)
    BY <1>1, <1>2, <2>2 DEF CleanupInv
  <2> QED BY <2>1, <2>2
<1> QED BY <1>3, <1>4, <1>5, <1>6, <1>7, <1>8 DEF CleanupInv

HandleType == [st : {"none", "created", "destroyed"}, set : BOOLEAN, running : BOOLEAN,
               active : BOOLEAN, delivering : BOOLEAN, reporting : BOOLEAN]

LEMMA OneHandle ==
  ASSUME TypeOK, NEW h \in Handles, NEW s \in HandleType, Is(h, s)
  PROVE  /\ handle' \in [Handles -> HandleType] /\ handle'[h] = s
         /\ \A g \in Handles : g # h => handle'[g] = handle[g] /\ (Alive(g)' <=> Alive(g))
         /\ Alive(h)' <=> s.st = "created"
<1>1. handle \in [Handles -> HandleType]
  BY DEF TypeOK, HandleType
<1>2. handle' = [handle EXCEPT ![h] = s]
  BY DEF Is
<1> QED BY <1>1, <1>2 DEF Alive

LEMMA Handle ==
  ASSUME TypeOK, NEW h \in Handles
  PROVE  handle[h] \in HandleType
BY DEF TypeOK, HandleType

LEMMA Phase ==
  ASSUME IInv, ~ Ended
  PROVE  /\ Current.op \in SetupOps => SetupInv
         /\ Current.op \in CleanupOps => CleanupInv
<1>1. Current \in Pending
  BY CurrentIs
<1>2. SetupOps \cap CleanupOps = {}
  BY DEF SetupOps, CleanupOps
<1> HIDE DEF Current
<1> QED BY <1>1, <1>2 DEF IInv, SetupInv, CleanupInv

\* A call is on a stream or on none, as its kind has it: others have no rank.
LEMMA CallsFit ==
  ASSUME IInv, NEW c \in Pending
  PROVE  /\ c.op \in {"open", "signals", "ring", "ctxs", "wait", "patch", "free_ctxs",
                      "free_ring", "close"} => c = Call(c.op, 0)
         /\ c.op \in {"create", "configure", "activate", "started", "stop", "stopped",
                      "destroy"} => c.h \in Handles /\ c = Call(c.op, c.h)
<1>1. c \in CallType /\ Rank(c) # 0
  <2>1. Spans(todo, 0, LastRank)
    BY DEF IInv, InOrder
  <2>2. PICK i \in 1..Len(todo) : c = todo[i]
    BY DEF Pending, Members
  <2>3. todo[i] \in CallType /\ 0 < Rank(todo[i])
    BY <2>1, ElementOfSeq DEF Spans
  <2> QED BY <2>2, <2>3
<1>2. c = Call(c.op, c.h)
  BY <1>1, CallIs
<1>3. c.h \in {0} \cup Handles
  BY <1>1 DEF CallType
<1>4. c.h = 0 => Rank(c) = FixedRank(c.op)
  BY DEF Rank
<1>5. c.h = Capture => Rank(c) = CaptureRank(c.op)
  BY DEF Rank, Capture
<1>6. c.h = Playback => Rank(c) = PlaybackRank(c.op)
  BY DEF Rank, Capture, Playback
<1>7. c.h > Playback => Rank(c) = VideoRank(c.op, c.h)
  BY <1>3, HandlesAre DEF Rank, Capture, Playback
<1>8. ASSUME c.op \in {"open", "signals", "ring", "ctxs", "wait", "patch", "free_ctxs",
                       "free_ring", "close"}
      PROVE  CaptureRank(c.op) = 0 /\ PlaybackRank(c.op) = 0 /\ VideoRank(c.op, c.h) = 0
  BY <1>8 DEF CaptureRank, PlaybackRank, VideoRank
<1>9. ASSUME c.op \in {"create", "configure", "activate", "started", "stop", "stopped", "destroy"}
      PROVE  FixedRank(c.op) = 0
  BY <1>9 DEF FixedRank
<1>10. c.h = 0 \/ c.h = Capture \/ c.h = Playback \/ c.h > Playback
  BY <1>3, HandlesAre
<1> QED BY <1>1, <1>2, <1>3, <1>4, <1>5, <1>6, <1>7, <1>8, <1>9, <1>10

LEMMA Typed ==
  ASSUME IInv, InOrder', handle' \in [Handles -> HandleType],
         options' = options, memory' \subseteq {"file", "ring", "ctxs"},
         video_started' \in 0..MaxVideos, g_running' = g_running,
         UNCHANGED <<bytes_written, buffered, written, header, patch, failed>> \/ FileType'
  PROVE  TypeOK'
<1>1. todo' \in Seq(CallType)
  BY DEF InOrder, Spans
<1>2. FileType'
  BY DEF IInv, TypeOK, FileType
<1> QED BY <1>1, <1>2 DEF FileType, IInv, TypeOK, CallType, HandleType

LEMMA AllocateStep ==
  ASSUME IInv, NEW op, NEW what, Allocate(op, what),
         <<op, what>> \in {<<"open", "file">>, <<"ring", "ring">>, <<"ctxs", "ctxs">>}
  PROVE  IInv'
<1>1. /\ ~ Ended /\ Current.op = op /\ Done /\ memory' = memory \cup {what}
      /\ UNCHANGED <<handle, options, video_started, g_running, fileVars>>
  BY DEF Allocate, At, Current
<1>2. UNCHANGED <<bytes_written, buffered, written, header, patch, failed>>
  BY <1>1 DEF fileVars
<1>3. SetupInv /\ op \in SetupOps /\ op # "wait"
  BY <1>1, Phase DEF SetupOps
<1>4. Current \in Pending /\ InOrder'
  BY <1>1, CurrentIs, DoneIs
<1>5. /\ \A h \in Handles : (Alive(h)' <=> Alive(h)) /\ UserData(h)' = UserData(h) /\ handle'[h] = handle[h]
      /\ Recording' <=> Recording
  BY <1>1 DEF Alive, UserData, Recording
<1>6. what \in (IF Recording THEN {"file"} ELSE {"ring", "ctxs"})
  <2> HIDE DEF Current
  <2> QED BY <1>1, <1>3, <1>4 DEF SetupInv
<1>7. \A h \in Handles : Current = Allocation(h) => UserData(h) = what
  <2>1. \A h \in Handles : Current = Allocation(h) => op = Allocation(h).op
    BY <1>1
  <2> HIDE DEF Current
  <2> QED BY <2>1, CallEq DEF Allocation, UserData
<1>8. SetupInv'
  <2>1. \A h \in Handles : UserData(h) \in memory \/ Current = Allocation(h) => UserData(h) \in memory'
    BY <1>1, <1>7
  <2>2. \A h \in Handles : Current # Call("started", h)
    BY <1>1, CallEq
  <2> HIDE DEF Current
  <2> QED BY <1>1, <1>2, <1>3, <1>5, <2>1, <2>2, SetupMoves
<1>9. HandlesInv' /\ MemoryInv' /\ CountInv'
  <2>1. HandlesInv'
    BY <1>1, <1>5 DEF IInv, HandlesInv
  <2>2. MemoryInv'
    BY <1>1, <1>5, <1>6 DEF IInv, MemoryInv
  <2> QED BY <1>2, <2>1, <2>2 DEF IInv, CountInv
<1>10. TypeOK'
  <2>1. handle' \in [Handles -> HandleType] /\ memory' \subseteq {"file", "ring", "ctxs"}
        /\ video_started' \in 0..MaxVideos
    BY <1>1 DEF IInv, TypeOK, HandleType
  <2> QED BY <1>1, <1>2, <1>4, <2>1, Typed
<1> QED BY <1>4, <1>8, <1>9, <1>10 DEF IInv

LEMMA ReleaseStep ==
  ASSUME IInv, NEW op, NEW what,
         <<op, what>> \in {<<"close", "file">>, <<"free_ring", "ring">>, <<"free_ctxs", "ctxs">>},
         ~ Ended, Current.op = op, Done, memory' = memory \ {what},
         UNCHANGED <<handle, options, video_started, g_running>>,
         FileType', CountInv', Tells => Tells', Written => Written', op = "close" => Written'
  PROVE  IInv'
<1>1. /\ ~ Ended /\ Current.op = op /\ Done /\ memory' = memory \ {what}
      /\ UNCHANGED <<handle, options, video_started, g_running>>
  OBVIOUS
<1>3. CleanupInv
  BY <1>1, Phase DEF CleanupOps
<1>4. Current \in Pending /\ InOrder' /\ Pending' = Pending \ {Current}
      /\ \A c \in Pending' : Rank(Current) < Rank(c)
  BY <1>1, CurrentIs, DoneIs
<1>5. /\ \A h \in Handles : (Alive(h)' <=> Alive(h)) /\ UserData(h)' = UserData(h) /\ handle'[h] = handle[h]
      /\ Recording' <=> Recording
  BY <1>1 DEF Alive, UserData, Recording
<1>6. Current = Call(op, 0)
  BY <1>1, <1>4, CallsFit
<1>7. ASSUME NEW h \in Handles, Alive(h) PROVE UserData(h) # what
  <2>1. SUFFICES ASSUME UserData(h) = what PROVE FALSE
    OBVIOUS
  <2>2. Call("destroy", h) \in Pending'
    BY <1>3, <1>4, <1>6, <1>7, CallEq DEF CleanupInv
  <2>3. Rank(Call(op, 0)) < Rank(Call("destroy", h))
    BY <1>4, <1>6, <2>2
  <2>4. MaxVideos \in Nat /\ h \in Nat /\ h <= 2 + MaxVideos
    BY HandlesAre, ClientsAssumption
  <2>5. Recording => h = Capture
    BY <1>7 DEF IInv, HandlesInv
  <2>6. CASE what = "file"
    <3>1. h = Capture /\ op = "close"
      BY <2>1, <2>5, <2>6 DEF UserData
    <3> QED BY <2>3, <2>4, <3>1, FixedRanks, CaptureRanks
  <2>7. CASE what = "ring"
    <3>1. (h = Capture \/ h = Playback) /\ op = "free_ring"
      BY <2>1, <2>7 DEF UserData
    <3> QED BY <2>3, <2>4, <3>1, FixedRanks, CaptureRanks, PlaybackRanks
  <2>8. CASE what = "ctxs"
    <3>1. h > Playback /\ op = "free_ctxs"
      BY <2>1, <2>8, HandlesAre DEF UserData
    <3> QED BY <2>3, <2>4, <3>1, FixedRanks, VideoRanks
  <2> QED BY <2>6, <2>7, <2>8
<1>8. CleanupInv'
  <2>1. \A w \in memory' : w \in memory /\ Current # Freeing(w)
    <3>1. memory \subseteq {"file", "ring", "ctxs"}
      BY DEF IInv, TypeOK
    <3>2. \A w \in {"file", "ring", "ctxs"} : w # what => Freeing(w) # Call(op, 0)
      BY CallEq DEF Freeing
    <3> QED BY <1>1, <1>6, <3>1, <3>2
  <2>2. \A h \in Handles : Current # Call("destroy", h)
    BY <1>6, CallEq
  <2>3. Current # Call("patch", 0)
    BY <1>6, CallEq
  <2>4. Quiet' <=> Quiet
    BY <1>5 DEF Quiet
  <2>5. Current = Call("close", 0) => Quiet' /\ Written'
    <3>1. SUFFICES ASSUME op = "close" PROVE Quiet'
      BY <1>6, CallEq
    <3>2. what = "file" /\ Current # Call("free_ring", 0) /\ Current # Call("free_ctxs", 0)
      BY <1>6, <3>1, CallEq
    <3>3. ASSUME NEW h \in Handles, Alive(h) PROVE FALSE
      <4>1. UserData(h) \in memory /\ UserData(h) # "file" /\ Call("destroy", h) \in Pending'
        BY <1>3, <1>4, <1>6, <1>7, <3>2, <3>3, CallEq DEF IInv, HandlesInv, CleanupInv
      <4>2. Rank(Call("close", 0)) < Rank(Call("destroy", h))
        BY <1>4, <1>6, <3>1, <4>1
      <4>3. MaxVideos \in Nat /\ h \in Nat /\ h <= 2 + MaxVideos
        BY HandlesAre, ClientsAssumption
      <4>4. CASE h = Capture
        BY <4>2, <4>3, <4>4, FixedRanks, CaptureRanks
      <4>5. CASE h = Playback
        BY <4>2, <4>3, <4>5, FixedRanks, PlaybackRanks
      <4>6. CASE h > Playback
        BY <4>2, <4>3, <4>6, FixedRanks, VideoRanks
      <4> QED BY <4>4, <4>5, <4>6, HandlesAre
    <3> QED BY <1>5, <3>3 DEF Quiet, IInv, HandlesInv
  <2> HIDE DEF Current
  <2> QED BY <1>1, <1>3, <1>5, <2>1, <2>2, <2>3, <2>4, <2>5, CleanupMoves
<1>9. HandlesInv' /\ MemoryInv' /\ CountInv'
  <2>1. HandlesInv'
    BY <1>1, <1>5, <1>7 DEF IInv, HandlesInv
  <2>2. MemoryInv'
    BY <1>1, <1>5 DEF IInv, MemoryInv
  <2> QED BY <2>1, <2>2
<1>10. TypeOK'
  <2>1. handle' \in [Handles -> HandleType] /\ memory' \subseteq {"file", "ring", "ctxs"}
        /\ video_started' \in 0..MaxVideos
    BY <1>1 DEF IInv, TypeOK, HandleType
  <2> QED BY <1>1, <1>4, <2>1, Typed
<1> QED BY <1>4, <1>8, <1>9, <1>10 DEF IInv

LEMMA FreeStep ==
  ASSUME IInv, Release("free_ring", "ring") \/ Release("free_ctxs", "ctxs")
  PROVE  IInv'
<1>1. PICK op, what :
        /\ <<op, what>> \in {<<"free_ring", "ring">>, <<"free_ctxs", "ctxs">>}
        /\ Release(op, what)
  OBVIOUS
<1>2. /\ ~ Ended /\ Current.op = op /\ Done /\ memory' = memory \ {what}
      /\ UNCHANGED <<handle, options, video_started, g_running>>
      /\ UNCHANGED <<bytes_written, buffered, written, header, patch, failed>>
  BY <1>1 DEF Release, At, Current, fileVars
<1>3. FileType' /\ CountInv'
  BY <1>2 DEF IInv, TypeOK, FileType, CountInv
<1>4. (Tells => Tells') /\ (Written => Written')
  BY <1>2 DEF Tells, Written
<1>5. op # "close"
  BY <1>1
<1> HIDE DEF Current
<1> QED BY <1>1, <1>2, <1>3, <1>4, <1>5, ReleaseStep

\* What stdio does with what it has
LEMMA StdioIs ==
  ASSUME NEW all \in Nat, NEW ok \in BOOLEAN, Stdio(all, ok), written \in Nat, failed \in BOOLEAN
  PROVE  /\ written' \in Nat /\ buffered' \in Nat /\ failed' \in BOOLEAN
         /\ ~ failed' => ok /\ ~ failed /\ written' + buffered' = written + all
<1>1. PICK out, left \in 0..all :
        /\ ok => out + left = all
        /\ written' = written + out
        /\ buffered' = left
  BY DEF Stdio
<1>2. failed' = (failed \/ ~ ok)
  BY DEF Stdio
<1>3. failed' \in BOOLEAN /\ (~ failed' => ok /\ ~ failed)
  BY <1>2
<1>4. written' \in Nat /\ buffered' \in Nat
  BY <1>1
<1>5. ok => written' + buffered' = written + all
  BY <1>1
<1> QED BY <1>3, <1>4, <1>5

LEMMA CloseStep ==
  ASSUME IInv, Close
  PROVE  IInv'
<1>1. PICK ok \in BOOLEAN :
        /\ Stdio(buffered, ok)
        /\ header' = IF ok /\ patch.at = "start" THEN patch.header ELSE header
  BY DEF Close
<1>2. /\ ~ Ended /\ Current.op = "close" /\ Done /\ memory' = memory \ {"file"} /\ buffered' = 0
      /\ UNCHANGED <<handle, options, video_started, g_running, bytes_written, patch>>
  BY DEF Close, At, Current
<1>3. FileType /\ CountInv
  BY DEF IInv, TypeOK, FileType
<1>4. /\ written' \in Nat /\ failed' \in BOOLEAN
      /\ ~ failed' => ok /\ ~ failed /\ written' + buffered' = written + buffered
  BY <1>1, <1>3, StdioIs DEF FileType
<1>5. FileType'
  BY <1>1, <1>2, <1>3, <1>4 DEF FileType
<1>6. CountInv'
  BY <1>2, <1>3, <1>4 DEF CountInv
<1>7. Tells => Tells'
  <2>1. SUFFICES ASSUME Tells, ~ failed', options'.output = "file"
                 PROVE  /\ patch'.at # "end"
                        /\ Fits(IF patch'.at = "start" THEN patch'.header ELSE header', written' + buffered')
    BY DEF Tells
  <2>2. patch.at # "end" /\ Fits(IF patch.at = "start" THEN patch.header ELSE header, written + buffered)
    BY <1>2, <1>4, <2>1 DEF Tells
  <2>3. (IF patch'.at = "start" THEN patch'.header ELSE header')
          = (IF patch.at = "start" THEN patch.header ELSE header)
    BY <1>1, <1>2
  <2>4. written' + buffered' = written + buffered
    BY <1>4, <2>1
  <2> QED BY <1>2, <2>2, <2>3, <2>4
<1>8. Written'
  BY <1>1, <1>2, <1>4 DEF Written
<1> HIDE DEF Current
<1> QED BY <1>2, <1>5, <1>6, <1>7, <1>8, ReleaseStep

LEMMA SignalsStep ==
  ASSUME IInv, Signals
  PROVE  IInv'
<1>1. /\ ~ Ended /\ Current.op = "signals" /\ Done
      /\ UNCHANGED <<handle, options, memory, video_started, g_running, fileVars>>
  BY DEF Signals, At, Current
<1>2. UNCHANGED <<bytes_written, buffered, written, header, patch, failed>>
  BY <1>1 DEF fileVars
<1>3. SetupInv
  BY <1>1, Phase DEF SetupOps
<1>4. InOrder'
  BY <1>1, DoneIs
<1>5. /\ \A h \in Handles : (Alive(h)' <=> Alive(h)) /\ UserData(h)' = UserData(h) /\ handle'[h] = handle[h]
      /\ Recording' <=> Recording
  BY <1>1 DEF Alive, UserData, Recording
<1>6. SetupInv'
  <2>1. \A h \in Handles : Current # Allocation(h) /\ Current # Call("started", h)
    <3>1. \A h \in Handles : Allocation(h).op # "signals" /\ Call("started", h).op # "signals"
      BY CallEq DEF Allocation
    <3> QED BY <1>1, <3>1
  <2> HIDE DEF Current
  <2> QED BY <1>1, <1>2, <1>3, <1>5, <2>1, SetupMoves
<1>7. HandlesInv' /\ MemoryInv' /\ CountInv'
  BY <1>1, <1>2, <1>5 DEF IInv, HandlesInv, MemoryInv, CountInv
<1>8. TypeOK'
  <2>1. handle' \in [Handles -> HandleType] /\ memory' \subseteq {"file", "ring", "ctxs"}
        /\ video_started' \in 0..MaxVideos
    BY <1>1 DEF IInv, TypeOK, HandleType
  <2> QED BY <1>1, <1>2, <1>4, <2>1, Typed
<1> QED BY <1>4, <1>6, <1>7, <1>8 DEF IInv

\* A call on a stream before the cleanup, with what becomes of the stream
LEMMA SetupCall ==
  ASSUME IInv, ~ Ended, Done, Current.op \in SetupOps, NEW h \in Handles, NEW s \in HandleType,
         Current = Call(Current.op, h), Is(h, s),
         UNCHANGED <<options, memory, g_running, bytes_written, buffered, written, header, patch, failed>>,
         video_started' \in 0..MaxVideos,
         Current.op # "started" => video_started' = video_started,
         Current.op = "started" =>
           video_started' = IF h > Playback THEN h - Playback ELSE video_started,
         s.st = "created", Current.op = "create" \/ Alive(h),
         s.active => handle[h].active \/ Current.op = "activate",
         s.delivering => handle[h].delivering, s.reporting => handle[h].reporting,
         Current.op \in {"create", "configure", "activate", "started"}
  PROVE  IInv'
<1>1. SetupInv /\ Current \in Pending /\ InOrder' /\ Pending' = Pending \ {Current}
      /\ \A c \in Pending' : Rank(Current) < Rank(c)
  BY Phase, CurrentIs, DoneIs
<1>2. /\ handle' \in [Handles -> HandleType] /\ handle'[h] = s /\ Alive(h)'
      /\ \A g \in Handles : g # h => handle'[g] = handle[g] /\ (Alive(g)' <=> Alive(g))
  BY OneHandle DEF IInv
<1>3. /\ \A g \in Handles : UserData(g)' = UserData(g)
      /\ Recording' <=> Recording
  BY DEF UserData, Recording
<1>4. \A g \in Handles, op \in STRING : Current = Call(op, g) => op = Current.op /\ g = h
  BY CallEq
<1> DEFINE op == Current.op
<1>5. MaxVideos \in Nat /\ h \in Nat /\ h <= 2 + MaxVideos
  BY HandlesAre, ClientsAssumption
<1>6. ASSUME op = "create" PROVE UserData(h) \in memory /\ (Recording => h = Capture)
  <2>1. Call("create", h) \in Pending
    BY <1>1, <1>6
  <2>2. UserData(h) \in memory
    <3>1. SUFFICES ASSUME Allocation(h) \in Pending PROVE FALSE
      BY <1>1, <2>1 DEF SetupInv
    <3>2. Allocation(h) \in Pending'
      <4>1. Allocation(h).op # "create"
        BY CallEq DEF Allocation
      <4> QED BY <1>1, <1>6, <3>1, <4>1
    <3>3. Rank(Call("create", h)) < Rank(Allocation(h))
      BY <1>1, <1>6, <3>2
    <3>4. Rank(Call("create", h)) >= 4 /\ (h > Playback => Rank(Call("create", h)) > 12)
      <4>1. CASE h = Capture
        BY <4>1, CaptureRanks DEF Capture, Playback
      <4>2. CASE h = Playback
        BY <4>2, PlaybackRanks DEF Playback
      <4>3. CASE h > Playback
        <5>1. h >= 3 /\ Rank(Call("create", h)) = 4 * h + 1
          BY <1>5, <4>3, VideoRanks DEF Playback
        <5> QED BY <1>5, <5>1
      <4> QED BY <4>1, <4>2, <4>3, HandlesAre
    <3>5. Rank(Allocation(h)) <= 3 \/ (h > Playback /\ Rank(Allocation(h)) = 12)
      BY HandlesAre, FixedRanks DEF Allocation
    <3>6. Rank(Call("create", h)) \in Nat /\ Rank(Allocation(h)) \in Nat
      BY <1>1, <2>1, <3>1, CurrentIs
    <3> QED BY <3>3, <3>4, <3>5, <3>6
  <2>3. Recording => h = Capture
    <3>1. Recording => Current.h \in {0, Capture}
      BY <1>1 DEF SetupInv
    <3>2. Current.h = h
      BY CallEq
    <3> QED BY <3>1, <3>2, HandlesAre
  <2> QED BY <2>2, <2>3
<1>7. UserData(h) \in memory /\ (Recording => h = Capture)
  BY <1>6 DEF IInv, HandlesInv
<1>8. SetupInv'
  <2>1. \A g \in Handles : Current # Allocation(g)
    <3>1. \A g \in Handles : Allocation(g).op \in {"open", "ring", "ctxs"}
      BY CallEq DEF Allocation
    <3> QED BY <3>1
  <2>2. ASSUME NEW g \in Handles, Alive(g), g > Playback,
               Current = Call("started", g) \/ g - Playback <= video_started
        PROVE  g - Playback <= video_started'
    <3>1. CASE op = "started" /\ h > Playback
      <4>1. video_started' = h - Playback
        BY <3>1
      <4>2. Rank(Call("create", g)) < Rank(Current)
        BY <1>1, <2>2 DEF SetupInv
      <4>3. g \in Nat /\ h \in Nat
        BY HandlesAre
      <4>4. Rank(Call("create", g)) = 4 * g + 1 /\ Rank(Call("started", h)) = 4 * h + 4
        BY <2>2, <3>1, <4>3, VideoRanks
      <4>5. Current = Call("started", h)
        BY <3>1
      <4> HIDE DEF Current
      <4>6. g <= h
        BY <4>2, <4>3, <4>4, <4>5
      <4> QED BY <4>1, <4>3, <4>6 DEF Playback
    <3>2. CASE ~ (op = "started" /\ h > Playback)
      <4>1. video_started' = video_started
        BY <3>2
      <4>2. Current # Call("started", g)
        BY <2>2, <3>2, CallEq
      <4> QED BY <2>2, <4>1, <4>2
    <3> QED BY <3>1, <3>2
  <2>3. \A g \in Handles : Alive(g)' => Alive(g) \/ Current = Call("create", g)
    <3>1. Alive(h) \/ Current = Call("create", h)
      OBVIOUS
    <3> HIDE DEF Current
    <3> QED BY <1>2, <3>1
  <2>4. \A g \in Handles : /\ handle'[g].active => handle[g].active \/ Current = Call("activate", g)
                           /\ handle'[g].delivering => handle[g].delivering
    <3>1. s.active => handle[h].active \/ Current = Call("activate", h)
      OBVIOUS
    <3> HIDE DEF Current
    <3> QED BY <1>2, <3>1
  <2>5. Current.op # "wait"
    OBVIOUS
  <2> HIDE DEF Current
  <2> QED BY <1>1, <2>1, <2>2, <2>3, <2>4, <2>5, SetupMoves
<1>9. HandlesInv' /\ MemoryInv' /\ CountInv'
  <2>1. ASSUME NEW g \in Handles
        PROVE  /\ handle'[g].active \/ handle'[g].delivering \/ handle'[g].reporting => Alive(g)'
               /\ Alive(g)' => UserData(g)' \in memory'
               /\ Alive(g)' /\ Recording' => g = Capture
    <3>1. CASE g = h
      BY <1>2, <1>3, <1>7, <3>1
    <3>2. CASE g # h
      BY <1>2, <1>3, <3>2 DEF IInv, HandlesInv
    <3> QED BY <3>1, <3>2
  <2> QED BY <1>3, <2>1 DEF IInv, HandlesInv, MemoryInv, CountInv
<1>10. TypeOK'
  <2>1. memory' \subseteq {"file", "ring", "ctxs"}
    BY DEF IInv, TypeOK
  <2> QED BY <1>1, <1>2, <2>1, Typed
<1> QED BY <1>1, <1>8, <1>9, <1>10 DEF IInv

\* And in the cleanup
LEMMA CleanupCall ==
  ASSUME IInv, ~ Ended, Done, NEW h \in Handles, NEW s \in HandleType,
         Current = Call(Current.op, h), Is(h, s), Current.op \in {"stopped", "destroy"},
         UNCHANGED <<options, memory, video_started, g_running,
                     bytes_written, buffered, written, header, patch, failed>>,
         Current.op = "stopped" => Alive(h) /\ s.st = "created",
         Current.op = "destroy" => s.st = "destroyed",
         s.active => handle[h].active /\ s.st = "created",
         s.delivering => handle[h].delivering /\ s.st = "created",
         s.reporting => handle[h].reporting /\ s.st = "created"
  PROVE  IInv'
<1>1. CleanupInv /\ Current \in Pending /\ InOrder'
  BY Phase, CurrentIs, DoneIs DEF CleanupOps
<1>2. /\ handle' \in [Handles -> HandleType] /\ handle'[h] = s /\ (Alive(h)' <=> s.st = "created")
      /\ \A g \in Handles : g # h => handle'[g] = handle[g] /\ (Alive(g)' <=> Alive(g))
  BY OneHandle DEF IInv
<1>3. /\ \A g \in Handles : UserData(g)' = UserData(g)
      /\ Recording' <=> Recording
  BY DEF UserData, Recording
<1>4. CleanupInv'
  <2>1. \A w \in memory : Current # Freeing(w)
    <3>1. \A w \in memory : Freeing(w).op \notin {"stopped", "destroy"}
      BY CallEq DEF Freeing
    <3> QED BY <3>1
  <2>2. Current # Call("patch", 0)
    BY CallEq
  <2>3. ASSUME NEW g \in Handles, Alive(g)' PROVE Alive(g) /\ Current # Call("destroy", g)
    <3>1. CASE g = h
      <4>1. Current.op = "stopped"
        BY <1>2, <2>3, <3>1
      <4> QED BY <3>1, <4>1, CallEq
    <3>2. CASE g # h
      <4>1. Current # Call(Current.op, g)
        BY <3>2, CallEq
      <4>2. Current # Call("destroy", g)
        BY <4>1, CallEq
      <4> QED BY <1>2, <2>3, <3>2, <4>2
    <3> QED BY <3>1, <3>2
  <2>4. (Quiet => Quiet') /\ (Tells => Tells') /\ (Written => Written')
    BY <1>2 DEF Quiet, Tells, Written
  <2>5. Current # Call("close", 0)
    BY CallEq
  <2> HIDE DEF Current
  <2> QED BY <1>1, <2>1, <2>2, <2>3, <2>4, <2>5, CleanupMoves
<1>5. HandlesInv' /\ MemoryInv' /\ CountInv'
  <2>1. ASSUME NEW g \in Handles
        PROVE  /\ handle'[g].active \/ handle'[g].delivering \/ handle'[g].reporting => Alive(g)'
               /\ Alive(g)' => UserData(g)' \in memory'
               /\ Alive(g)' /\ Recording' => g = Capture
    <3>1. CASE g = h
      <4>1. s.st = "created" => Alive(h)
        OBVIOUS
      <4> QED BY <1>2, <1>3, <3>1, <4>1 DEF IInv, HandlesInv
    <3>2. CASE g # h
      BY <1>2, <1>3, <3>2 DEF IInv, HandlesInv
    <3> QED BY <3>1, <3>2
  <2> QED BY <1>3, <2>1 DEF IInv, HandlesInv, MemoryInv, CountInv
<1>6. TypeOK'
  <2>1. memory' \subseteq {"file", "ring", "ctxs"} /\ video_started' \in 0..MaxVideos
    BY DEF IInv, TypeOK
  <2> QED BY <1>1, <1>2, <2>1, Typed
<1> QED BY <1>1, <1>4, <1>5, <1>6 DEF IInv

LEMMA OnStreamStep ==
  ASSUME IInv, OnStream
  PROVE  IInv'
<1>1. /\ ~ Ended /\ Done
      /\ UNCHANGED <<options, memory, video_started, g_running, fileVars>>
      /\ Current.op \in {"create", "configure", "activate", "stopped", "destroy"}
  BY DEF OnStream, At, Current
<1>2. UNCHANGED <<options, memory, video_started, g_running, bytes_written, buffered, written, header, patch, failed>>
  BY <1>1 DEF fileVars
<1>3. Now \in Handles /\ Current = Call(Current.op, Now)
  BY <1>1, CurrentIs, CallsFit DEF Now, Current
<1> DEFINE h == Now  r == handle[Now]
<1>4. r \in HandleType
  BY <1>3, Handle DEF IInv
<1>5. video_started \in 0..MaxVideos
  BY DEF IInv, TypeOK
<1>6. CASE Current.op = "create"
  <2>1. Create(h)
    BY <1>6 DEF OnStream, At, Current
  <2>2. Is(h, Created) /\ Created \in HandleType /\ Created.st = "created"
        /\ ~ Created.active /\ ~ Created.delivering /\ ~ Created.reporting
    BY <2>1 DEF Create, Created, Absent, HandleType
  <2> HIDE DEF Current, h, r
  <2>3. h \in Handles /\ Current = Call(Current.op, h)
    BY <1>3 DEF h
  <2> QED BY <1>1, <1>2, <1>5, <1>6, <2>2, <2>3, SetupCall DEF SetupOps
<1>7. CASE Current.op = "configure"
  <2>1. Configured(h)
    BY <1>7 DEF OnStream, At, Current
  <2> DEFINE s == [handle[h] EXCEPT !.set = TRUE, !.running = FALSE]
  <2>2. Alive(h) /\ Is(h, s) /\ s \in HandleType /\ s.st = "created" /\ s.active = handle[h].active
        /\ s.delivering = handle[h].delivering /\ s.reporting = handle[h].reporting
    BY <1>4, <2>1 DEF Configured, Alive, HandleType
  <2>3. h \in Handles /\ Current = Call(Current.op, h)
    BY <1>3
  <2> HIDE DEF Current, h, r, s
  <2> QED BY <1>1, <1>2, <1>5, <1>7, <2>2, <2>3, SetupCall DEF SetupOps
<1>8. CASE Current.op = "activate"
  <2>1. Activate(h)
    BY <1>8 DEF OnStream, At, Current
  <2> DEFINE s == [handle[h] EXCEPT !.active = TRUE]
  <2>2. Alive(h) /\ Is(h, s) /\ s \in HandleType /\ s.st = "created"
        /\ s.delivering = handle[h].delivering /\ s.reporting = handle[h].reporting
    BY <1>4, <2>1 DEF Activate, Alive, HandleType
  <2>3. h \in Handles /\ Current = Call(Current.op, h)
    BY <1>3
  <2> HIDE DEF Current, h, r, s
  <2> QED BY <1>1, <1>2, <1>5, <1>8, <2>2, <2>3, SetupCall DEF SetupOps
<1>9. CASE Current.op = "stopped"
  <2>1. Stopped(h)
    BY <1>9 DEF OnStream, At, Current
  <2> DEFINE s == [handle[h] EXCEPT !.running = FALSE]
  <2>2. Alive(h) /\ Is(h, s) /\ s \in HandleType /\ s.st = "created" /\ s.active = handle[h].active
        /\ s.delivering = handle[h].delivering /\ s.reporting = handle[h].reporting
    BY <1>4, <2>1 DEF Stopped, Alive, HandleType
  <2>3. h \in Handles /\ Current = Call(Current.op, h)
    BY <1>3
  <2> HIDE DEF Current, h, r, s
  <2> QED BY <1>1, <1>2, <1>9, <2>2, <2>3, CleanupCall
<1>10. CASE Current.op = "destroy"
  <2>1. Destroy(h)
    BY <1>10 DEF OnStream, At, Current
  <2> DEFINE s == [handle[h] EXCEPT !.st = "destroyed", !.running = FALSE, !.active = FALSE]
  <2>2. Is(h, s) /\ s \in HandleType /\ s.st = "destroyed" /\ ~ s.active
        /\ ~ s.delivering /\ ~ s.reporting
    BY <1>4, <2>1 DEF Destroy, HandleType
  <2>3. h \in Handles /\ Current = Call(Current.op, h)
    BY <1>3
  <2> HIDE DEF Current, h, r, s
  <2> QED BY <1>1, <1>2, <1>10, <2>2, <2>3, CleanupCall
<1> QED BY <1>1, <1>6, <1>7, <1>8, <1>9, <1>10

LEMMA StartReturnStep ==
  ASSUME IInv, StartReturn
  PROVE  IInv'
<1>1. /\ ~ Ended /\ Done /\ Current.op = "started" /\ Started(Now)
      /\ UNCHANGED <<options, memory, g_running, fileVars>>
      /\ video_started' = IF Now > Playback THEN Now - Playback ELSE video_started
  BY DEF StartReturn, At, Current
<1>2. UNCHANGED <<options, memory, g_running, bytes_written, buffered, written, header, patch, failed>>
  BY <1>1 DEF fileVars
<1>3. Now \in Handles /\ Current = Call(Current.op, Now)
  BY <1>1, CurrentIs, CallsFit DEF Now, Current
<1> DEFINE h == Now  s == [handle[h] EXCEPT !.running = TRUE]
<1>4. handle[h] \in HandleType
  BY <1>3, Handle DEF IInv
<1>5. Alive(h) /\ Is(h, s) /\ s \in HandleType /\ s.st = "created" /\ s.active = handle[h].active
        /\ s.delivering = handle[h].delivering /\ s.reporting = handle[h].reporting
  BY <1>1, <1>4 DEF Started, Alive, HandleType
<1>6. h \in Handles /\ Current = Call(Current.op, h)
      /\ video_started' = IF h > Playback THEN h - Playback ELSE video_started
  BY <1>1, <1>3
<1> HIDE DEF Current, h, s
<1>7. video_started' \in 0..MaxVideos
  BY <1>6, HandlesAre, ClientsAssumption DEF IInv, TypeOK, Playback
<1> QED BY <1>1, <1>2, <1>5, <1>6, <1>7, SetupCall DEF SetupOps

\* A list that goes on with a call of the rank of the one it replaces
LEMMA ReplaceHead ==
  ASSUME NEW s, NEW b \in Nat, Spans(s, 0, b), s # <<>>, NEW c \in CallType, Rank(c) = Rank(Head(s))
  PROVE  /\ Spans(<<c>> \o Tail(s), 0, b)
         /\ Members(<<c>> \o Tail(s)) = {c} \cup (Members(s) \ {Head(s)})
<1>1. /\ Spans(Tail(s), 0, b) /\ Head(s) \in CallType /\ Head(s) \in Members(s)
      /\ Members(Tail(s)) = Members(s) \ {Head(s)}
      /\ \A d \in Members(Tail(s)) : Rank(Head(s)) < Rank(d)
  BY TailSpans
<1>2. Rank(c) \in Nat /\ 0 < Rank(c) /\ Rank(c) <= b
  <2>1. PICK i \in 1..Len(s) : Head(s) = s[i]
    BY <1>1 DEF Members
  <2> QED BY <2>1, RankType DEF Spans
<1>3. Spans(Tail(s), Rank(c), b)
  <2>1. \A i \in 1..Len(Tail(s)) : Tail(s)[i] \in Members(Tail(s))
    BY DEF Members
  <2> QED BY <1>1, <2>1 DEF Spans
<1>4. Spans(<<c>>, 0, Rank(c)) /\ Members(<<c>>) = {c}
  BY <1>2, SpansOne
<1> QED BY <1>1, <1>2, <1>3, <1>4, JoinSpans

LEMMA StopStep ==
  ASSUME IInv, Stop
  PROVE  IInv'
<1>1. /\ ~ Ended /\ Current.op = "stop"
      /\ UNCHANGED <<options, memory, video_started, g_running, fileVars>>
  BY DEF Stop, At, Current
<1>2. UNCHANGED <<options, memory, video_started, g_running, bytes_written, buffered, written, header, patch, failed>>
  BY <1>1 DEF fileVars
<1>3. Current \in Pending /\ Now \in Handles /\ Current = Call("stop", Now)
  BY <1>1, CurrentIs, CallsFit DEF Now, Current
<1>4. CleanupInv
  BY <1>1, Phase DEF CleanupOps
<1>5. /\ \A g \in Handles : UserData(g)' = UserData(g)
      /\ (Recording' <=> Recording) /\ Format(options)' = Format(options)
  BY <1>1 DEF UserData, Recording, Format
<1>6. memory' \subseteq {"file", "ring", "ctxs"} /\ video_started' \in 0..MaxVideos
  BY <1>2 DEF IInv, TypeOK
<1>7. CASE ~ handle[Now].running
  <2>1. Done /\ handle' = handle
    BY <1>7 DEF Stop
  <2>2. InOrder'
    BY <1>1, <2>1, DoneIs
  <2>3. \A g \in Handles : (Alive(g)' <=> Alive(g)) /\ handle'[g] = handle[g]
    BY <2>1 DEF Alive
  <2>4. CleanupInv'
    <3>1. \A w \in memory : Current # Freeing(w)
      BY <1>3, CallEq DEF Freeing
    <3>2. Current # Call("patch", 0) /\ Current # Call("close", 0)
          /\ \A g \in Handles : Current # Call("destroy", g)
      BY <1>3, CallEq
    <3>3. (Quiet => Quiet') /\ (Tells => Tells') /\ (Written => Written')
      BY <1>2, <2>1 DEF Quiet, Tells, Written
    <3> HIDE DEF Current
    <3> QED BY <1>1, <1>2, <1>4, <2>1, <2>3, <3>1, <3>2, <3>3, CleanupMoves
  <2>5. HandlesInv' /\ MemoryInv' /\ CountInv'
    BY <1>2, <1>5, <2>3 DEF IInv, HandlesInv, MemoryInv, CountInv
  <2>6. handle' \in [Handles -> HandleType]
    BY <2>1 DEF IInv, TypeOK, HandleType
  <2>7. TypeOK'
    BY <1>2, <1>6, <2>2, <2>6, Typed
  <2> QED BY <2>2, <2>4, <2>5, <2>7 DEF IInv
<1>8. CASE handle[Now].running
  <2>0. PICK h \in Handles : h = Now
    BY <1>3
  <2> DEFINE s == [handle[h] EXCEPT !.active = FALSE]  c == Call("stopped", h)
  <2>1. todo' = <<c>> \o Tail(todo) /\ Pause(h)
    BY <1>8, <2>0 DEF Stop
  <2>2. h \in Handles
    OBVIOUS
  <2>3. handle[h] \in HandleType
    BY <2>2, Handle DEF IInv
  <2>4. Alive(h) /\ Is(h, s) /\ s \in HandleType /\ s.st = "created" /\ ~ s.active
          /\ s.delivering = handle[h].delivering /\ s.reporting = handle[h].reporting
    BY <2>1, <2>3 DEF Pause, Alive, HandleType
  <2>5. Current = Call("stop", h)
    BY <1>3, <2>0
  <2> HIDE DEF s, Current
  <2>6. /\ handle' \in [Handles -> HandleType] /\ handle'[h] = s /\ Alive(h)'
        /\ \A g \in Handles : g # h => handle'[g] = handle[g] /\ (Alive(g)' <=> Alive(g))
    BY <2>2, <2>4, OneHandle DEF IInv
  <2>7. c \in CallType /\ Rank(c) = Rank(Current)
    <3>1. c \in CallType
      BY <2>2 DEF CallType, Call, Ops
    <3> QED BY <2>2, <2>5, <3>1, HandlesAre, CaptureRanks, PlaybackRanks, VideoRanks
  <2>8. InOrder' /\ Pending' = {c} \cup (Pending \ {Current})
    <3>1. Spans(todo, 0, LastRank) /\ todo # <<>> /\ LastRank \in Nat
      BY <1>1, ClientsAssumption DEF IInv, InOrder, Ended, LastRank
    <3>2. Spans(<<c>> \o Tail(todo), 0, LastRank)
          /\ Members(<<c>> \o Tail(todo)) = {c} \cup (Members(todo) \ {Head(todo)})
      <4> HIDE DEF c
      <4> QED BY <2>7, <3>1, ReplaceHead DEF Current
    <3> QED BY <2>1, <3>2 DEF InOrder, Pending, Current
  <2>9. CleanupInv'
    <3>1. \A x \in Pending' : x.op \in CleanupOps
      BY <1>4, <2>8, CallEq DEF CleanupInv, CleanupOps
    <3>2. \A g \in Handles : Alive(g)' => Call("destroy", g) \in Pending'
      <4>1. \A g \in Handles : Alive(g)' => Call("destroy", g) \in Pending
        BY <1>4, <2>4, <2>6 DEF CleanupInv
      <4>2. \A g \in Handles : Call("destroy", g) # Current
        BY <2>5, CallEq
      <4> QED BY <2>8, <4>1, <4>2
    <3>3. \A w \in memory' : Freeing(w) \in Pending'
      <4>1. \A w \in memory : Freeing(w) # Current
        BY <2>5, CallEq DEF Freeing
      <4> QED BY <1>2, <1>4, <2>8, <4>1 DEF CleanupInv
    <3>4. Recording' /\ Format(options)' = "wav" => Call("patch", 0) \in Pending' \/ (Quiet' /\ Tells')
      <4>1. Call("patch", 0) # Current
        BY <2>5, CallEq
      <4>2. Quiet /\ Tells => Quiet' /\ Tells'
        BY <1>2, <2>4, <2>6 DEF Quiet, Tells
      <4> QED BY <1>4, <1>5, <2>8, <4>1, <4>2 DEF CleanupInv
    <3>5. /\ Recording' => Call("close", 0) \in Pending' \/ (Quiet' /\ Written')
          /\ Call("patch", 0) \in Pending' => Call("close", 0) \in Pending'
      <4>1. Call("patch", 0) # Current /\ Call("close", 0) # Current /\ Call("patch", 0) # c
        BY <2>5, CallEq
      <4>2. Quiet /\ Written => Quiet' /\ Written'
        BY <1>2, <2>4, <2>6 DEF Quiet, Written
      <4> HIDE DEF c
      <4> QED BY <1>4, <1>5, <2>8, <4>1, <4>2 DEF CleanupInv
    <3> QED BY <3>1, <3>2, <3>3, <3>4, <3>5 DEF CleanupInv
  <2>10. HandlesInv' /\ MemoryInv' /\ CountInv'
    <3>1. ASSUME NEW g \in Handles
          PROVE  /\ handle'[g].active \/ handle'[g].delivering \/ handle'[g].reporting => Alive(g)'
                 /\ Alive(g)' => UserData(g)' \in memory'
                 /\ Alive(g)' /\ Recording' => g = Capture
      <4>1. CASE g = h
        BY <1>2, <1>5, <2>2, <2>4, <2>6, <4>1 DEF IInv, HandlesInv
      <4>2. CASE g # h
        BY <1>2, <1>5, <2>6, <4>2 DEF IInv, HandlesInv
      <4> QED BY <4>1, <4>2
    <3> QED BY <1>2, <1>5, <3>1 DEF IInv, HandlesInv, MemoryInv, CountInv
  <2>11. TypeOK'
    BY <1>2, <1>6, <2>6, <2>8, Typed
  <2> QED BY <2>8, <2>9, <2>10, <2>11 DEF IInv
<1> QED BY <1>7, <1>8

\* The header with a count that is right unless the size does not fit
LEMMA HeaderIs ==
  ASSUME NEW b \in Nat, NEW size \in Nat, size < Width => b = size
  PROVE  Header(b) \in [riff : Nat, data : Nat] /\ Fits(Header(b), size)
<1>1. HeaderSize \in Nat /\ Width \in Nat /\ Width > 0
  BY ClientsAssumption
<1>2. /\ (HeaderSize + b) % Width \in Nat /\ b % Width \in Nat
      /\ HeaderSize + b < Width => (HeaderSize + b) % Width = HeaderSize + b
      /\ b < Width => b % Width = b
  <2> DEFINE c == HeaderSize + b
  <2>1. c \in Nat
    BY <1>1
  <2> HIDE DEF c
  <2>2. c % Width \in Nat /\ b % Width \in Nat /\ (c < Width => c % Width = c) /\ (b < Width => b % Width = b)
    BY <1>1, <2>1
  <2> QED BY <2>2 DEF c
<1>3. size < Width => b % Width = size
  BY <1>2
<1>4. size + HeaderSize < Width => (HeaderSize + b) % Width = size + HeaderSize
  BY <1>1, <1>2
<1> QED BY <1>2, <1>3, <1>4 DEF Header, Fits

LEMMA PatchStep ==
  ASSUME IInv, Patch
  PROVE  IInv'
<1>0. PICK ok \in BOOLEAN :
        /\ Stdio(buffered, ok)
        /\ ok => buffered' = 0
        /\ patch' = [at |-> IF ok /\ options.output = "file" THEN "start" ELSE "end",
                     header |-> Header(bytes_written)]
  BY DEF Patch
<1>1. /\ ~ Ended /\ Current.op = "patch" /\ Done
      /\ UNCHANGED <<handle, options, memory, video_started, g_running, bytes_written, header>>
  BY DEF Patch, At, Current
<1>a. FileType /\ CountInv
  BY DEF IInv, TypeOK, FileType
<1>b. /\ written' \in Nat /\ buffered' \in Nat /\ failed' \in BOOLEAN
      /\ ~ failed' => ok /\ ~ failed /\ written' + buffered' = written + buffered
  BY <1>0, <1>a, StdioIs DEF FileType
<1>c. FileType' /\ CountInv'
  <2>1. patch' \in [at : {"none", "start", "end"}, header : [riff : Nat, data : Nat]]
    BY <1>0, <1>a, HeaderIs DEF FileType
  <2>2. FileType'
    BY <1>1, <1>a, <1>b, <2>1 DEF FileType
  <2>3. CountInv'
    BY <1>1, <1>a, <1>b DEF CountInv
  <2> QED BY <2>2, <2>3
<1>2. CleanupInv
  BY <1>1, Phase DEF CleanupOps
<1>3. Current \in Pending /\ InOrder' /\ Pending' = Pending \ {Current}
      /\ \A c \in Pending' : Rank(Current) < Rank(c)
  BY <1>1, CurrentIs, DoneIs
<1>4. /\ \A h \in Handles : (Alive(h)' <=> Alive(h)) /\ UserData(h)' = UserData(h) /\ handle'[h] = handle[h]
      /\ Recording' <=> Recording
  BY <1>1 DEF Alive, UserData, Recording
<1>5. Current = Call("patch", 0)
  BY <1>1, <1>3, CallsFit
<1>6. ASSUME NEW h \in Handles PROVE ~ Alive(h)
  <2>1. SUFFICES ASSUME Alive(h) PROVE FALSE
    OBVIOUS
  <2>2. Call("destroy", h) \in Pending'
    BY <1>2, <1>3, <1>5, <2>1, CallEq DEF CleanupInv
  <2>3. Rank(Call("patch", 0)) < Rank(Call("destroy", h))
    BY <1>3, <1>5, <2>2
  <2>4. MaxVideos \in Nat /\ h \in Nat /\ h <= 2 + MaxVideos
    BY HandlesAre, ClientsAssumption
  <2>5. CASE h = Capture
    BY <2>3, <2>4, <2>5, FixedRanks, CaptureRanks
  <2>6. CASE h = Playback
    BY <2>3, <2>4, <2>6, FixedRanks, PlaybackRanks
  <2>7. CASE h > Playback
    BY <2>3, <2>4, <2>7, FixedRanks, VideoRanks
  <2> QED BY <2>5, <2>6, <2>7, HandlesAre
<1>7. Quiet' /\ Tells'
  <2>1. Quiet'
    BY <1>4, <1>6 DEF IInv, HandlesInv, Quiet
  <2>2. Tells'
    <3>1. SUFFICES ASSUME ~ failed', options'.output = "file"
                   PROVE  /\ patch'.at # "end"
                          /\ Fits(IF patch'.at = "start" THEN patch'.header ELSE header', written' + buffered')
      BY DEF Tells
    <3>2. ok /\ ~ failed /\ written' + buffered' = written + buffered
      BY <1>b, <3>1
    <3>3. patch'.at = "start" /\ patch'.header = Header(bytes_written)
      BY <1>0, <1>1, <3>1, <3>2
    <3>4. written + buffered < Width => bytes_written = written + buffered
      BY <1>a, <3>2 DEF CountInv
    <3>5. Fits(Header(bytes_written), written + buffered)
      BY <1>a, <3>4, HeaderIs DEF FileType
    <3> QED BY <3>2, <3>3, <3>5
  <2> QED BY <2>1, <2>2
<1>8. CleanupInv'
  <2>1. \A w \in memory : Current # Freeing(w)
    BY <1>5, CallEq DEF Freeing
  <2>2. Current # Call("close", 0)
    BY <1>5, CallEq
  <2> HIDE DEF Current
  <2> QED BY <1>1, <1>2, <1>4, <1>5, <1>6, <1>7, <2>1, <2>2, CleanupMoves
<1>9. HandlesInv' /\ MemoryInv' /\ CountInv'
  BY <1>1, <1>4, <1>c DEF IInv, HandlesInv, MemoryInv
<1>10. TypeOK'
  <2>1. handle' \in [Handles -> HandleType] /\ memory' \subseteq {"file", "ring", "ctxs"}
        /\ video_started' \in 0..MaxVideos
    BY <1>1 DEF IInv, TypeOK, HandleType
  <2> QED BY <1>1, <1>3, <1>c, <2>1, Typed
<1> QED BY <1>3, <1>8, <1>9, <1>10 DEF IInv

\* The calls that failed, or that end the wait, turn to what there is.
LEMMA ToCleanup ==
  ASSUME IInv, NEW n \in 0..MaxVideos,
         \A h \in Handles : Alive(h) /\ h > Playback => h - Playback <= n,
         todo' = Cleanup(n) \/ (Recording /\ todo' = Finish), video_started' \in 0..MaxVideos,
         UNCHANGED <<handle, options, memory, g_running, bytes_written, buffered, written, header, patch, failed>>,
         Recording /\ todo' = Cleanup(n) => Quiet /\ Tells /\ Written
  PROVE  IInv'
<1>1. /\ \A h \in Handles : (Alive(h)' <=> Alive(h)) /\ UserData(h)' = UserData(h) /\ handle'[h] = handle[h]
      /\ (Recording' <=> Recording) /\ Format(options)' = Format(options)
      /\ (Quiet' <=> Quiet) /\ (Tells' <=> Tells) /\ (Written' <=> Written)
  BY DEF Alive, UserData, Recording, Format, Quiet, Tells, Written
<1>2. ASSUME NEW h \in Handles, Alive(h) PROVE Recording => h = Capture
  BY <1>2 DEF IInv, HandlesInv
<1>3. memory \subseteq (IF Recording THEN {"file"} ELSE {"ring", "ctxs"})
  BY DEF IInv, MemoryInv
<1>4. InOrder' /\ CleanupInv'
  <2>1. CASE Recording /\ todo' = Finish
    <3> DEFINE F == {Call("stop", Capture), Call("destroy", Capture), Call("close", 0)}
               W == IF Format(options) = "wav" THEN {Call("patch", 0)} ELSE {}
    <3>1. InOrder' /\ Pending' = F \cup W
      <4>1. Spans(Finish, 0, LastRank) /\ Members(Finish) = F \cup W
        BY FinishIs
      <4> HIDE DEF F, W
      <4> QED BY <2>1, <4>1 DEF InOrder, Pending
    <3>2. \A c \in Pending' : c.op \in CleanupOps
      BY <3>1, CallEq DEF CleanupOps
    <3>3. \A h \in Handles : Alive(h) => Call("destroy", h) \in Pending'
      BY <1>2, <2>1, <3>1
    <3>4. \A w \in memory : Freeing(w) \in Pending'
      BY <1>3, <2>1, <3>1 DEF Freeing
    <3>5. Format(options) = "wav" => Call("patch", 0) \in Pending'
      BY <3>1
    <3>6. Call("close", 0) \in Pending'
      BY <3>1
    <3> HIDE DEF F, W
    <3> QED BY <1>1, <3>1, <3>2, <3>3, <3>4, <3>5, <3>6 DEF CleanupInv
  <2>2. CASE todo' = Cleanup(n)
    <3>1. InOrder' /\ Pending' = CleanupOf(n)
      <4>1. Spans(Cleanup(n), 0, LastRank) /\ Members(Cleanup(n)) = CleanupOf(n)
        BY CleanupIs
      <4> QED BY <2>2, <4>1 DEF InOrder, Pending
    <3>2. CASE Recording
      <4>1. \A c \in CleanupOf(n) : c.op \in CleanupOps
        BY <3>2, CallEq DEF CleanupOps, CleanupOf
      <4>2. \A h \in Handles : Alive(h) => Call("destroy", h) \in CleanupOf(n)
        BY <1>2, <3>2 DEF CleanupOf
      <4>3. \A w \in memory : Freeing(w) \in CleanupOf(n)
        BY <1>3, <3>2 DEF Freeing, CleanupOf
      <4>4. Call("patch", 0) \notin CleanupOf(n)
        BY <3>2, CallEq DEF CleanupOf
      <4> QED BY <1>1, <2>2, <3>1, <3>2, <4>1, <4>2, <4>3, <4>4 DEF CleanupInv
    <3>3. CASE ~ Recording
      <4>1. \A c \in CleanupOf(n) : c.op \in CleanupOps
        BY <3>3, CallEq DEF CleanupOps, CleanupOf
      <4>2. ASSUME NEW h \in Handles, Alive(h) PROVE Call("destroy", h) \in CleanupOf(n)
        <5>1. CASE h = Capture \/ h = Playback
          BY <3>3, <4>2, <5>1 DEF CleanupOf
        <5>2. CASE h > Playback
          <6>1. h \in 3..n + 2
            BY <4>2, <5>2, HandlesAre DEF Playback
          <6> QED BY <3>3, <6>1 DEF CleanupOf
        <5> QED BY <5>1, <5>2, HandlesAre
      <4>3. \A w \in memory : Freeing(w) \in CleanupOf(n)
        <5>1. "ring" \in memory => Freeing("ring") \in CleanupOf(n)
          BY <3>3 DEF Freeing, CleanupOf
        <5>2. "ctxs" \in memory => Freeing("ctxs") \in CleanupOf(n)
          BY <3>3 DEF Freeing, CleanupOf
        <5> QED BY <1>3, <3>3, <5>1, <5>2
      <4>4. Call("patch", 0) \notin CleanupOf(n)
        BY <3>3, CallEq DEF CleanupOf
      <4> QED BY <1>1, <3>1, <3>3, <4>1, <4>2, <4>3, <4>4 DEF CleanupInv
    <3> QED BY <3>2, <3>3
  <2> QED BY <2>1, <2>2
<1>5. HandlesInv' /\ MemoryInv' /\ CountInv'
  BY <1>1 DEF IInv, HandlesInv, MemoryInv, CountInv
<1>6. TypeOK'
  <2>1. handle' \in [Handles -> HandleType] /\ memory' \subseteq {"file", "ring", "ctxs"}
    BY DEF IInv, TypeOK, HandleType
  <2> QED BY <1>4, <2>1, Typed
<1> QED BY <1>4, <1>5, <1>6 DEF IInv

LEMMA FailStep ==
  ASSUME IInv, Fail
  PROVE  IInv'
<1> DEFINE n == IF Now > Playback THEN StartedAt(Current.op) ELSE video_started
<1>1. /\ ~ Ended /\ Current.op \in FailOps
      /\ video_started' = n /\ todo' = Cleanup(n)
      /\ UNCHANGED <<handle, options, memory, g_running, fileVars>>
  BY DEF Fail, At, Current, FailOps
<1>2. UNCHANGED <<handle, options, memory, g_running, bytes_written, buffered, written, header, patch, failed>>
  BY <1>1 DEF fileVars
<1>3. SetupInv
  BY <1>1, Phase DEF SetupOps, FailOps
<1>4. Current \in Pending /\ Current \in CallType /\ Current = Call(Current.op, Now) /\ Now \in {0} \cup Handles
  BY <1>1, CurrentIs
<1>5. MaxVideos \in Nat /\ video_started \in 0..MaxVideos /\ Now \in Nat /\ Now <= 2 + MaxVideos
  BY <1>4, HandlesAre, ClientsAssumption DEF IInv, TypeOK
<1>6. n \in 0..MaxVideos
  BY <1>5 DEF StartedAt, Playback
<1>7. ASSUME NEW h \in Handles, Alive(h), h > Playback PROVE h - Playback <= n
  <2>1. Rank(Call("create", h)) < Rank(Current)
    BY <1>3, <1>4, <1>7 DEF SetupInv
  <2>2. h \in Nat /\ Rank(Call("create", h)) = 4 * h + 1 /\ h >= 3
    BY <1>7, HandlesAre, VideoRanks DEF Playback
  <2>3. Now > Playback
    <3>1. CASE Now = 0
      <4>1. Rank(Current) = FixedRank(Current.op)
        BY <1>4, <3>1, CallEq DEF Rank
      <4>2. FixedRank(Current.op) \in Nat /\ FixedRank(Current.op) <= 12
        <5>1. FixedRank("open") = 1 /\ FixedRank("ring") = 3 /\ FixedRank("ctxs") = 12
          BY DEF FixedRank
        <5>2. FixedRank("create") = 0 /\ FixedRank("configure") = 0 /\ FixedRank("activate") = 0
          BY DEF FixedRank
        <5> QED BY <1>1, <5>1, <5>2 DEF FailOps
      <4> QED BY <2>1, <2>2, <4>1, <4>2
    <3>2. CASE Now = Capture
      <4>1. Rank(Current) = CaptureRank(Current.op)
        BY <1>4, <3>2, CallEq DEF Rank, Capture
      <4>2. CaptureRank(Current.op) \in Nat /\ CaptureRank(Current.op) <= 12
        BY <1>1 DEF CaptureRank, FailOps
      <4> QED BY <2>1, <2>2, <4>1, <4>2
    <3>3. CASE Now = Playback
      <4>1. Rank(Current) = PlaybackRank(Current.op)
        BY <1>4, <3>3, CallEq DEF Rank, Capture, Playback
      <4>2. PlaybackRank(Current.op) \in Nat /\ PlaybackRank(Current.op) <= 12
        BY <1>1 DEF PlaybackRank, FailOps
      <4> QED BY <2>1, <2>2, <4>1, <4>2
    <3> QED BY <1>4, <3>1, <3>2, <3>3, HandlesAre
  <2>4. Current.op \in {"create", "configure", "activate"}
    <3>1. Current.h = Now /\ Now # 0
      BY <2>3 DEF Current, Now, Playback
    <3>2. Current.op \in {"open", "ring", "ctxs"} => Current.h = 0
      BY <1>4, CallsFit, CallEq
    <3> QED BY <1>1, <3>1, <3>2 DEF FailOps
  <2>5. CASE Current.op = "create"
    <3>1. Rank(Current) = 4 * Now + 1
      BY <1>4, <1>5, <2>3, <2>5, VideoRanks
    <3>2. n = Now - Playback - 1
      BY <2>3, <2>5 DEF StartedAt
    <3> QED BY <1>5, <2>1, <2>2, <3>1, <3>2 DEF Playback
  <2>6. CASE Current.op # "create"
    <3>1. Rank(Current) <= 4 * Now + 3
      BY <1>4, <1>5, <2>3, <2>4, <2>6, VideoRanks
    <3>2. n = Now - Playback
      BY <2>3, <2>6 DEF StartedAt
    <3>3. Rank(Current) \in Nat
      BY <1>4, RankType
    <3> QED BY <1>5, <2>1, <2>2, <3>1, <3>2, <3>3 DEF Playback
  <2> QED BY <2>5, <2>6
<1>8. Recording => Quiet /\ Tells /\ Written
  <2>1. patch.at = "none" /\ header = Header(0)
        /\ (Recording => Quiet /\ written = 0 /\ buffered = 0)
    BY <1>1, <1>3, <1>4 DEF SetupInv
  <2>2. Recording => written + buffered = 0
    BY <2>1
  <2> QED BY <2>1, <2>2, NoData DEF Tells, Written
<1> HIDE DEF n
<1> QED BY <1>1, <1>2, <1>6, <1>7, <1>8, ToCleanup

LEMMA WaitStep ==
  ASSUME IInv, Wait
  PROVE  IInv'
<1>1. /\ ~ Ended /\ Current.op = "wait"
      /\ todo' = IF Recording THEN Finish ELSE Cleanup(video_started)
      /\ UNCHANGED <<handle, options, memory, video_started, g_running, fileVars>>
  BY DEF Wait, At, Current
<1>2. UNCHANGED <<handle, options, memory, g_running, bytes_written, buffered, written, header, patch, failed>>
  BY <1>1 DEF fileVars
<1>3. SetupInv
  BY <1>1, Phase DEF SetupOps
<1>4. video_started \in 0..MaxVideos
  BY DEF IInv, TypeOK
<1>5. CASE Recording
  <2>1. MaxVideos \in 0..MaxVideos /\ todo' = Finish
    BY <1>1, <1>5, ClientsAssumption
  <2>2. \A h \in Handles : Alive(h) /\ h > Playback => h - Playback <= MaxVideos
    BY HandlesAre, ClientsAssumption DEF Playback
  <2>3. ASSUME Finish = Cleanup(MaxVideos) PROVE Quiet /\ Tells /\ Written
    <3>1. Members(Finish) = Members(Cleanup(MaxVideos))
      BY <2>3
    <3>2. Call("stop", Capture) \in Members(Finish)
      BY FinishIs
    <3>3. Call("stop", Capture) \notin CleanupOf(MaxVideos)
      BY <1>5, CallEq DEF CleanupOf
    <3> QED BY <2>1, <3>1, <3>2, <3>3, CleanupIs
  <2> QED BY <1>1, <1>2, <1>4, <1>5, <2>1, <2>2, <2>3, ToCleanup
<1>6. CASE ~ Recording
  <2>1. ASSUME NEW h \in Handles, Alive(h), h > Playback PROVE h - Playback <= video_started
    <3>1. SUFFICES ASSUME Call("started", h) \in Pending PROVE FALSE
      BY <1>3, <2>1 DEF SetupInv
    <3>2. Call("started", h) # Current
      BY <1>1, CallEq
    <3>3. Current \in Pending /\ Current = Call("wait", 0)
      BY <1>1, CurrentIs, CallsFit
    <3>4. Rank(Current) < Rank(Call("started", h))
      <4>1. todo # <<>> /\ LastRank \in Nat /\ Spans(todo, 0, LastRank)
        BY <1>1, ClientsAssumption DEF Ended, LastRank, IInv, InOrder
      <4>2. Members(Tail(todo)) = Members(todo) \ {Head(todo)}
            /\ \A c \in Members(Tail(todo)) : Rank(Head(todo)) < Rank(c)
        BY <4>1, TailSpans
      <4> QED BY <3>1, <3>2, <4>2 DEF Pending, Current
    <3>5. h \in Nat /\ h <= 2 + MaxVideos /\ Rank(Call("started", h)) = 4 * h + 4
      BY <2>1, HandlesAre, VideoRanks
    <3> QED BY <3>3, <3>4, <3>5, FixedRanks, ClientsAssumption
  <2>2. todo' = Cleanup(video_started) /\ video_started' = video_started
    BY <1>1, <1>6
  <2> QED BY <1>2, <1>4, <1>6, <2>1, <2>2, ToCleanup
<1> QED BY <1>5, <1>6

----------------------------------------------------------------------------
(* Callbacks and signals *)

LEMMA CallbackMoves ==
  ASSUME IInv, UNCHANGED <<options, todo, memory, video_started, header, patch>>,
         g_running' \in BOOLEAN, FileType',
         handle' \in [Handles -> HandleType],
         \A h \in Handles :
           /\ Alive(h)' <=> Alive(h)
           /\ handle'[h].active => handle[h].active
           /\ handle'[h].delivering => handle[h].delivering \/ handle[h].active
           /\ handle'[h].reporting => Alive(h),
         CountInv', Quiet => written' = written /\ buffered' = buffered /\ failed' = failed
  PROVE  IInv'
<1>1. /\ \A h \in Handles : UserData(h)' = UserData(h) /\ Allocation(h)' = Allocation(h)
      /\ (Recording' <=> Recording) /\ Format(options)' = Format(options)
      /\ Pending' = Pending
  BY DEF UserData, Recording, Format, Allocation, Pending
<1>2. InOrder'
  BY DEF IInv, InOrder
<1>3. HandlesInv'
  BY <1>1 DEF IInv, HandlesInv
<1>4. Quiet => Quiet'
  BY DEF Quiet
<1>5. MemoryInv'
  BY <1>1 DEF IInv, MemoryInv
<1>6. SetupInv => SetupInv'
  <2> SUFFICES ASSUME SetupInv PROVE SetupInv'
    OBVIOUS
  <2>1. Recording' /\ (\E c \in Pending' : c.op \in FailOps) => Quiet' /\ written' = 0 /\ buffered' = 0
    BY <1>1, <1>4 DEF SetupInv
  <2>2. \A h \in Handles :
         /\ Call("create", h) \in Pending' =>
              /\ UserData(h)' \in memory' \/ Allocation(h)' \in Pending'
              /\ Call("started", h) \in Pending'
         /\ Alive(h)' => \A c \in Pending' : Rank(Call("create", h)) < Rank(c)
         /\ Alive(h)' /\ h > Playback => Call("started", h) \in Pending' \/ h - Playback <= video_started'
    BY <1>1 DEF SetupInv
  <2> QED BY <1>1, <2>1, <2>2 DEF SetupInv
<1>7. CleanupInv => CleanupInv'
  <2>1. (Quiet /\ Tells => Tells') /\ (Quiet /\ Written => Written')
    BY DEF Tells, Written
  <2> QED BY <1>1, <1>4, <2>1 DEF CleanupInv
<1>8. TypeOK'
  BY DEF IInv, TypeOK, HandleType, FileType
<1> QED BY <1>2, <1>3, <1>5, <1>6, <1>7, <1>8 DEF IInv

LEMMA CallbackStep ==
  ASSUME IInv, NEW h \in Handles, Callback(h)
  PROVE  IInv'
<1>1. handle[h] \in HandleType /\ handle \in [Handles -> HandleType]
  BY Handle DEF IInv, TypeOK, HandleType
<1>2. TypeOK /\ CountInv /\ FileType /\ g_running \in BOOLEAN
  BY DEF IInv, TypeOK, FileType
<1>3. handle[h].delivering \/ handle[h].active \/ handle[h].reporting => Alive(h)
  BY DEF IInv, HandlesInv
<1>4. CASE BeginData(h)
  <2> DEFINE s == [handle[h] EXCEPT !.delivering = TRUE]
  <2>1. /\ handle[h].active /\ Alive(h) /\ Is(h, s) /\ s \in HandleType /\ s.st = "created" /\ s.active
        /\ s.reporting = handle[h].reporting
        /\ UNCHANGED <<options, todo, memory, video_started, header, g_running, bytes_written, buffered, written, patch, failed>>
    BY <1>1, <1>4 DEF BeginData, DataBegin, Alive, mainVars, fileVars, HandleType
  <2> HIDE DEF s
  <2>2. /\ handle' \in [Handles -> HandleType] /\ handle'[h] = s /\ Alive(h)'
        /\ \A g \in Handles : g # h => handle'[g] = handle[g] /\ (Alive(g)' <=> Alive(g))
    BY <1>2, <2>1, OneHandle
  <2>3. \A g \in Handles : handle[g].reporting => Alive(g)
    BY DEF IInv, HandlesInv
  <2> QED BY <1>2, <2>1, <2>2, <2>3, CallbackMoves DEF CountInv, FileType
<1>5. CASE EndData(h)
  <2> DEFINE s == [handle[h] EXCEPT !.delivering = FALSE]
  <2>1. /\ handle[h].delivering /\ Is(h, s) /\ s \in HandleType /\ s.st = handle[h].st
        /\ s.active = handle[h].active /\ s.reporting = handle[h].reporting /\ ~ s.delivering
        /\ UNCHANGED <<options, todo, memory, video_started, header, g_running>>
    BY <1>1, <1>5 DEF EndData, DataEnd, mainVars, fileVars, HandleType
  <2> HIDE DEF s
  <2>2. /\ handle' \in [Handles -> HandleType] /\ handle'[h] = s /\ (Alive(h)' <=> Alive(h))
        /\ \A g \in Handles : g # h => handle'[g] = handle[g] /\ (Alive(g)' <=> Alive(g))
    BY <1>2, <2>1, OneHandle DEF Alive
  <2>3. \A g \in Handles : handle[g].reporting => Alive(g)
    BY DEF IInv, HandlesInv
  <2>4. ~ Quiet
    BY <2>1 DEF Quiet
  <2>5. FileType' /\ CountInv' /\ patch' = patch
    <3>1. CASE ~ Recording
      <4>1. UNCHANGED <<bytes_written, buffered, written, header, patch, failed>>
        BY <1>5, <3>1 DEF EndData, fileVars
      <4> QED BY <1>2, <4>1 DEF FileType, CountInv
    <3>2. CASE Recording
      <4>1. PICK n \in Sizes, ok \in BOOLEAN :
              Stdio(buffered + n, ok) /\ bytes_written' = Counted(n, ok)
        BY <1>5, <3>2 DEF EndData
      <4>2. UNCHANGED <<header, patch>>
        BY <1>5, <3>2 DEF EndData
      <4>3. /\ n \in Nat /\ Width \in Nat /\ Width > 0
            /\ bytes_written \in Nat /\ buffered \in Nat /\ written \in Nat /\ failed \in BOOLEAN
        BY <1>2, ClientsAssumption DEF FileType
      <4>4. /\ written' \in Nat /\ buffered' \in Nat /\ failed' \in BOOLEAN
            /\ ~ failed' => ok /\ ~ failed /\ written' + buffered' = written + (buffered + n)
        <5>1. buffered + n \in Nat
          BY <4>3
        <5> QED BY <4>1, <4>3, <5>1, StdioIs
      <4> DEFINE b == bytes_written + n
      <4>5. b \in Nat
        BY <4>3
      <4>6. bytes_written' = IF ok THEN b % Width ELSE bytes_written
        BY <4>1 DEF Counted
      <4> HIDE DEF b
      <4>7. b % Width \in Nat /\ (b < Width => b % Width = b)
        BY ONLY <4>3, <4>5
      <4>8. bytes_written' \in Nat
        BY <4>3, <4>6, <4>7
      <4>9. FileType'
        BY <1>2, <4>2, <4>4, <4>8 DEF FileType
      <4>10. CountInv'
        <5>1. SUFFICES ASSUME ~ failed', written' + buffered' < Width
                       PROVE  bytes_written' = written' + buffered'
          BY DEF CountInv
        <5>2. ok /\ ~ failed /\ written' + buffered' = written + (buffered + n)
          BY <4>4, <5>1
        <5>3. bytes_written = written + buffered
          BY <1>2, <4>3, <5>1, <5>2 DEF CountInv
        <5>4. b = written' + buffered'
          BY <4>3, <5>2, <5>3 DEF b
        <5> QED BY <4>6, <4>7, <5>1, <5>2, <5>4
      <4> QED BY <4>2, <4>9, <4>10
    <3> QED BY <3>1, <3>2
  <2> QED BY <1>2, <2>1, <2>2, <2>3, <2>4, <2>5, CallbackMoves
<1>6. CASE ReportLoss(h)
  <2>1. PICK on \in {handle[h].active, handle[h].active /\ handle[h].delivering} :
          Is(h, [handle[h] EXCEPT !.running = FALSE, !.reporting = TRUE, !.active = on])
    BY <1>6 DEF ReportLoss, Report
  <2> DEFINE s == [handle[h] EXCEPT !.running = FALSE, !.reporting = TRUE, !.active = on]
  <2>2. on \in BOOLEAN /\ (on => handle[h].active)
    BY <1>1 DEF HandleType
  <2>3. /\ Alive(h) /\ Is(h, s) /\ s \in HandleType /\ s.st = "created" /\ (s.active => handle[h].active)
        /\ s.delivering = handle[h].delivering
        /\ UNCHANGED <<options, todo, memory, video_started, header, g_running, bytes_written, buffered, written, patch, failed>>
    BY <1>1, <1>6, <2>1, <2>2 DEF ReportLoss, Report, Alive, mainVars, fileVars, HandleType
  <2> HIDE DEF s
  <2>4. /\ handle' \in [Handles -> HandleType] /\ handle'[h] = s /\ Alive(h)'
        /\ \A g \in Handles : g # h => handle'[g] = handle[g] /\ (Alive(g)' <=> Alive(g))
    BY <1>2, <2>3, OneHandle
  <2>5. \A g \in Handles : handle[g].reporting => Alive(g)
    BY DEF IInv, HandlesInv
  <2> QED BY <1>2, <2>3, <2>4, <2>5, CallbackMoves DEF CountInv, FileType
<1>7. CASE EndError(h)
  <2> DEFINE s == [handle[h] EXCEPT !.reporting = FALSE]
  <2>1. /\ Is(h, s) /\ s \in HandleType /\ s.st = handle[h].st
        /\ s.active = handle[h].active /\ s.delivering = handle[h].delivering /\ ~ s.reporting
        /\ UNCHANGED <<options, todo, memory, video_started, header, bytes_written, buffered, written, patch, failed>>
        /\ g_running' = FALSE
    BY <1>1, <1>7 DEF EndError, ErrorEnd, Told, mainVars, fileVars, HandleType
  <2> HIDE DEF s
  <2>2. /\ handle' \in [Handles -> HandleType] /\ handle'[h] = s /\ (Alive(h)' <=> Alive(h))
        /\ \A g \in Handles : g # h => handle'[g] = handle[g] /\ (Alive(g)' <=> Alive(g))
    BY <1>2, <2>1, OneHandle DEF Alive
  <2>3. \A g \in Handles : handle[g].reporting => Alive(g)
    BY DEF IInv, HandlesInv
  <2>4. g_running' \in BOOLEAN
    BY <2>1
  <2> QED BY <1>2, <2>1, <2>2, <2>3, <2>4, CallbackMoves DEF CountInv, FileType
<1> QED BY <1>4, <1>5, <1>6, <1>7 DEF Callback

LEMMA SignalStep ==
  ASSUME IInv, Signal \/ UNCHANGED vars
  PROVE  IInv'
<1>1. /\ UNCHANGED <<handle, options, todo, memory, video_started, header, bytes_written, buffered, written, patch, failed>>
      /\ g_running' \in BOOLEAN
  BY DEF Signal, vars, mainVars, fileVars, IInv, TypeOK
<1>2. /\ handle' \in [Handles -> HandleType]
      /\ FileType /\ CountInv
  BY <1>1 DEF IInv, TypeOK, HandleType, FileType
<1>3. \A h \in Handles : (Alive(h)' <=> Alive(h)) /\ (handle[h].reporting => Alive(h))
  BY <1>1 DEF IInv, HandlesInv, Alive
<1> QED BY <1>1, <1>2, <1>3, CallbackMoves DEF CountInv, FileType

----------------------------------------------------------------------------
(* The theorems *)

\* IInv holds in every state: there is a call left for all that there is.
THEOREM InvariantHolds == Spec => []IInv
<1>1. Init => IInv
  BY InitInv
<1>2. ASSUME IInv, [Next]_vars PROVE IInv'
  <2>1. CASE MainStep
    <3>1. CASE Allocate("open", "file") \/ Allocate("ring", "ring") \/ Allocate("ctxs", "ctxs")
      BY <1>2, <3>1, AllocateStep
    <3>2. CASE Release("free_ring", "ring") \/ Release("free_ctxs", "ctxs")
      BY <1>2, <3>2, FreeStep
    <3> QED BY <1>2, <2>1, <3>1, <3>2, SignalsStep, OnStreamStep, StartReturnStep, StopStep,
               FailStep, WaitStep, PatchStep, CloseStep DEF MainStep
  <2>2. CASE Signal \/ UNCHANGED vars
    BY <1>2, <2>2, SignalStep
  <2>3. CASE \E h \in Handles : Callback(h)
    BY <1>2, <2>3, CallbackStep
  <2> QED BY <1>2, <2>1, <2>2, <2>3 DEF Next, Terminated
<1> QED BY <1>1, <1>2, PTL DEF Spec

\* Every variable keeps its type, and what main() has left to call are calls on
\* streams there may be.
THEOREM TypeCorrect == Spec => []TypeOK
<1>1. IInv => TypeOK
  BY DEF IInv
<1> QED BY <1>1, InvariantHolds, PTL

\* Whatever call fails, whenever a signal comes or a stream is lost, a callback
\* runs only while what it was given as user_data is there.
THEOREM CallbacksAreFed == Spec => []CallbacksHaveData
<1>1. IInv => CallbacksHaveData
  BY DEF IInv, HandlesInv, CallbacksHaveData
<1> QED BY <1>1, InvariantHolds, PTL

\* main() returns with nothing left behind, on each of its paths.
THEOREM NothingIsLeft == Spec => []NothingLeft
<1>1. ASSUME IInv, Ended PROVE memory = {} /\ \A h \in Handles : ~ Alive(h)
  <2>1. Pending = {}
    BY <1>1, SpansNone DEF Ended, Pending
  <2>2. CleanupInv
    BY <1>1, <2>1 DEF IInv, SetupInv
  <2> QED BY <2>1, <2>2 DEF CleanupInv
<1>2. IInv => NothingLeft
  BY <1>1 DEF NothingLeft
<1> QED BY <1>2, InvariantHolds, PTL

\* The one header of a finished recording has the sizes of its data, as far as
\* they fit their fields: if the output can be positioned and no write failed.
THEOREM HeaderIsRight == Spec => []HeaderTellsLength
<1>1. ASSUME IInv, Recording, Format(options) = "wav", Ended PROVE Tells /\ Written
  <2>1. Pending = {}
    BY <1>1, SpansNone DEF Ended, Pending
  <2>2. CleanupInv
    BY <1>1, <2>1 DEF IInv, SetupInv
  <2> QED BY <1>1, <2>1, <2>2 DEF CleanupInv
<1>2. ASSUME IInv PROVE HeaderTellsLength
  <2>1. SUFFICES ASSUME Recording, Format(options) = "wav", Ended, options.output = "file", ~ failed
                 PROVE  patch.at # "end" /\ Fits(header, written)
    BY DEF HeaderTellsLength
  <2>2. Tells /\ Written
    BY <1>1, <1>2, <2>1
  <2>3. buffered = 0 /\ (patch.at = "start" => header = patch.header)
    BY <2>1, <2>2 DEF Written
  <2>4. written + buffered = written
    BY <1>2, <2>3 DEF IInv, TypeOK
  <2> QED BY <2>1, <2>2, <2>3, <2>4 DEF Tells
<1> QED BY <1>2, InvariantHolds, PTL

=============================================================================
