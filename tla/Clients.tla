------------------------------ MODULE Clients ------------------------------
(***************************************************************************)
(* The two programs of utils/ as clients of the library: pwf_record writes *)
(* one stream into a file; pwf_stream_loopback plays what it captures and  *)
(* counts frames of video streams.  The streams are those of StreamPromise *)
(* (Stream implements it), one per handle.                                 *)
(*                                                                         *)
(* main() is the list of the calls it has left.  A call that fails         *)
(* replaces the list with the cleanup its path runs.  The callbacks and    *)
(* the signals come between any two calls.  What main() allocates and the  *)
(* callbacks use is a member of `memory'.                                  *)
(*                                                                         *)
(* Nothing uses a definition Name_Bug.                                     *)
(***************************************************************************)
EXTENDS StreamPromise, Sequences

CONSTANTS
  MaxVideos,        \* bound: --video-streams
  Sizes,            \* bytes of a recorded buffer
  HeaderSize,       \* 36: bytes of a WAV header behind its first size field
  Width,            \* 2^32: bytes_written and the header's sizes are uint32_t
  MaxBytes          \* bound: bytes in a recording

ASSUME ClientsAssumption ==
  /\ MaxVideos \in Nat /\ Width \in Nat \ {0} /\ HeaderSize \in Nat /\ MaxBytes \in Nat
  /\ Sizes \subseteq Nat

VARIABLES
  options,          \* the command line
  todo,             \* main(): the calls left; none: it returned
  memory,           \* of the file, the ring and the video contexts: what exists
  video_started,
  g_running,
  (* record_ctx and the file *)
  bytes_written,
  buffered,         \* bytes of data stdio has yet to write
  written,          \* the bytes of data in the file
  header,           \* the sizes in the WAV header at the start of the file
  patch,            \* the second header, and where stdio will write it
  failed            \* some write to the file failed: what it was to bring may be lost

fileVars == <<bytes_written, buffered, written, header, patch, failed>>
mainVars == <<options, todo, memory, video_started>>
vars == <<handle, mainVars, g_running, fileVars>>

Capture == 1
Playback == 2
Video(i) == 2 + i

Streams == 1..(2 + MaxVideos)

ASSUME HandlesAssumption == Handles = Streams

Recording == options.program = "record"

\* The user_data of each stream's callbacks
UserData(h) == IF Recording THEN "file"
               ELSE IF h \in {Capture, Playback} THEN "ring" ELSE "ctxs"

----------------------------------------------------------------------------
(* The command line *)

Options ==
  [program : {"record"}, output : {"none", "file", "pipe"}, type : {"audio", "video"},
   format : {"unset", "wav", "pcm", "raw", "y4m"}, planar : BOOLEAN, fps : BOOLEAN]
  \cup [program : {"loopback"}, audio : BOOLEAN, videos : 0..MaxVideos]

Format(o) ==
  IF o.format # "unset" THEN o.format ELSE IF o.type = "video" THEN "raw" ELSE "wav"

\* A Y4M header needs planar 4:2:0 frames and a rate that is known.
Accepted(o) ==
  CASE o.program = "record" ->
         /\ o.output # "none"
         /\ Format(o) \in (IF o.type = "audio" THEN {"wav", "pcm"} ELSE {"raw", "y4m"})
         /\ Format(o) = "y4m" => o.planar /\ o.fps
    [] o.program = "loopback" -> o.audio \/ o.videos > 0

----------------------------------------------------------------------------
(* main() *)

Call(op, h) == [op |-> op, h |-> h]
Do(op) == <<Call(op, 0)>>
Open(h) == <<Call("create", h), Call("configure", h)>>
Start(h) == <<Call("activate", h), Call("started", h)>>
TakeDown(h) == <<Call("stop", h), Call("destroy", h)>>

\* The calls `ops' on the video streams 1..n, one stream after the other
EachVideo(ops, n) ==
  [k \in 1..n * Len(ops) |->
     Call(ops[1 + ((k - 1) % Len(ops))], Video(1 + (k - 1) \div Len(ops)))]

If(condition, calls) == IF condition THEN calls ELSE <<>>

Setup(o) ==
  IF o.program = "record"
    THEN Do("open") \o Do("signals") \o Open(Capture) \o Start(Capture) \o Do("wait")
    ELSE Do("signals")
         \o If(o.audio, Do("ring") \o Open(Capture) \o Open(Playback)
                        \o Start(Capture) \o Start(Playback))
         \o If(o.videos > 0,
               Do("ctxs") \o EachVideo(<<"create", "configure", "activate", "started">>, o.videos))
         \o Do("wait")

\* The end of pwf_record: the header is patched when no callback can write.
Finish_PatchFirst ==
  If(Format(options) = "wav", Do("patch")) \o TakeDown(Capture) \o Do("close")

Finish ==
  TakeDown(Capture) \o If(Format(options) = "wav", Do("patch")) \o Do("close")

Cleanup_RingFirst(started) ==
  EachVideo(<<"stop", "destroy">>, started)
  \o If("ctxs" \in memory, Do("free_ctxs"))
  \o If("ring" \in memory, Do("free_ring"))
  \o If(Alive(Playback), TakeDown(Playback))
  \o If(Alive(Capture), TakeDown(Capture))

\* pwf_record's paths after a failure, and the label `cleanup' of the other
Cleanup(started) ==
  IF Recording
    THEN If(Alive(Capture), <<Call("destroy", Capture)>>) \o If("file" \in memory, Do("close"))
    ELSE EachVideo(<<"stop", "destroy">>, started)
         \o If("ctxs" \in memory, Do("free_ctxs"))
         \o If(Alive(Playback), TakeDown(Playback))
         \o If(Alive(Capture), TakeDown(Capture))
         \o If("ring" \in memory, Do("free_ring"))

\* The two sizes write_wav_header() writes
Header(size) == [riff |-> (HeaderSize + size) % Width, data |-> size % Width]

Init ==
  /\ handle = [h \in Handles |-> Absent]
  /\ options \in Options
  /\ todo = IF Accepted(options) THEN Setup(options) ELSE <<>>
  /\ memory = {} /\ video_started = 0 /\ g_running = TRUE
  /\ bytes_written = 0 /\ buffered = 0 /\ written = 0 /\ failed = FALSE
  /\ header = Header(0) /\ patch = [at |-> "none", header |-> Header(0)]

Ended == todo = <<>>

At(op) == ~ Ended /\ Head(todo).op = op
Now == Head(todo).h
Done == todo' = Tail(todo)

LockFree == ~ handle[Now].reporting

\* fopen() with the header's placeholder, ring_init(), and the callocs
Allocate(op, what) ==
  /\ At(op)
  /\ memory' = memory \cup {what}
  /\ Done
  /\ UNCHANGED <<handle, options, video_started, g_running, fileVars>>

Release(op, what) ==
  /\ At(op)
  /\ memory' = memory \ {what}
  /\ Done
  /\ UNCHANGED <<handle, options, video_started, g_running, fileVars>>

Signals ==
  /\ At("signals")
  /\ Done
  /\ UNCHANGED <<handle, options, memory, video_started, g_running, fileVars>>

\* A call on a stream that succeeds
OnStream ==
  /\ \/ At("create") /\ Create(Now)
     \/ At("configure") /\ LockFree /\ Configured(Now)
     \/ At("activate") /\ LockFree /\ Activate(Now)
     \/ At("stopped") /\ Stopped(Now)
     \/ At("destroy") /\ Destroy(Now)
  /\ Done
  /\ UNCHANGED <<options, memory, video_started, g_running, fileVars>>

\* pwf_stream_start() returned.
StartReturn ==
  /\ At("started")
  /\ Started(Now)
  /\ video_started' = IF Now > Playback THEN Now - Playback ELSE video_started
  /\ Done
  /\ UNCHANGED <<options, memory, g_running, fileVars>>

\* A stream that is not running is not stopped: pwf_stream_stop() returns.
Stop ==
  /\ At("stop")
  /\ IF handle[Now].running
       THEN LockFree /\ Pause(Now) /\ todo' = <<Call("stopped", Now)>> \o Tail(todo)
       ELSE Done /\ UNCHANGED handle
  /\ UNCHANGED <<options, memory, video_started, g_running, fileVars>>

\* The video streams to clean up when a call on one failed
StartedAt_Before(op) == Now - Playback - 1

StartedAt(op) == IF op = "create" THEN Now - Playback - 1 ELSE Now - Playback

Fail ==
  \E op \in {"open", "ring", "ctxs", "create", "configure", "activate"} :
    /\ At(op)
    /\ LET started == IF Now > Playback THEN StartedAt(op) ELSE video_started IN
         /\ video_started' = started
         /\ todo' = Cleanup(started)
    /\ UNCHANGED <<handle, options, memory, g_running, fileVars>>

\* while (g_running) sleep(1);
Wait ==
  /\ At("wait")
  /\ ~ g_running
  /\ todo' = IF Recording THEN Finish ELSE Cleanup(video_started)
  /\ UNCHANGED <<handle, options, memory, video_started, g_running, fileVars>>

\* stdio has `all' bytes of data for the file.  Some it writes and some it keeps;
\* if a write fails, the rest may be lost.
Stdio(all, ok) ==
  /\ \E out, left \in 0..all :
       /\ out + left <= all
       /\ ok => out + left = all
       /\ written' = written + out
       /\ buffered' = left
  /\ failed' = (failed \/ ~ ok)

\* fseek() writes out what is buffered, and moves if that works and the file can
\* be positioned.  The header with the size that was counted goes into the buffer
\* at whatever place that leaves: nothing looks at fseek()'s result.
Patch ==
  /\ At("patch")
  /\ \E ok \in BOOLEAN :
       /\ Stdio(buffered, ok)
       /\ ok => buffered' = 0
       /\ patch' = [at |-> IF ok /\ options.output = "file" THEN "start" ELSE "end",
                    header |-> Header(bytes_written)]
  /\ Done
  /\ UNCHANGED <<handle, options, memory, video_started, g_running, bytes_written, header>>

\* fclose() writes what is left, the second header included; nor is this result
\* looked at.
Close ==
  /\ At("close")
  /\ \E ok \in BOOLEAN :
       /\ Stdio(buffered, ok)
       /\ header' = IF ok /\ patch.at = "start" THEN patch.header ELSE header
  /\ buffered' = 0
  /\ memory' = memory \ {"file"}
  /\ Done
  /\ UNCHANGED <<handle, options, video_started, g_running, bytes_written, patch>>

MainStep ==
  \/ Allocate("open", "file") \/ Allocate("ring", "ring") \/ Allocate("ctxs", "ctxs")
  \/ Release("free_ring", "ring") \/ Release("free_ctxs", "ctxs")
  \/ Signals \/ OnStream \/ StartReturn \/ Stop \/ Fail \/ Wait \/ Patch \/ Close

----------------------------------------------------------------------------
(* Signals and callbacks *)

\* SIGINT, or the alarm of --duration, once there is a handler
Signal ==
  /\ ~ Ended /\ \A i \in DOMAIN todo : todo[i].op # "signals"
  /\ g_running
  /\ g_running' = FALSE
  /\ UNCHANGED <<handle, mainVars, fileVars>>

BeginData(h) ==
  /\ DataBegin(h)
  /\ Recording => written + buffered < MaxBytes
  /\ UNCHANGED <<mainVars, g_running, fileVars>>

\* What on_data() of pwf_record counts of a buffer of n bytes, by fwrite()'s result
Counted(n, ok) == IF ok THEN (bytes_written + n) % Width ELSE bytes_written

EndData(h) ==
  /\ DataEnd(h)
  /\ IF Recording
       THEN /\ \E n \in Sizes, ok \in BOOLEAN :
                 /\ Stdio(buffered + n, ok)
                 /\ bytes_written' = Counted(n, ok)
            /\ UNCHANGED <<header, patch>>
       ELSE UNCHANGED fileVars
  /\ UNCHANGED <<mainVars, g_running>>

ReportLoss(h) ==
  /\ Report(h)
  /\ UNCHANGED <<mainVars, g_running, fileVars>>

Told_Nothing == g_running

Told == FALSE     \* g_running after an error callback

EndError(h) ==
  /\ ErrorEnd(h)
  /\ g_running' = Told
  /\ UNCHANGED <<mainVars, fileVars>>

Callback(h) == BeginData(h) \/ EndData(h) \/ ReportLoss(h) \/ EndError(h)

\* main() returned.
Terminated == Ended /\ UNCHANGED vars

Next == MainStep \/ Signal \/ (\E h \in Handles : Callback(h)) \/ Terminated

Spec == Init /\ [][Next]_vars

\* A callback returns.  main() waits for a lock that a loop thread drops between
\* two events, or for the data thread to be between two cycles; both serve it.
FairSpec ==
  /\ Spec
  /\ SF_vars(MainStep)
  /\ \A h \in Handles : WF_vars(EndData(h)) /\ WF_vars(EndError(h))

----------------------------------------------------------------------------
(* Properties *)

Ops == {"open", "signals", "ring", "ctxs", "create", "configure", "activate", "started", "wait",
        "stop", "stopped", "destroy", "patch", "free_ctxs", "free_ring", "close"}

\* Types; what is called is called on a stream there may be, or on none (0).
TypeOK ==
  /\ handle \in [Handles -> [st : {"none", "created", "destroyed"}, set : BOOLEAN,
                             running : BOOLEAN, active : BOOLEAN,
                             delivering : BOOLEAN, reporting : BOOLEAN]]
  /\ options \in Options
  /\ todo \in Seq([op : Ops, h : {0} \cup Handles])
  /\ memory \subseteq {"file", "ring", "ctxs"}
  /\ video_started \in 0..MaxVideos
  /\ g_running \in BOOLEAN /\ failed \in BOOLEAN
  /\ bytes_written \in Nat /\ buffered \in Nat /\ written \in Nat
  /\ header \in [riff : Nat, data : Nat]
  /\ patch \in [at : {"none", "start", "end"}, header : [riff : Nat, data : Nat]]

\* No callback runs without the file, the ring or the context it was given:
\* they outlive every stream, on every path, a stream that was lost and is still
\* active included.
CallbacksHaveData ==
  \A h \in Handles :
    handle[h].delivering \/ handle[h].reporting => UserData(h) \in memory

\* When main() returns, wherever it failed, every stream it created is
\* destroyed and everything it allocated is released.
NothingLeft ==
  Ended => memory = {} /\ \A h \in Handles : ~ Alive(h)

\* The sizes a header has for that many bytes of data, as far as they fit the fields
Fits(h, size) ==
  /\ size < Width => h.data = size
  /\ size + HeaderSize < Width => h.riff = size + HeaderSize

\* The one header of a closed WAV file tells its length, if the file can be
\* positioned and every write to it worked.  Otherwise main() cannot know.
HeaderTellsLength ==
  Recording /\ Format(options) = "wav" /\ Ended /\ options.output = "file" /\ ~ failed =>
    patch.at # "end" /\ Fits(header, written)

\* A signal or a lost stream ends the program, in whatever call it is.
EndsWhenTold ==
  (~ g_running \/ \E h \in Handles : handle[h].reporting) ~> Ended
============================================================================
