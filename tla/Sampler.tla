------------------------------ MODULE Sampler ------------------------------
(***************************************************************************)
(* The sampling profiler (sidecar.cpp).  The sampler thread sweeps the     *)
(* guest's threads until one of them is seen in the guest's range, latches *)
(* onto it and puts what it does into the ring; the aggregator thread      *)
(* drains the ring into a window, and per report appends the window to the *)
(* series, merges it into the run and rewrites the profile; the main       *)
(* thread waits for the guest to exit or a signal, has the rest written    *)
(* and leaves.  SIGKILL has no action: it leaves the files as they are in  *)
(* the state it comes in, and the invariants about them hold in each.      *)
(***************************************************************************)
EXTENDS SampleRing

CONSTANTS
  Threads,
  Outcomes,         \* what a look at a thread may find: kind, inRange, pcs
  None,
  DiscoverySweeps,  \* kDiscoverySweeps
  DiscoveryGiveUp,  \* kDiscoveryGiveUp
  Windows,          \* X87_SAMPLE_WINDOWS is not 0
  Breakages,        \* sets of what fails: "sampler", "aggregator", "series", "profile"
  MaxSamples,       \* bound: samples of a run
  MaxIdleReports    \* bound: reports with nothing to say

\* sampleThread: a look at thread t found o.
Sample(t, o) == [tid |-> t, kind |-> o.kind, inRange |-> o.inRange, pcs |-> o.pcs]
Samples == {Sample(t, o) : t \in Threads, o \in Outcomes}

\* SamplerStats: the samples recorded and the samples taken.
Stats == [samples : Nat, measured : Nat]

ASSUME SamplerAssumption ==
  /\ DiscoverySweeps \in Nat /\ DiscoveryGiveUp \in Nat
  /\ DiscoverySweeps <= DiscoveryGiveUp
  /\ Windows \in BOOLEAN
  /\ MaxSamples \in Nat
ASSUME ThreadsAssumption == Threads \subseteq Nat
\* A sample has as many addresses as its kind says, and its depth fits.
ASSUME OutcomesAssumption ==
  \A o \in Outcomes :
    /\ o.inRange \in BOOLEAN /\ o.pcs \in Seq(Nat)
    /\ \/ o.kind = Resolved /\ Len(o.pcs) \in 1 .. DepthRoom
       \/ o.kind = NotTranslated /\ Len(o.pcs) = 2
       \/ o.kind = Unavailable /\ Len(o.pcs) = 0
ASSUME NoneAssumption == None \notin Threads /\ None \notin Samples /\ None \notin Stats

VARIABLES
  main,     \* main thread; what was recorded when it asked for the rest to be written
  guest,    \* the guest process is alive
  sampler,  \* samplerMain and sampleThread
  latch,    \* g_latch: latched; had: tid is not 0
  ports,    \* send rights the sidecar holds for the guest's threads
  counted,  \* g_counters.samples
  agg,      \* aggregatorMain and drainRing
  flush,    \* g_sampler_running, g_sampler_flush_request, g_sampler_flush_done
  files,    \* the profile; of each window, if all of it has reached the series
  broken,   \* what may fail in this run
  highest   \* history: the most words the ring ever held

vars == <<ring, main, guest, sampler, latch, ports, counted, agg, flush, files, broken, highest>>

-----------------------------------------------------------------------------
(* Where everything starts *)

NoStats == [samples |-> 0, measured |-> 0]

\* Faulty: the samples taken are not carried over.
mergeStats_dropped(into, from) ==
  [samples |-> into.samples + from.samples, measured |-> from.measured]

mergeStats(into, from) ==
  [samples |-> into.samples + from.samples, measured |-> into.measured + from.measured]

\* What an earlier run left under the names this one will use.
OldStats == [samples |-> MaxSamples + 1, measured |-> MaxSamples + 1]

NoSampler == [pc |-> "off", thread |-> None, sweeps |-> 0, gaveUp |-> FALSE,
              quiet |-> FALSE, sample |-> None]
NoLatch == [latched |-> FALSE, had |-> FALSE]
NoPorts == [t \in Threads |-> 0]
NoAggregator == [pc |-> "off", flushing |-> FALSE, got |-> None, win |-> NoStats,
                 run |-> NoStats, base |-> 0, seq |-> 0, peak |-> 0]
NoFlush == [running |-> FALSE, request |-> FALSE, done |-> FALSE]

Init ==
  /\ ring = EmptyRing
  /\ main = [pc |-> "off", asked |-> 0]
  /\ guest = TRUE
  /\ sampler = NoSampler
  /\ latch = NoLatch
  /\ ports = NoPorts
  /\ counted = 0
  /\ agg = NoAggregator
  /\ flush = NoFlush
  /\ files = [profile |-> OldStats,
              series |-> <<[seq |-> 0, stats |-> OldStats, closed |-> TRUE]>>]
  /\ broken \in Breakages
  /\ highest = 0

Started == main.pc \in {"waiting", "flushing"}

-----------------------------------------------------------------------------
(* startSampler *)

\* Faulty: the profile goes, the series stays.
Cleared_profile == [files EXCEPT !.profile = None]

\* Nothing of an earlier run stays under the names of this one.
Cleared == [profile |-> None, series |-> <<>>]

startSampler ==
  /\ main.pc = "off"
  /\ main' = [main EXCEPT !.pc = "waiting"]
  /\ files' = Cleared
  /\ sampler' = [sampler EXCEPT !.pc = IF "sampler" \in broken THEN "off" ELSE "tick"]
  /\ agg' = [agg EXCEPT !.pc = IF broken \cap {"sampler", "aggregator"} = {} THEN "look"
                                                                             ELSE "off"]
  /\ flush' = [flush EXCEPT !.running = broken \cap {"sampler", "aggregator"} = {}]
  /\ UNCHANGED <<ring, guest, latch, ports, counted, broken, highest>>

-----------------------------------------------------------------------------
(* samplerMain: no thread is latched *)

Sweeping ==
  /\ Started /\ guest
  /\ sampler.pc = "tick" /\ sampler.thread = None

\* The sweeps so far, as far as anything depends on them.
Swept == IF sampler.sweeps < DiscoveryGiveUp THEN sampler.sweeps + 1 ELSE sampler.sweeps

\* Faulty: the right to the latched thread is given back with the others.
Keep_none(t) == UNCHANGED ports

\* task_threads hands out a right to each thread; all are given back but t's.
Keep(t) == ports' = [u \in Threads |-> ports[u] + 1 - (IF u # t THEN 1 ELSE 0)]

\* Nobody was in range, or it is too early to choose.  From kDiscoveryGiveUp
\* sweeps on there is one per kIdleSweepS.
SweepOn ==
  /\ Sweeping
  /\ sampler' = [sampler EXCEPT !.sweeps = Swept,
                                !.gaveUp = @ \/ sampler.sweeps >= DiscoveryGiveUp]
  /\ Keep(None)
  /\ UNCHANGED <<ring, main, guest, latch, counted, agg, flush, files, broken, highest>>

\* Faulty: the throttle stays.
Latched_tired(t) == [sampler EXCEPT !.sweeps = Swept, !.thread = t, !.quiet = FALSE]

Latched(t) == [sampler EXCEPT !.sweeps = Swept, !.thread = t, !.quiet = FALSE,
                              !.gaveUp = FALSE]

\* Some thread was in range: the one seen there most often is latched onto,
\* whichever that is.
LatchOnto ==
  /\ Sweeping
  /\ sampler.sweeps + 1 >= DiscoverySweeps
  /\ \E t \in Threads :
       /\ sampler' = Latched(t)
       /\ latch' = [latched |-> TRUE, had |-> TRUE]
       /\ Keep(t)
  /\ UNCHANGED <<ring, main, guest, counted, agg, flush, files, broken, highest>>

\* task_threads fails on a task that is gone: samplerMain returns.
SweepFails ==
  /\ Started /\ ~guest
  /\ sampler.pc = "tick" /\ sampler.thread = None
  /\ sampler' = [sampler EXCEPT !.pc = "ended"]
  /\ UNCHANGED <<ring, main, guest, latch, ports, counted, agg, flush, files, broken, highest>>

-----------------------------------------------------------------------------
(* samplerMain: a thread is latched; sampleThread and SampleRing::push *)

Measuring == Started /\ sampler.pc = "tick" /\ sampler.thread # None

\* Faulty: only what was resolved is counted.
Taken_resolved(o) == counted' = IF o.kind # Resolved THEN counted ELSE counted + 1

Taken(o) == counted' = counted + 1

Measure ==
  /\ Measuring /\ guest
  /\ counted < MaxSamples
  /\ \E o \in Outcomes :
       /\ Taken(o)
       /\ sampler' = [sampler EXCEPT !.pc = "push", !.quiet = ~o.inRange,
                                     !.sample = Sample(sampler.thread, o)]
  /\ UNCHANGED <<ring, main, guest, latch, ports, agg, flush, files, broken, highest>>

\* thread_get_state fails: the thread, or the process, is gone.
MeasureFails ==
  /\ Measuring
  /\ ~sampler.quiet
  /\ sampler' = [sampler EXCEPT !.quiet = TRUE]
  /\ UNCHANGED <<ring, main, guest, latch, ports, counted, agg, flush, files, broken, highest>>

\* Faulty: a ring that is full to the last word is overrun.
Fits_one_more(n) == Level + n <= RingWords + 1

Fits(n) == Level + n <= RingWords

\* The ring with the words behind the head, which does not move yet.
Filled(words) ==
  [i \in 0 .. RingWords - 1 |->
     LET k == (i + RingWords - (ring.head % RingWords)) % RingWords
     IN  IF k < Len(words) THEN words[k + 1] ELSE ring.slots[i]]

Push ==
  /\ Started /\ sampler.pc = "push"
  /\ Fits(Len(Encode(sampler.sample)))
  /\ ring' = [ring EXCEPT !.slots = Filled(Encode(sampler.sample))]
  /\ sampler' = [sampler EXCEPT !.pc = "publish"]
  /\ UNCHANGED <<main, guest, latch, ports, counted, agg, flush, files, broken, highest>>

\* A sample that does not fit is dropped whole.
Drop ==
  /\ Started /\ sampler.pc = "push"
  /\ ~Fits(Len(Encode(sampler.sample)))
  /\ ring' = [ring EXCEPT !.dropped = @ + 1]
  /\ sampler' = [sampler EXCEPT !.pc = "tick", !.sample = None]
  /\ UNCHANGED <<main, guest, latch, ports, counted, agg, flush, files, broken, highest>>

Publish ==
  /\ Started /\ sampler.pc = "publish"
  /\ ring' = [ring EXCEPT !.head = ring.head + Len(Encode(sampler.sample))]
  /\ sampler' = [sampler EXCEPT !.pc = "tick", !.sample = None]
  /\ highest' = IF Level' > highest THEN Level' ELSE highest
  /\ UNCHANGED <<main, guest, latch, ports, counted, agg, flush, files, broken>>

\* kUnlatchAfterS without a sample in range: the right goes, and discovery
\* starts over.
Unlatch ==
  /\ Measuring
  /\ sampler.quiet
  /\ latch' = [latch EXCEPT !.latched = FALSE]
  /\ ports' = [ports EXCEPT ![sampler.thread] = @ - 1]
  /\ sampler' = [sampler EXCEPT !.thread = None, !.sweeps = 0]
  /\ UNCHANGED <<ring, main, guest, counted, agg, flush, files, broken, highest>>

SamplerThread ==
  \/ SweepOn \/ LatchOnto \/ SweepFails
  \/ Measure \/ MeasureFails \/ Push \/ Drop \/ Publish \/ Unlatch

-----------------------------------------------------------------------------
(* aggregatorMain and drainRing *)

\* The top of the loop: is there a request to serve?  g_sampler_running is
\* cleared only when this thread could not be created, so the branches behind
\* ~running are never taken.
Look ==
  /\ Started /\ agg.pc = "look"
  /\ agg' = [agg EXCEPT !.pc = "load", !.flushing = flush.request /\ ~flush.done]
  /\ UNCHANGED <<ring, main, guest, sampler, latch, ports, counted, flush, files, broken, highest>>

\* Faulty: the level is taken when the drain is over.
Peak_after == IF Level < 2 /\ Level > agg.peak THEN Level ELSE agg.peak

Peak == IF Level > agg.peak THEN Level ELSE agg.peak

\* The indices are loaded: the level is noted, and there is a sample or not.
Load ==
  /\ Started /\ agg.pc = "load"
  /\ agg' = [agg EXCEPT !.pc = IF Level < 2 THEN "report" ELSE "read", !.peak = Peak]
  /\ UNCHANGED <<ring, main, guest, sampler, latch, ports, counted, flush, files, broken, highest>>

\* The words are read and counted; learnAddress may take its time here.
Read ==
  /\ Started /\ agg.pc = "read"
  /\ agg' = [agg EXCEPT !.pc = "consume", !.got = Decode(ring.tail), !.win.samples = @ + 1]
  /\ UNCHANGED <<ring, main, guest, sampler, latch, ports, counted, flush, files, broken, highest>>

Consume ==
  /\ Started /\ agg.pc = "consume"
  /\ ring' = [ring EXCEPT !.tail = @ + Words(Slot(@ + 1))]
  /\ agg' = [agg EXCEPT !.pc = "load", !.got = None]
  /\ UNCHANGED <<main, guest, sampler, latch, ports, counted, flush, files, broken, highest>>

\* Faulty: only while there is a subject.
HasSubject_now == latch.latched

\* There is a subject, or there was one.
HasSubject == latch.latched \/ latch.had

\* The window is closed over what was taken since the last one.
Report ==
  /\ HasSubject
  /\ agg' = [agg EXCEPT !.pc = IF Windows THEN "window" ELSE "merge",
                        !.win.measured = counted - agg.base, !.base = counted]
  /\ UNCHANGED <<ring, main, guest, sampler, latch, ports, counted, flush, files, broken, highest>>

\* The report interval has passed.
ReportDue ==
  /\ Started /\ agg.pc = "report"
  /\ agg.win.samples > 0 \/ agg.seq < MaxIdleReports
  /\ Report

ReportFlush ==
  /\ Started /\ agg.pc = "report"
  /\ agg.flushing
  /\ Report

\* Faulty: a request that came during the drain counts as served.
Serve_any == flush' = [flush EXCEPT !.done = @ \/ flush.request]

\* The bottom of the loop: the request seen at the top has been served.
Serve == flush' = [flush EXCEPT !.done = @ \/ agg.flushing]

\* Neither due nor asked for, or nobody was latched onto so far.
NoReport ==
  /\ Started /\ agg.pc = "report"
  /\ agg.flushing => ~HasSubject
  /\ Serve
  /\ agg' = [agg EXCEPT !.pc = "look"]
  /\ UNCHANGED <<ring, main, guest, sampler, latch, ports, counted, files, broken, highest>>

\* A window that is not yet written, or not to its end.
Unwritten == [seq |-> agg.seq, stats |-> agg.win, closed |-> FALSE]

\* appendWindow: a record goes to the file in one write, which SIGKILL can cut.
AppendWindow ==
  /\ Started /\ agg.pc = "window"
  /\ files' = [files EXCEPT !.series = Append(@, Unwritten)]
  /\ agg' = [agg EXCEPT !.pc = "close"]
  /\ UNCHANGED <<ring, main, guest, sampler, latch, ports, counted, flush, broken, highest>>

CloseWindow ==
  /\ Started /\ agg.pc = "close"
  /\ files' = [files EXCEPT !.series[Len(files.series)].closed = TRUE]
  /\ agg' = [agg EXCEPT !.pc = "merge", !.seq = @ + 1]
  /\ UNCHANGED <<ring, main, guest, sampler, latch, ports, counted, flush, broken, highest>>

\* fwrite or fflush fails, which nobody looks at: a part of the record is there.
CutWindow ==
  /\ Started /\ agg.pc = "close"
  /\ "series" \in broken
  /\ agg' = [agg EXCEPT !.pc = "merge", !.seq = @ + 1]
  /\ UNCHANGED <<ring, main, guest, sampler, latch, ports, counted, flush, files, broken, highest>>

\* fopen or open_memstream fails: nothing of this window is written, and the
\* next one tries again.  It has its number, and its place in the run, anyway.
LoseWindow ==
  /\ Started /\ agg.pc = "window"
  /\ "series" \in broken
  /\ files' = [files EXCEPT !.series = Append(@, Unwritten)]
  /\ agg' = [agg EXCEPT !.pc = "merge", !.seq = @ + 1]
  /\ UNCHANGED <<ring, main, guest, sampler, latch, ports, counted, flush, broken, highest>>

\* mergeStats, and writeProfile by way of a temporary file and rename.  What
\* the writes return is not looked at: one that was cut short, which is no
\* profile, is renamed over the last one too.
WriteProfile ==
  /\ Started /\ agg.pc = "merge"
  /\ LET run == mergeStats(agg.run, agg.win)
     IN  /\ agg' = [agg EXCEPT !.pc = "look", !.run = run, !.win = NoStats]
         /\ \/ files' = [files EXCEPT !.profile = run]
            \/ "profile" \in broken /\ UNCHANGED files
            \/ "profile" \in broken /\ files' = [files EXCEPT !.profile = None]
  /\ Serve
  /\ UNCHANGED <<ring, main, guest, sampler, latch, ports, counted, broken, highest>>

AggregatorThread ==
  \/ Look \/ Load \/ Read \/ Consume
  \/ ReportDue \/ ReportFlush \/ NoReport
  \/ AppendWindow \/ CloseWindow \/ CutWindow \/ LoseWindow \/ WriteProfile

-----------------------------------------------------------------------------
(* The main thread: waitExitWatch, sampler_exit_signal, flushSamplerIfEnabled *)

\* What the aggregator has counted, and what is in the ring and is not counted.
Recorded ==
  agg.run.samples + agg.win.samples + Len(Stored) - (IF agg.got # None THEN 1 ELSE 0)

GuestExits ==
  /\ Started
  /\ guest
  /\ guest' = FALSE
  /\ UNCHANGED <<ring, main, sampler, latch, ports, counted, agg, flush, files, broken, highest>>

\* The process is gone, and all of its memory.
Leave ==
  /\ main' = [pc |-> "left", asked |-> 0]
  /\ ring' = EmptyRing
  /\ sampler' = NoSampler
  /\ latch' = NoLatch
  /\ ports' = NoPorts
  /\ counted' = 0
  /\ agg' = NoAggregator
  /\ flush' = NoFlush
  /\ highest' = 0
  /\ UNCHANGED <<guest, files, broken>>

flushSamplerIfEnabled ==
  IF flush.running
  THEN /\ main' = [pc |-> "flushing", asked |-> Recorded]
       /\ flush' = [flush EXCEPT !.request = TRUE]
       /\ UNCHANGED <<ring, guest, sampler, latch, ports, counted, agg, files, broken, highest>>
  ELSE Leave

\* NOTE_EXIT: main returns, after a flush.
ExitSeen == main.pc = "waiting" /\ ~guest /\ flushSamplerIfEnabled

\* SIGTERM, SIGINT or SIGHUP, whatever the guest does.
Signal == main.pc = "waiting" /\ flushSamplerIfEnabled

FlushDone == main.pc = "flushing" /\ flush.done /\ Leave

\* kFlushWaitMs have passed.
FlushLate == main.pc = "flushing" /\ ~flush.done /\ Leave

Next ==
  \/ startSampler
  \/ SamplerThread
  \/ AggregatorThread
  \/ GuestExits
  \/ ExitSeen \/ Signal \/ FlushDone \/ FlushLate

\* The aggregator is scheduled, and the report interval passes again and again.
Spec == Init /\ [][Next]_vars /\ WF_vars(AggregatorThread) /\ SF_vars(ReportDue)

-----------------------------------------------------------------------------
SampleOK(s) == s = None \/ (s.tid \in Threads /\ s.kind \in 0 .. 2 /\ s.inRange \in BOOLEAN)

TypeOK ==
  /\ ring.head \in Nat /\ ring.tail \in Nat /\ ring.tail <= ring.head
  /\ main.pc \in {"off", "waiting", "flushing", "left"}
  /\ sampler.pc \in {"off", "tick", "push", "publish", "ended"}
  /\ sampler.thread \in Threads \cup {None} /\ SampleOK(sampler.sample)
  /\ sampler.sweeps \in 0 .. DiscoveryGiveUp
  /\ latch.latched => latch.had
  /\ counted \in 0 .. MaxSamples
  /\ agg.pc \in {"off", "look", "load", "read", "consume", "report", "window", "close",
                 "merge"}
  /\ SampleOK(agg.got)
  /\ broken \in Breakages

\* Each sample taken is in one place: recorded, in the ring, dropped, or in the
\* sampler's hands.
Accounted ==
  main.pc # "left" =>
  counted = Recorded + ring.dropped + (IF sampler.sample # None THEN 1 ELSE 0)

\* The sum of the first n windows of a series; what the profile holds.
Total(series, n) ==
  LET upTo[k \in 0 .. n] ==
        IF k = 0 THEN NoStats ELSE mergeStats(upTo[k - 1], series[k].stats)
  IN  upTo[n]
Profile == IF files.profile = None THEN NoStats ELSE files.profile

\* The profile is the sum of the windows up to the last one or the one before
\* it, and only the last one may not be in the series: that is all SIGKILL can
\* make of them.  A profile that could not be written is older, or none at all.
\* A record that could not be written is missing or cut wherever it stands in
\* the series, which its number shows, and its window is part of the profile
\* all the same.
ProfileIsWindows ==
  main.pc # "off" /\ Windows =>
    LET last == Len(files.series)
    IN  /\ \A i \in 1 .. last :
             /\ files.series[i].seq = i - 1
             /\ files.series[i].closed \/ i = last \/ "series" \in broken
        /\ \E k \in 0 .. last :
             Profile = Total(files.series, k) /\ (k >= last - 1 \/ "profile" \in broken)

\* A flush that was waited for has written all that was in the ring when it
\* was asked for.
FlushComplete ==
  main.pc = "flushing" /\ flush.done /\ "profile" \notin broken =>
    Profile.samples >= main.asked

\* A profile holds no more samples than it says were taken.
NeverOverclaims == main.pc # "off" => Profile.samples <= Profile.measured

\* No right to a thread is leaked, however often the threads are swept, and
\* the one in use is held.
PortsBalanced == \A t \in Threads : ports[t] = IF t = sampler.thread THEN 1 ELSE 0

\* The slow sweeps are for those who have searched in vain for long; a thread
\* that goes quiet is searched for at full speed.
ThrottleEarned ==
  sampler.gaveUp => sampler.thread = None /\ sampler.sweeps = DiscoveryGiveUp

\* The words a sample takes in the ring.
Width(s) == Len(Encode(s))
Widest ==
  CHOOSE n \in {0} \cup {Width(s) : s \in Samples} : \A s \in Samples : Width(s) <= n

\* ring_peak is short of the fullest the ring has been by one sample at most,
\* although the sampler goes on while a drain is under way.
PeakKept == [][Load => highest <= agg'.peak + Widest]_vars

\* The ring is a queue: samples come out as they went in.
Queue == INSTANCE SampleQueue WITH
  Room <- RingWords,
  in <- sampler.sample, queue <- Stored, out <- agg.got, lost <- ring.dropped,
  open <- main.pc # "left"
QueueSpec == Queue!Spec

\* A sample that went in shows in the profile some time, also when its thread
\* is no longer the subject, unless the sidecar leaves first.
Reported ==
  \A n \in 1 .. MaxSamples :
    Recorded = n ~> Profile.samples >= n \/ ~Started \/ "profile" \in broken
                    \/ agg.pc = "off"
=============================================================================
