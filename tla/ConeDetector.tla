---------------------------- MODULE ConeDetector ----------------------------
(* The YOLO node (yolov8_bbox_node.py) and its latest-only worker
   (latest_only_worker.py): image callbacks submit jobs, a thread computes one
   at a time, and the executor commits the results, unless the clock jumped
   back in between.  Times are ticks of the 20 ms retry timer; the executor
   looks at a timer that is due before it takes the next /clock message.      *)
EXTENDS Naturals, Sequences, SequencesExt

CONSTANTS MaxNow,      \* last tick of a clock generation
          MaxEpoch,    \* number of rollbacks of the clock
          Settles,     \* output_commit_settle_sec, chosen from this set
          Period,      \* the LiDAR period less lock_tolerance_sec
          Threshold    \* timestamp_reset_threshold_sec

VARIABLES clock,   \* [now, epoch]: ROS time, and how often it was rolled back
          camera,  \* the one image in the subscription's queue, if any
          yolo,    \* the node: generation, lastTaken, locked, deferred, due
          worker,  \* the worker: pending and running job, completions
          boxes    \* every bounding box message sent: [job, generation]
detectorVars == <<clock, camera, yolo, worker, boxes>>

Frames == [epoch : 0..MaxEpoch, stamp : 0..MaxNow]
Jobs == [generation : 0..MaxEpoch, frame : Frames]

DetectorTypeOK ==
  /\ clock \in [now : 0..MaxNow, epoch : 0..MaxEpoch]
  /\ camera \in {{}} \cup {{f} : f \in Frames}
  /\ yolo.generation \in 0..MaxEpoch
  /\ yolo.deferred \in {{}} \cup {{j} : j \in Jobs}
  /\ worker.pending \in {{}} \cup {{j} : j \in Jobs}
  /\ worker.running \in {{}} \cup {{j} : j \in Jobs}

DetectorInit ==
  /\ clock = [now |-> 0, epoch |-> 0]
  /\ camera = {}
  /\ yolo \in {[generation |-> 0, lastTaken |-> {}, locked |-> FALSE,
                deferred |-> {}, due |-> FALSE, settle |-> t] : t \in Settles}
  /\ worker = [pending |-> {}, running |-> {}, done |-> <<>>]
  /\ boxes = <<>>

(* LatestOnlyWorker.submit: a job that has not started is replaced. *)
Submit(job) == worker' = [worker EXCEPT !.pending = {job}]

(* lidar_locked: a frame is due once a period has passed since the last taken
   one; a stamp far behind it means that the clock was rolled back.           *)
Elected(stamp) ==
  \/ ~yolo.locked
  \/ \A last \in yolo.lastTaken :
       stamp + Threshold < last \/ stamp >= last + Period

ImageCallback ==
  \E frame \in camera :
    /\ camera' = {}
    /\ IF Elected(frame.stamp)
         THEN /\ Submit([generation |-> yolo.generation, frame |-> frame])
              /\ yolo' = IF yolo.locked
                           THEN [yolo EXCEPT !.lastTaken = {frame.stamp}]
                           ELSE yolo
         ELSE UNCHANGED <<worker, yolo>>
    /\ UNCHANGED <<clock, boxes>>

(* From the first cloud stamp on the camera is locked to the LiDAR. *)
CloudStampCallback ==
  /\ ~yolo.locked
  /\ yolo' = [yolo EXCEPT !.locked = TRUE]
  /\ UNCHANGED <<clock, camera, worker, boxes>>

(* The worker's thread: it takes the pending job, and reports it when it is
   computed or has failed.                                                    *)
WorkerTakes ==
  /\ worker.running = {}
  /\ worker.pending # {}
  /\ worker' = [worker EXCEPT !.running = worker.pending, !.pending = {}]
  /\ UNCHANGED <<clock, camera, yolo, boxes>>

WorkerReports ==
  \E job \in worker.running, ok \in BOOLEAN :
    /\ worker' = [worker EXCEPT !.running = {},
                                !.done = Append(@, [job |-> job, ok |-> ok])]
    /\ UNCHANGED <<clock, camera, yolo, boxes>>

(* A result waits until its stamp trails the clock by the settle time. *)
NeedsSettle(job) == /\ yolo.settle > 0
                    /\ job.frame.stamp + yolo.settle > clock.now

Sent(job) == [job |-> job, generation |-> yolo.generation]

(* A bug of this shape: the jump clears what is pending or deferred, and the
   result of the job that was running is not fenced.                          *)
CommitUnfenced(st, completion) ==
  CASE ~completion.ok -> st
    [] completion.ok /\ NeedsSettle(completion.job) ->
         [st EXCEPT !.deferred = {completion.job}]
    [] OTHER -> [st EXCEPT !.boxes = Append(@, Sent(completion.job))]

(* _commit_yolo_completion on the deferred slot and the boxes sent. *)
Commit(st, completion) ==
  LET stale == completion.job.generation # yolo.generation IN
  CASE stale \/ ~completion.ok -> st
    [] ~stale /\ completion.ok /\ NeedsSettle(completion.job) ->
         [st EXCEPT !.deferred = {completion.job}]
    [] OTHER -> [st EXCEPT !.boxes = Append(@, Sent(completion.job))]

(* The guard condition: every completion queued is committed, in order. *)
DrainCompletions ==
  /\ worker.done # <<>>
  /\ LET st == FoldLeft(Commit, [deferred |-> yolo.deferred, boxes |-> boxes],
                        worker.done)
     IN /\ yolo' = [yolo EXCEPT !.deferred = st.deferred]
        /\ boxes' = st.boxes
  /\ worker' = [worker EXCEPT !.done = <<>>]
  /\ UNCHANGED <<clock, camera>>

(* The 20 ms timer: the deferred result goes out when it has settled, and is
   forgotten when the clock was rolled back meanwhile.                        *)
RetryDeferred ==
  /\ yolo.due
  /\ LET stale == {j \in yolo.deferred : j.generation # yolo.generation}
         ripe == {j \in yolo.deferred : ~NeedsSettle(j)} \ stale
     IN /\ yolo' = [yolo EXCEPT !.due = FALSE,
                                !.deferred = @ \ (stale \cup ripe)]
        /\ boxes' = boxes \o SetToSeq({Sent(j) : j \in ripe})
  /\ UNCHANGED <<clock, camera, worker>>

(* _before_clock_jump: a generation ends with the clock that carried it. *)
BeforeClockJump ==
  /\ yolo' = [yolo EXCEPT !.generation = @ + 1, !.deferred = {}]
  /\ worker' = [worker EXCEPT !.pending = {}]

(* ROS time: a tick brings the next image or loses it; a rollback (simulator
   reset, bag loop) leaves an image of the old time in the queue.             *)
Tick ==
  /\ clock.now < MaxNow /\ ~yolo.due
  /\ clock' = [clock EXCEPT !.now = @ + 1]
  /\ yolo' = [yolo EXCEPT !.due = TRUE]
  /\ camera' \in {camera, {[epoch |-> clock.epoch, stamp |-> clock.now + 1]}}
  /\ UNCHANGED <<worker, boxes>>

Rollback ==
  /\ clock.epoch < MaxEpoch
  /\ clock' = [now |-> 0, epoch |-> clock.epoch + 1]
  /\ BeforeClockJump
  /\ UNCHANGED <<camera, boxes>>

DetectorNext ==
  \/ ImageCallback \/ CloudStampCallback \/ DrainCompletions \/ RetryDeferred
  \/ WorkerTakes \/ WorkerReports \/ Tick \/ Rollback

DetectorSpec == DetectorInit /\ [][DetectorNext]_detectorVars

(* What the fusion node caches is the newest box by arrival: so the images of
   one clock generation must be answered in the order they were taken, through
   the worker, the completion queue and the deferred slot, and no answer may
   come from before a rollback.  (An image that was still in the queue at the
   rollback is taken for a new one, and is not meant here.)                   *)
BoxesInOrder ==
  \A i \in DOMAIN boxes :
    /\ boxes[i].job.generation = boxes[i].generation
    /\ boxes[i].job.frame.epoch = boxes[i].generation =>
         \A j \in DOMAIN boxes :
           i < j /\ boxes[j].job.frame.epoch = boxes[i].generation
             => boxes[i].job.frame.stamp < boxes[j].job.frame.stamp
=============================================================================
