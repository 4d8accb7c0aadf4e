---------------------------- MODULE LogPipeline ----------------------------
(***************************************************************************)
(* The two log systems: "event" (event_log.rs) and "proxy"                 *)
(* (http_proxylogs.rs), which share one design (logs.rs).                  *)
(*                                                                         *)
(* A log macro spawns a task that sends the entry into a bounded channel;  *)
(* one handler task per system stores what it receives, copies the whole   *)
(* storage under the lock, and posts the copy to the UI thread, which      *)
(* replaces the rows of the view.  A clear callback empties the storage    *)
(* and posts an empty view.  Nothing orders the sending tasks, and the     *)
(* handler holds no lock between its copy and its post.                    *)
(*                                                                         *)
(* An entry is a model value: what it says is left out.  The event loop is *)
(* a FIFO of closures; closures for different views commute, so there is   *)
(* one queue per view.  Init is what initialize_application leaves.        *)
(***************************************************************************)
EXTENDS Naturals, Sequences, SequencesExt

CONSTANTS
  EventEntries, ProxyEntries,  \* entries the program may log
  RunEntries,    \* those logged by a task of the proxy's own runtime
  MaxLogs,       \* max_logs
  ChanCap,       \* capacity of each channel (1000)
  ClearButtons,  \* the systems whose clear callback is invoked; the pages of
                 \* this repository have a button for "proxy" only
  MaxClears      \* bound: how often

Systems == {"event", "proxy"}
Entries == EventEntries \cup ProxyEntries
SystemOf(e) == IF e \in EventEntries THEN "event" ELSE "proxy"

ASSUME PipelineAssumption ==
  /\ EventEntries \cap ProxyEntries = {}
  /\ RunEntries \subseteq Entries
  /\ MaxLogs \in Nat
  /\ ChanCap \in Nat \ {0}
  /\ ClearButtons \subseteq Systems
  /\ MaxClears \in Nat

VARIABLES
  task,      \* what became of the task each entry's macro spawned
  runtime,   \* TRUE until the proxy's runtime is dropped
  chan,      \* the mpsc channel of each system
  storage,   \* its LogStorage
  posting,   \* TRUE between the handler's copy and its post
  copy,      \* entries_to_display of the handler
  posted,    \* closures waiting in the event loop, as the rows they set
  shown,     \* the rows of each view: logs and proxy_logs
  clearing,  \* {s} while the UI thread is inside the callback of s
  clears,    \* clicks so far
  (* History, read by no action. *)
  received,  \* the entries each system has received
  cleared,   \* how many of them when its storage was last cleared
  seen,      \* how many of them when the last one ever shown was received
  fresh      \* TRUE if an entry was stored after the last clear step

pipeline == <<task, runtime, chan, storage, posting, copy, posted, shown,
              clearing, clears>>
history == <<received, cleared, seen, fresh>>
vars == <<pipeline, history>>

-----------------------------------------------------------------------------
TypeOK ==
  /\ task \in [Entries -> {"absent", "sending", "sent", "received", "lost"}]
  /\ runtime \in BOOLEAN
  /\ chan \in [Systems -> Seq(Entries)]
  /\ storage \in [Systems -> Seq(Entries)]
  /\ \A s \in Systems : Len(chan[s]) <= ChanCap /\ Len(storage[s]) <= MaxLogs
  /\ posting \in [Systems -> BOOLEAN]
  /\ copy \in [Systems -> Seq(Entries)]
  /\ posted \in [Systems -> Seq(Seq(Entries))]
  /\ shown \in [Systems -> Seq(Entries)]
  /\ clearing \in SUBSET Systems
  /\ clears \in 0..MaxClears
  /\ received \in [Systems -> Seq(Entries)]
  /\ cleared \in [Systems -> Nat]
  /\ seen \in [Systems -> Nat]
  /\ fresh \in [Systems -> BOOLEAN]

Init ==
  /\ task = [e \in Entries |-> "absent"]
  /\ runtime = TRUE
  /\ chan = [s \in Systems |-> <<>>]
  /\ storage = [s \in Systems |-> <<>>]
  /\ posting = [s \in Systems |-> FALSE]
  /\ copy = [s \in Systems |-> <<>>]
  /\ posted = [s \in Systems |-> <<>>]
  /\ shown = [s \in Systems |-> <<>>]
  /\ clearing = {}
  /\ clears = 0
  /\ received = [s \in Systems |-> <<>>]
  /\ cleared = [s \in Systems |-> 0]
  /\ seen = [s \in Systems |-> 0]
  /\ fresh = [s \in Systems |-> FALSE]

-----------------------------------------------------------------------------
(* The macros: event_log!, proxy_log!.  An entry of the proxy's runtime    *)
(* needs that runtime.                                                     *)
Log(e) ==
  /\ task[e] = "absent"
  /\ e \in RunEntries => runtime
  /\ task' = [task EXCEPT ![e] = "sending"]
  /\ UNCHANGED <<runtime, chan, storage, posting, copy, posted, shown,
                 clearing, clears, history>>

(* log_entry: send().await takes a permit when the channel has room.       *)
Send(e) ==
  LET s == SystemOf(e) IN
  /\ task[e] = "sending"
  /\ Len(chan[s]) < ChanCap
  /\ chan' = [chan EXCEPT ![s] = Append(@, e)]
  /\ task' = [task EXCEPT ![e] = "sent"]
  /\ UNCHANGED <<runtime, storage, posting, copy, posted, shown,
                 clearing, clears, history>>

(* The thread of the proxy ends: tasks still on its runtime are dropped.   *)
DropRuntime ==
  /\ runtime
  /\ runtime' = FALSE
  /\ task' = [e \in Entries |->
                IF e \in RunEntries /\ task[e] = "sending" THEN "lost" ELSE task[e]]
  /\ UNCHANGED <<chan, storage, posting, copy, posted, shown,
                 clearing, clears, history>>

-----------------------------------------------------------------------------
(* Variant of AddEntry: the newest goes.                                   *)
AddEntryDropsNew(st, e) ==
  IF Len(st) + 1 > MaxLogs THEN st ELSE Append(st, e)

(* add_entry: push, then remove the oldest if there are more than max.     *)
AddEntry(st, e) ==
  IF Len(st) + 1 > MaxLogs THEN Tail(Append(st, e)) ELSE Append(st, e)

(* The handler receives an entry, stores it and copies the storage, all    *)
(* under the lock ...                                                      *)
Receive(s) ==
  /\ ~posting[s]
  /\ chan[s] # <<>>
  /\ LET e == Head(chan[s])
         st == AddEntry(storage[s], e)
     IN /\ storage' = [storage EXCEPT ![s] = st]
        /\ copy' = [copy EXCEPT ![s] = st]
        /\ received' = [received EXCEPT ![s] = Append(@, e)]
        /\ task' = [task EXCEPT ![e] = "received"]
  /\ chan' = [chan EXCEPT ![s] = Tail(@)]
  /\ posting' = [posting EXCEPT ![s] = TRUE]
  /\ fresh' = [fresh EXCEPT ![s] = TRUE]
  /\ UNCHANGED <<runtime, posted, shown, clearing, clears, cleared, seen>>

(* Variants of Post: it jumps the queue; the handler stops after it.       *)
PostFirst(s) ==
  /\ posting[s]
  /\ posted' = [posted EXCEPT ![s] = <<copy[s]>> \o @]
  /\ posting' = [posting EXCEPT ![s] = FALSE]
  /\ UNCHANGED <<task, runtime, chan, storage, copy, shown,
                 clearing, clears, history>>

PostOnce(s) ==
  /\ posting[s]
  /\ posted[s] = <<>>
  /\ posted' = [posted EXCEPT ![s] = Append(@, copy[s])]
  /\ UNCHANGED <<task, runtime, chan, storage, posting, copy, shown,
                 clearing, clears, history>>

(* ... and, the lock released, posts the copy (update_ui).                 *)
Post(s) ==
  /\ posting[s]
  /\ posted' = [posted EXCEPT ![s] = Append(@, copy[s])]
  /\ posting' = [posting EXCEPT ![s] = FALSE]
  /\ UNCHANGED <<task, runtime, chan, storage, copy, shown,
                 clearing, clears, history>>

-----------------------------------------------------------------------------
(* The UI thread.                                                          *)

(* Where an entry stands in a sequence that holds it.                      *)
Place(q, e) == CHOOSE i \in 1..Len(q) : q[i] = e
End(q, rows) == Place(q, Last(rows))

(* The history of a view that comes to show these rows.                    *)
Notes(s, rows) ==
  seen' = [seen EXCEPT ![s] = IF rows = <<>> THEN @ ELSE End(received[s], rows)]

(* Variant of Apply: the rows are set once only.                           *)
ApplyFirst(s) ==
  /\ clearing = {}
  /\ posted[s] # <<>>
  /\ shown' = [shown EXCEPT ![s] = IF @ = <<>> THEN Head(posted[s]) ELSE @]
  /\ posted' = [posted EXCEPT ![s] = Tail(@)]
  /\ Notes(s, Head(posted[s]))
  /\ UNCHANGED <<task, runtime, chan, storage, posting, copy,
                 clearing, clears, received, cleared, fresh>>

(* The event loop runs the next closure of a view: set_logs or             *)
(* set_proxy_logs with a new model.                                        *)
Apply(s) ==
  /\ clearing = {}
  /\ posted[s] # <<>>
  /\ shown' = [shown EXCEPT ![s] = Head(posted[s])]
  /\ posted' = [posted EXCEPT ![s] = Tail(@)]
  /\ Notes(s, Head(posted[s]))
  /\ UNCHANGED <<task, runtime, chan, storage, posting, copy,
                 clearing, clears, received, cleared, fresh>>

(* on_clear_logs and on_clear_proxy_logs: both closures call               *)
(* set_proxy_logs.                                                         *)
ClearTarget(s) == "proxy"

(* A clear step spoils what the last stored entry said of the view.        *)
Spoil(s) == fresh' = [t \in Systems |-> fresh[t] /\ t \notin {s, ClearTarget(s)}]

ClearStorage(s) ==
  /\ s \in ClearButtons
  /\ clearing = {}
  /\ clears < MaxClears
  /\ storage' = [storage EXCEPT ![s] = <<>>]
  /\ clearing' = {s}
  /\ clears' = clears + 1
  /\ cleared' = [cleared EXCEPT ![s] = Len(received[s])]
  /\ Spoil(s)
  /\ UNCHANGED <<task, runtime, chan, posting, copy, posted, shown,
                 received, seen>>

ClearPost(s) ==
  /\ s \in clearing
  /\ posted' = [posted EXCEPT ![ClearTarget(s)] = Append(@, <<>>)]
  /\ clearing' = {}
  /\ Spoil(s)
  /\ UNCHANGED <<task, runtime, chan, storage, posting, copy, shown,
                 clears, received, cleared, seen>>

-----------------------------------------------------------------------------
SystemStep(s) == Receive(s) \/ Post(s) \/ Apply(s) \/ ClearStorage(s) \/ ClearPost(s)

Next ==
  \/ \E e \in Entries : Log(e) \/ Send(e)
  \/ \E s \in Systems : SystemStep(s)
  \/ DropRuntime

Spec == Init /\ [][Next]_vars

(* The runtime polls ready tasks and the event loop runs what is posted.   *)
(* Channel permits are handed out first come first served, so a task that  *)
(* waits for one gets it however many others send: strong fairness.        *)
Fairness ==
  /\ \A e \in Entries : SF_vars(Send(e))
  /\ \A s \in Systems : /\ WF_vars(Receive(s))
                        /\ WF_vars(Post(s))
                        /\ WF_vars(Apply(s))
                        /\ WF_vars(ClearPost(s))

FairSpec == Spec /\ Fairness

-----------------------------------------------------------------------------
(* Safety.                                                                 *)

(* v is the part of q that ends with its n-th entry.                       *)
EndsAt(v, q, n) ==
  /\ n \in Len(v)..Len(q)
  /\ \A i \in 1..Len(v) : v[i] = q[n - Len(v) + i]

(* What is stored are the last MaxLogs entries received since the storage  *)
(* was cleared, in the order they were received: dropping a single entry   *)
(* per push is enough (logs.rs:33-39), whatever clears come in between.    *)
IsTail(st, q, from) ==
  /\ EndsAt(st, q, Len(q))
  /\ Len(st) = IF Len(q) - from <= MaxLogs THEN Len(q) - from ELSE MaxLogs

StorageIsTail == \A s \in Systems : IsTail(storage[s], received[s], cleared[s])

(* What the view of s will be once the posts on their way are applied.     *)
Upcoming(s) ==
  IF posting[s] THEN copy[s]
  ELSE IF posted[s] # <<>> THEN Last(posted[s])
  ELSE shown[s]

(* One entry repairs the view: if an entry was stored after the last step  *)
(* of a clear, the view is on its way to the storage, however many stale   *)
(* copies are still queued (event_log.rs:159-192).                         *)
ViewConverges == \A s \in Systems : fresh[s] => Upcoming(s) = storage[s]

Quiet(s) == chan[s] = <<>> /\ ~posting[s] /\ posted[s] = <<>> /\ clearing = {}

(* "clear the stored logs ... update the UI" (event_log.rs:198,202;        *)
(* http_proxylogs.rs:198,202): with nothing on its way, the view shows     *)
(* what is stored.                                                         *)
QuietShowsStorage == \A s \in Systems : Quiet(s) => shown[s] = storage[s]

(* It takes a clear to make a quiet view differ from its storage, and the  *)
(* next entry that is stored repairs it: however the tasks, the handlers   *)
(* and the event loop interleave, the difference has no other cause.       *)
QuietUnlessCleared ==
  \A s \in Systems :
    Quiet(s) /\ (fresh[s] \/ clears = 0) => shown[s] = storage[s]

(* Each view shows its reader what LogView promises, although every entry  *)
(* is sent by a task of its own, the rows are copied and posted without a  *)
(* lock over both, and clears post in between (event_log.rs:163-169,175).  *)
EventView == INSTANCE LogView WITH
  Entries <- EventEntries, Limit <- MaxLogs,
  received <- received["event"], view <- shown["event"], seen <- seen["event"]
ProxyView == INSTANCE LogView WITH
  Entries <- ProxyEntries, Limit <- MaxLogs,
  received <- received["proxy"], view <- shown["proxy"], seen <- seen["proxy"]
ViewsKeepOrder == EventView!Spec /\ ProxyView!Spec

-----------------------------------------------------------------------------
(* The facts that make these inductive.                                    *)

(* An entry is where its task says, and there once.                        *)
ReceivedOnce ==
  \A s \in Systems :
    /\ IsInjective(chan[s]) /\ IsInjective(received[s])
    /\ \A e \in ToSet(chan[s]) : SystemOf(e) = s /\ task[e] = "sent"
    /\ \A e \in ToSet(received[s]) : SystemOf(e) = s /\ task[e] = "received"

(* Rows on their way to a view: none, or a part of the entries received, q,*)
(* that does not end before the first n; and no part ends before the one   *)
(* ahead of it.                                                            *)
OnTheWay(rows, q, n) ==
  rows # <<>> => /\ Len(rows) <= MaxLogs
                 /\ EndsAt(rows, q, End(q, rows))
                 /\ n <= End(q, rows)

NotBefore(q, earlier, later) ==
  (earlier # <<>> /\ later # <<>>) => End(q, earlier) <= End(q, later)

InOrder(q, n, queue, more, last) ==
  /\ \A i \in 1..Len(queue) : OnTheWay(queue[i], q, n)
  /\ \A i, j \in 1..Len(queue) : i < j => NotBefore(q, queue[i], queue[j])
  /\ more => /\ OnTheWay(last, q, n)
             /\ \A i \in 1..Len(queue) : NotBefore(q, queue[i], last)

PostsInOrder ==
  \A s \in Systems :
    /\ seen[s] <= Len(received[s]) /\ cleared[s] <= Len(received[s])
    /\ InOrder(received[s], seen[s], posted[s], posting[s], copy[s])

PipelineInv == TypeOK /\ StorageIsTail /\ ViewConverges /\ ReceivedOnce /\ PostsInOrder

-----------------------------------------------------------------------------
(* Liveness (FairSpec).                                                    *)

(* A logged entry is received, even when the channel is full, unless its   *)
(* runtime is dropped first.                                               *)
EveryEntryLands ==
  \A e \in Entries : task[e] = "sending" ~> task[e] \in {"received", "lost"}

(* After an entry was stored the view does get to show the storage, unless *)
(* a new clear interferes.                                                 *)
FreshIsShown ==
  \A s \in Systems : fresh[s] ~> (shown[s] = storage[s] \/ ~fresh[s])
=============================================================================
