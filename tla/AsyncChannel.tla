---------------------------- MODULE AsyncChannel ----------------------------
(***************************************************************************)
(* Phalcon\Async\Channel, its iterator and ChannelGroup                    *)
(* (ext/async/channel.c), on the fibers of ext/async/task.c.               *)
(*                                                                         *)
(* Fibers are cooperative: one runs at a time, up to its next await.       *)
(* Completing an operation switches to the fiber that awaits it at once;   *)
(* the completing fiber goes on top of the scheduler's list of fibers and  *)
(* continues when the running one suspends.  When the list is empty the    *)
(* event loop runs: timers, context deadlines, fibers that awaited         *)
(* something else.  So a call on a channel is one step, except that        *)
(* closing one hands the processor to every waiter in turn.                *)
(*                                                                         *)
(* Messages are numbered in the order of the calls that send them, and a   *)
(* send operation is named by its message.  A fiber iterates with foreach, *)
(* over an iterator of its own.  Whether a wait has a timer is settled     *)
(* when the timer fires.                                                   *)
(***************************************************************************)
EXTENDS Integers, FiniteSets, SequencesExt

CONSTANTS
  Fibers,
  Loop,         \* the fiber that runs the event loop
  Chans,
  Capacity,     \* buffer.size of every channel
  Rank,         \* the place of every channel in the groups
  Grouped,      \* the fibers that own a ChannelGroup of all the channels
  MaxMsgs,      \* bound on the messages sent
  None

ASSUME ChannelAssumption ==
  /\ IsFiniteSet(Fibers) /\ Loop \notin Fibers /\ Grouped \subseteq Fibers
  /\ IsFiniteSet(Chans) /\ None \notin Chans
  /\ Capacity \in [Chans -> Nat]
  /\ Rank \in [Chans -> Nat] /\ \A c, d \in Chans : Rank[c] = Rank[d] => c = d
  /\ MaxMsgs \in Nat

Msgs == 1 .. MaxMsgs

VARIABLES
  buffer,      \* state->buffer, the oldest message first
  senders,     \* state->senders: the pending send operations
  receivers,   \* state->receivers: fibers in an iterator or in a select
  status,      \* flags & CLOSED and error
  running,     \* the fiber that runs
  stack,       \* scheduler->fibers: interrupted fibers, the last one first
  mode,        \* what a fiber is doing
  msg,         \* the message of its pending send, or 0
  closes,      \* the channel it is closing, or None
  loop,        \* the channel it iterates over, or None
  fresh,       \* it->pos < 0: its iterator waits for a first message
  group,       \* group->entries, which keep their order
  sent,        \* number of messages sent
  fate,        \* history: what became of each message
  got,         \* history: messages taken out of each channel
  uses         \* rigid: the feature of the API that the scripts use

sched == <<running, stack>>
iter == <<loop, fresh>>
vars == <<buffer, senders, receivers, status, running, stack, mode, msg, closes,
          loop, fresh, group, sent, fate, got, uses>>

Modes == {"user", "send", "gsend", "recv", "select", "closing", "valid"}
(* "accepted": in a buffer or with a receiver; "late": the same, but the   *)
(* channel was closed and the group send throws; "discarded": timed out;   *)
(* "closed": send() returns although the channel closed first; "failed":   *)
(* send() throws.                                                          *)
Fates == {"unsent", "pending", "accepted", "late", "discarded", "closed", "failed"}
(* "select": ChannelGroup::select; "deadline": send with a timeout in a    *)
(* context that is cancelled, before it waits or meanwhile.                *)
Features == {"plain", "select", "deadline"}

TypeOK ==
  /\ buffer \in [Chans -> Seq(Msgs)]
  /\ senders \in [Chans -> Seq(Msgs)]
  /\ receivers \in [Chans -> Seq(Fibers)]
  /\ status \in [Chans -> {"open", "closed", "failed"}]
  /\ running \in Fibers \cup {Loop}
  /\ stack \in Seq(Fibers)
  /\ mode \in [Fibers -> Modes]
  /\ msg \in [Fibers -> 0 .. MaxMsgs]
  /\ closes \in [Fibers -> Chans \cup {None}]
  /\ loop \in [Fibers -> Chans \cup {None}]
  /\ fresh \in [Fibers -> BOOLEAN]
  /\ group \in [Grouped -> SUBSET Chans]
  /\ sent \in 0 .. MaxMsgs
  /\ fate \in [Msgs -> Fates]
  /\ got \in [Chans -> Seq(Msgs)]
  /\ uses \in Features

Init ==
  /\ buffer = [c \in Chans |-> <<>>]
  /\ senders = [c \in Chans |-> <<>>]
  /\ receivers = [c \in Chans |-> <<>>]
  /\ status = [c \in Chans |-> "open"]
  /\ running = Loop /\ stack = <<>>
  /\ mode = [f \in Fibers |-> "user"]
  /\ msg = [f \in Fibers |-> 0]
  /\ closes = [f \in Fibers |-> None]
  /\ loop = [f \in Fibers |-> None]
  /\ fresh = [f \in Fibers |-> FALSE]
  /\ group = [f \in Grouped |-> Chans]
  /\ sent = 0
  /\ fate = [m \in Msgs |-> "unsent"]
  /\ got = [c \in Chans |-> <<>>]
  /\ uses \in Features

-----------------------------------------------------------------------------
(* Fibers.                                                                 *)

(* async_fiber_switch(..., ASYNC_FIBER_SUSPEND_PREPEND) *)
SwitchTo(g) ==
  /\ running' = g
  /\ stack' = IF running = Loop THEN stack ELSE <<running>> \o stack

(* async_fiber_suspend: the first of scheduler->fibers, else the loop. *)
Suspend ==
  /\ running' = IF stack = <<>> THEN Loop ELSE Head(stack)
  /\ stack' = IF stack = <<>> THEN stack ELSE Tail(stack)

InUser(f) == running = f /\ mode[f] = "user"

(* The script awaits something outside the channels ... *)
Yield(f) ==
  /\ InUser(f)
  /\ Suspend
  /\ UNCHANGED <<buffer, senders, receivers, status, mode, msg, closes, iter, group,
                 sent, fate, got, uses>>

(* ... and the loop continues it. *)
LoopResumes(f) ==
  /\ running = Loop /\ mode[f] = "user"
  /\ SwitchTo(f)
  /\ UNCHANGED <<buffer, senders, receivers, status, mode, msg, closes, iter, group,
                 sent, fate, got, uses>>

-----------------------------------------------------------------------------
(* Operations in the channels' lists.                                      *)

(* An operation is in a list once at most, and is taken out in place. *)
At(list, x) == CHOOSE i \in DOMAIN list : list[i] = x
Without(lists, x) ==
  [c \in Chans |-> IF Contains(lists[c], x) THEN RemoveAt(lists[c], At(lists[c], x))
                   ELSE lists[c]]
Appended(lists, where, x) ==
  [c \in Chans |-> IF c \in where THEN Append(lists[c], x) ELSE lists[c]]

Closed(c) == status[c] # "open"
HasRoom(c) == Len(buffer[c]) < Capacity[c]

(* The fiber that awaits a send; none when it was cancelled, in which case *)
(* continue_op_task returns without a switch.                              *)
Owners(m) == {f \in Fibers : msg[f] = m}

(* The entries of a group g before c, and the first of some entries. *)
Ahead(g, c) == {d \in g : Rank[d] < Rank[c]}
First(c, g) == c \in g /\ Ahead(g, c) = {}

(* compact_group: drops the closed channels, and the failed one in the     *)
(* slot of the selected one.  What follows a dropped entry moves up, so    *)
(* that it may come to that slot, and out of it, while the loop is there.  *)
Compacted(g, selected) ==
  LET rest == {c \in g : status[c] # "closed"}
      reaches(c) == Cardinality(Ahead(rest, c)) >= Cardinality(Ahead(g, selected))
      fails(c) == status[c] = "failed" /\ reaches(c)
  IN  IF selected = None THEN rest
      ELSE {c \in rest :
              ~ (fails(c) /\ \A d \in Ahead(rest, c) : reaches(d) => fails(d))}

(* The group of r after its select: CHECK_CLOSED is set when the callback  *)
(* of one of its operations ran on a closed channel; c is the channel that *)
(* ends the select, or None.                                               *)
GroupAfterSelect(r, c, selected) ==
  LET calledBack == {d \in group[r] : d = c \/ ~Contains(receivers[d], r)}
  IN  IF \E d \in calledBack : Closed(d) THEN Compacted(group[r], selected) ELSE group[r]

(* A send operation is finished and its message has that fate: its fiber   *)
(* continues, a group send takes its operations out of the other channels. *)
FinishSend(m, becomes) ==
  /\ senders' = Without(senders, m)
  /\ msg' = [f \in Fibers |-> IF msg[f] = m THEN 0 ELSE msg[f]]
  /\ fate' = IF Owners(m) = {} THEN fate ELSE [fate EXCEPT ![m] = becomes]
  /\ \/ Owners(m) = {} /\ UNCHANGED sched
     \/ \E f \in Owners(m) : SwitchTo(f)

(* The mode of every fiber once the send of m is finished. *)
ModeAfterSend(m) == [f \in Fibers |-> IF msg[f] = m THEN "user" ELSE mode[f]]

(* ASYNC_RESOLVE_OP on the first receiver: an iterator gets its entry and  *)
(* foreach runs its body, a select returns and cleans up the rest.         *)
ResolveReceiver(c, m) ==
  LET r == Head(receivers[c])
  IN  /\ receivers' = Without(receivers, r)
      /\ got' = [got EXCEPT ![c] = Append(@, m)]
      /\ mode' = [mode EXCEPT ![r] = "user"]
      /\ fresh' = [fresh EXCEPT ![r] = FALSE]
      /\ group' = IF mode[r] = "select"
                  THEN [group EXCEPT ![r] = GroupAfterSelect(r, c, None)] ELSE group
      /\ SwitchTo(r)

-----------------------------------------------------------------------------
(* Channel::send and ChannelGroup::send                                    *)

NewMsg == sent + 1
Becomes(what) == fate' = [fate EXCEPT ![NewMsg] = what]

(* "Channel has been closed", or a timeout of 0: "early return". *)
SendEnds(f, what) ==
  /\ Becomes(what)
  /\ UNCHANGED <<buffer, senders, receivers, sched, mode, msg, fresh, got>>

(* "Fast forward message to first waiting receiver."  *)
SendToReceiver(f, c) ==
  /\ receivers[c] # <<>>
  /\ ResolveReceiver(c, NewMsg)
  /\ Becomes("accepted")
  /\ UNCHANGED <<buffer, senders, msg>>

(* "Put message into channel buffer." *)
SendToBuffer(f, c) ==
  /\ receivers[c] = <<>> /\ HasRoom(c)
  /\ buffer' = [buffer EXCEPT ![c] = Append(@, NewMsg)]
  /\ Becomes("accepted")
  /\ UNCHANGED <<senders, receivers, sched, mode, msg, fresh, group, got>>

(* Mutant: ASYNC_PREPEND_OP in place of ASYNC_APPEND_OP. *)
SendWaitsPrepends(f, where, kind) ==
  /\ senders' = [c \in Chans |-> IF c \in where THEN <<NewMsg>> \o senders[c] ELSE senders[c]]
  /\ Becomes("pending")
  /\ mode' = [mode EXCEPT ![f] = kind]
  /\ msg' = [msg EXCEPT ![f] = NewMsg]
  /\ Suspend
  /\ UNCHANGED <<buffer, receivers, fresh, group, got>>

(* The operation is appended to the lists of those channels. *)
SendWaits(f, where, kind) ==
  /\ senders' = Appended(senders, where, NewMsg)
  /\ Becomes("pending")
  /\ mode' = [mode EXCEPT ![f] = kind]
  /\ msg' = [msg EXCEPT ![f] = NewMsg]
  /\ Suspend
  /\ UNCHANGED <<buffer, receivers, fresh, group, got>>

(* Mutant: the buffer is tried before the waiting receivers. *)
SendBuffersFirst(f, c) ==
  \/ Closed(c) /\ SendEnds(f, "failed") /\ UNCHANGED group
  \/ /\ ~Closed(c) /\ HasRoom(c)
     /\ buffer' = [buffer EXCEPT ![c] = Append(@, NewMsg)]
     /\ Becomes("accepted")
     /\ UNCHANGED <<senders, receivers, sched, mode, msg, fresh, group, got>>
  \/ ~Closed(c) /\ ~HasRoom(c) /\ SendToReceiver(f, c)

(* The context of a call with a timer is cancelled already: send throws,   *)
(* but the operation is in the list and the timer is to free it.           *)
SendLingers(f, where) ==
  /\ uses = "deadline"
  /\ senders' = Appended(senders, where, NewMsg)
  /\ Becomes("failed")
  /\ UNCHANGED <<buffer, receivers, sched, mode, msg, fresh, group, got>>

(* Whoever would wait: a timeout of 0 ends the call, a cancelled context   *)
(* throws, and without a timer its operation is freed at once.             *)
SendOn(f, c) ==
  \/ Closed(c) /\ SendEnds(f, "failed") /\ UNCHANGED group
  \/ ~Closed(c) /\ (SendToReceiver(f, c) \/ SendToBuffer(f, c))
  \/ /\ ~Closed(c) /\ receivers[c] = <<>> /\ ~HasRoom(c)
     /\ \/ \E what \in {"discarded", "failed"} : SendEnds(f, what) /\ UNCHANGED group
        \/ SendWaits(f, {c}, "send")
        \/ SendLingers(f, {c})

(* A closed channel throws and leaves the group; else the first channel    *)
(* with a receiver or with room gets the message, or all are waited for.   *)
SendOnGroup(f, g) ==
  LET closed == {c \in g : Closed(c)}
      ready == {c \in g : receivers[c] # <<>> \/ HasRoom(c)}
  IN  \/ /\ \E c \in closed : First(c, closed) /\ group' = [group EXCEPT ![f] = @ \ {c}]
         /\ SendEnds(f, "failed")
      \/ /\ closed = {}
         /\ \E c \in ready : First(c, ready) /\ (SendToReceiver(f, c) \/ SendToBuffer(f, c))
      \/ /\ closed = {} /\ ready = {}
         /\ \/ SendEnds(f, "discarded") /\ UNCHANGED group
            \/ g # {} /\ SendEnds(f, "failed") /\ UNCHANGED group
            \/ g # {} /\ SendWaits(f, g, "gsend")

Send(f) ==
  /\ InUser(f)
  /\ sent < MaxMsgs
  /\ sent' = NewMsg
  /\ \/ \E c \in Chans : SendOn(f, c)
     \/ f \in Grouped /\ SendOnGroup(f, group[f])
  /\ UNCHANGED <<status, closes, loop, uses>>

-----------------------------------------------------------------------------
(* ChannelIterator, driven by foreach: rewind, valid, body, next, valid... *)

(* ASYNC_CHANNEL_READABLE_NONBLOCK asks for receivers, not for senders. *)
ReadableNonblock(c) == receivers[c] # <<>> \/ buffer[c] # <<>>
Readable(c) == ~Closed(c) \/ ReadableNonblock(c)

CanFetch(c) == buffer[c] # <<>> \/ senders[c] # <<>>

(* Mutant: a pending send is finished without filling the buffer slot. *)
FetchForgetsSender(c, groups) ==
  LET pending == senders[c] # <<>>
      m == IF pending THEN Head(senders[c]) ELSE 0
      direct == buffer[c] = <<>>
  IN  /\ got' = [got EXCEPT ![c] = Append(@, IF direct THEN m ELSE Head(buffer[c]))]
      /\ buffer' = [buffer EXCEPT ![c] = IF direct THEN @ ELSE Tail(@)]
      /\ group' = groups
      /\ \/ pending /\ FinishSend(m, "accepted")
         \/ ~pending /\ UNCHANGED <<senders, msg, fate, sched>>

(* fetch_noblock: from the buffer, which the first pending send refills,   *)
(* or from the first pending send.  A group send that finds the channel    *)
(* closed throws and compacts its group although its message is taken.     *)
Fetch(c, groups) ==
  LET pending == senders[c] # <<>>
      m == IF pending THEN Head(senders[c]) ELSE 0
      direct == buffer[c] = <<>>
      late == {g \in Owners(m) : Closed(c) /\ mode[g] = "gsend"}
  IN  /\ got' = [got EXCEPT ![c] = Append(@, IF direct THEN m ELSE Head(buffer[c]))]
      /\ buffer' = [buffer EXCEPT ![c] = IF direct THEN @
                                         ELSE IF pending THEN Append(Tail(@), m) ELSE Tail(@)]
      /\ group' = [g \in Grouped |-> IF g \in late THEN Compacted(group[g], None) ELSE groups[g]]
      /\ \/ pending /\ FinishSend(m, IF late = {} THEN "accepted" ELSE "late")
         \/ ~pending /\ UNCHANGED <<senders, msg, fate, sched>>

ModeAfterFetch(c) == IF senders[c] = <<>> THEN mode ELSE ModeAfterSend(Head(senders[c]))

(* fetch_next_entry; first: the iterator has not delivered anything. *)
FetchNextEntry(f, c, first) ==
  /\ loop' = [loop EXCEPT ![f] = c]
  /\ \/ /\ CanFetch(c)
        /\ Fetch(c, group)
        /\ mode' = [ModeAfterFetch(c) EXCEPT ![f] = "user"]
        /\ fresh' = [fresh EXCEPT ![f] = FALSE]
        /\ UNCHANGED receivers
     \/ /\ ~CanFetch(c)
        /\ receivers' = Appended(receivers, {c}, f)
        /\ mode' = [mode EXCEPT ![f] = "recv"]
        /\ fresh' = [fresh EXCEPT ![f] = first]
        /\ Suspend
        /\ UNCHANGED <<buffer, senders, msg, group, fate, got>>

(* The loop ends: valid() is false, or the channel's error is thrown. *)
LeaveLoop(f) ==
  /\ mode' = [mode EXCEPT ![f] = "user"]
  /\ loop' = [loop EXCEPT ![f] = None]
  /\ fresh' = [fresh EXCEPT ![f] = FALSE]
  /\ UNCHANGED <<buffer, senders, receivers, sched, msg, group, fate, got>>

(* getIterator() and rewind() *)
Foreach(f, c) ==
  /\ InUser(f) /\ loop[f] = None
  /\ Readable(c)
  /\ FetchNextEntry(f, c, TRUE)
  /\ UNCHANGED <<status, closes, sent, uses>>

(* next() and the valid() after it; or the script leaves the loop. *)
NextEntry(f) ==
  /\ InUser(f) /\ loop[f] # None
  /\ \/ Readable(loop[f]) /\ FetchNextEntry(f, loop[f], FALSE)
     \/ LeaveLoop(f)
  /\ UNCHANGED <<status, closes, sent, uses>>

(* valid() after a fetch that the closing of the channel has ended; it     *)
(* throws when it would wait and the context is cancelled.                 *)
Valid(f) ==
  /\ running = f /\ mode[f] = "valid"
  /\ LET fetches == fresh[f] /\ Readable(loop[f])
     IN  \/ fetches /\ FetchNextEntry(f, loop[f], TRUE)
         \/ (fetches => ~CanFetch(loop[f])) /\ LeaveLoop(f)
  /\ UNCHANGED <<status, closes, sent, uses>>

-----------------------------------------------------------------------------
(* Channel::close, the destructor of a channel and scheduler shutdown:     *)
(* dispose_state.                                                          *)

Close(f, c, error) ==
  /\ InUser(f)
  /\ ~Closed(c)
  /\ status' = [status EXCEPT ![c] = IF error THEN "failed" ELSE "closed"]
  /\ closes' = [closes EXCEPT ![f] = c]
  /\ mode' = [mode EXCEPT ![f] = "closing"]
  /\ UNCHANGED <<buffer, senders, receivers, sched, msg, iter, group, sent, fate, got, uses>>

Disposing(f) == running = f /\ mode[f] = "closing"

(* The first receiver is an iterator: foreach throws or calls valid(). *)
DisposeIterator(c, r) ==
  LET failed == status[c] = "failed"
  IN  /\ mode[r] = "recv"
      /\ receivers' = Without(receivers, r)
      /\ mode' = [mode EXCEPT ![r] = IF failed THEN "user" ELSE "valid"]
      /\ loop' = IF failed THEN [loop EXCEPT ![r] = None] ELSE loop
      /\ fresh' = IF failed THEN [fresh EXCEPT ![r] = FALSE] ELSE fresh
      /\ SwitchTo(r)
      /\ UNCHANGED group

(* continue_select_cb: an error or the last of its channels ends a select. *)
DisposeSelect(c, r) ==
  LET others == {d \in Chans \ {c} : Contains(receivers[d], r)}
      failed == status[c] = "failed"
  IN  /\ mode[r] = "select"
      /\ \/ /\ failed \/ others = {}
            /\ receivers' = Without(receivers, r)
            /\ mode' = [mode EXCEPT ![r] = "user"]
            /\ group' = [group EXCEPT ![r] =
                 GroupAfterSelect(r, c, IF failed THEN c ELSE None)]
            /\ SwitchTo(r)
         \/ /\ ~failed /\ others # {}
            /\ receivers' = [receivers EXCEPT ![c] = Tail(@)]
            /\ UNCHANGED <<mode, group, sched>>
      /\ UNCHANGED iter

DisposeReceiver(f) ==
  /\ Disposing(f)
  /\ LET c == closes[f]
     IN  /\ receivers[c] # <<>>
         /\ LET r == Head(receivers[c]) IN DisposeIterator(c, r) \/ DisposeSelect(c, r)
  /\ UNCHANGED <<buffer, senders, status, msg, closes, sent, fate, got, uses>>

(* A pending Channel::send returns or throws; a group send always throws   *)
(* and compacts its group (continue_send_cb).                              *)
DisposeSender(f) ==
  /\ Disposing(f)
  /\ LET c == closes[f]
     IN  /\ receivers[c] = <<>> /\ senders[c] # <<>>
         /\ LET m == Head(senders[c])
                failed == status[c] = "failed"
                inGroup == {g \in Owners(m) : mode[g] = "gsend"}
            IN  /\ FinishSend(m, IF failed \/ inGroup # {} THEN "failed" ELSE "closed")
                /\ mode' = ModeAfterSend(m)
                /\ group' = [g \in Grouped |->
                     IF g \in inGroup
                     THEN Compacted(group[g], IF failed THEN c ELSE None)
                     ELSE group[g]]
  /\ UNCHANGED <<buffer, receivers, status, closes, iter, sent, got, uses>>

CloseReturn(f) ==
  /\ Disposing(f)
  /\ receivers[closes[f]] = <<>> /\ senders[closes[f]] = <<>>
  /\ mode' = [mode EXCEPT ![f] = "user"]
  /\ closes' = [closes EXCEPT ![f] = None]
  /\ UNCHANGED <<buffer, senders, receivers, status, sched, msg, iter, group,
                 sent, fate, got, uses>>

-----------------------------------------------------------------------------
(* ChannelGroup::select, the entries in a fixed order.                     *)

(* Closed channels with nothing to read are dropped; the first that failed *)
(* throws, and the entries behind it stay.                                 *)
Survey(g) ==
  LET dead == {c \in g : ~Readable(c)}
      failing == {c \in dead : status[c] = "failed"}
  IN  [throws |-> failing # {},
       entries |-> g \ {c \in dead : Ahead(failing, c) = {}}]

SelectWaits(f, live) ==
  /\ receivers' = Appended(receivers, live, f)
  /\ mode' = [mode EXCEPT ![f] = "select"]
  /\ group' = [group EXCEPT ![f] = live]
  /\ Suspend
  /\ UNCHANGED <<buffer, senders, msg, fate, got>>

(* "Perform a non-blocking select if a channel is ready": the first that   *)
(* looks readable is tried; when that fails the select returns (nothing    *)
(* left, or a timeout of 0) or waits for all the channels.                 *)
Select(f) ==
  /\ uses = "select"
  /\ InUser(f) /\ f \in Grouped
  /\ LET s == Survey(group[f])
         ready == {c \in s.entries : ReadableNonblock(c)}
         fetched == {c \in ready : First(c, ready) /\ CanFetch(c)}
     IN  \/ /\ ~s.throws
            /\ \E c \in fetched :
                 Fetch(c, [group EXCEPT ![f] = s.entries]) /\ mode' = ModeAfterFetch(c)
            /\ UNCHANGED receivers
         \/ /\ s.throws \/ fetched = {}
            /\ group' = [group EXCEPT ![f] = s.entries]
            /\ UNCHANGED <<buffer, senders, receivers, sched, mode, msg, fate, got>>
         \/ ~s.throws /\ fetched = {} /\ s.entries # {} /\ SelectWaits(f, s.entries)
  /\ UNCHANGED <<status, closes, iter, sent, uses>>

-----------------------------------------------------------------------------
(* The event loop, and cancellation.                                       *)

(* timeout_channel_send_cb, timeout_send_cb *)
SendTimesOut(f) ==
  /\ running = Loop
  /\ mode[f] \in {"send", "gsend"}
  /\ FinishSend(msg[f], "discarded")
  /\ mode' = ModeAfterSend(msg[f])
  /\ UNCHANGED <<buffer, receivers, status, closes, iter, group, sent, got, uses>>

(* Mutant: the cleanup after a select leaves its operations in the lists. *)
LeaveReceiversKeepsSelect(f) ==
  /\ receivers' = IF mode[f] = "select" THEN receivers ELSE Without(receivers, f)
  /\ group' = group

(* A context is cancelled by its deadline in the loop, or by a fiber that  *)
(* invokes the CancellationHandler: cancel_op switches at once.            *)
CancelsContext == running = Loop \/ \E g \in Fibers : InUser(g)

(* timeout_select, or a cancelled context: the operation of an iterator is *)
(* reset, those of a select are taken out of their lists.                  *)
LeaveReceivers(f) ==
  /\ receivers' = Without(receivers, f)
  /\ group' = IF mode[f] = "select"
              THEN [group EXCEPT ![f] = GroupAfterSelect(f, None, None)] ELSE group

ReceiveEnds(f) ==
  /\ CancelsContext
  /\ mode[f] \in {"recv", "select"}
  /\ LeaveReceivers(f)
  /\ loop' = IF mode[f] = "recv" THEN [loop EXCEPT ![f] = None] ELSE loop
  /\ fresh' = [fresh EXCEPT ![f] = FALSE]
  /\ mode' = [mode EXCEPT ![f] = "user"]
  /\ SwitchTo(f)
  /\ UNCHANGED <<buffer, senders, status, msg, closes, sent, fate, got, uses>>

(* cancel_op through the context of the call: send throws.  ASYNC_FREE_OP  *)
(* takes the operation out of its list; that of a Channel::send with a     *)
(* timer is freed by the close callback of the timer, later.               *)
SendCancelled(f) ==
  /\ CancelsContext
  /\ mode[f] \in {"send", "gsend"}
  /\ \/ senders' = Without(senders, msg[f])
     \/ uses = "deadline" /\ mode[f] = "send" /\ UNCHANGED senders
  /\ fate' = [fate EXCEPT ![msg[f]] = "failed"]
  /\ msg' = [msg EXCEPT ![f] = 0]
  /\ mode' = [mode EXCEPT ![f] = "user"]
  /\ SwitchTo(f)
  /\ UNCHANGED <<buffer, receivers, status, closes, iter, group, sent, got, uses>>

(* dispose_channel_send_timer_cb *)
TimerClosed(m) ==
  /\ running = Loop
  /\ Owners(m) = {} /\ \E c \in Chans : Contains(senders[c], m)
  /\ senders' = Without(senders, m)
  /\ UNCHANGED <<buffer, receivers, status, sched, mode, msg, closes, iter, group,
                 sent, fate, got, uses>>

-----------------------------------------------------------------------------
(* What a script decides to do ... *)
Call(f) ==
  \/ Send(f) \/ NextEntry(f) \/ Select(f)
  \/ \E c \in Chans : Foreach(f, c) \/ \E error \in BOOLEAN : Close(f, c, error)

(* ... and what the runtime does. *)
Step(f) == DisposeReceiver(f) \/ DisposeSender(f) \/ CloseReturn(f) \/ Valid(f)

Event == \/ \E f \in Fibers : SendTimesOut(f) \/ ReceiveEnds(f) \/ SendCancelled(f)
         \/ \E m \in Msgs : TimerClosed(m)

Next == \/ \E f \in Fibers : Call(f) \/ Step(f) \/ Yield(f) \/ LoopResumes(f)
        \/ Event

Spec == Init /\ [][Next]_vars

(* The runtime goes on, and a script that runs again and again awaits      *)
(* something some day.                                                     *)
FairSpec == Spec /\ \A f \in Fibers : WF_vars(Step(f)) /\ SF_vars(Yield(f))

-----------------------------------------------------------------------------
(* A fiber that waits is in the lists of the channels it waits for, and    *)
(* every operation in a list has a fiber that waits for it: nobody is out  *)
(* of reach, and no message goes to somebody who left (timeouts, deadlines *)
(* and the cleanup of a group).                                            *)
WaitersRegistered ==
  /\ \A f \in Fibers, c \in Chans :
       Contains(receivers[c], f) =>
         \/ mode[f] = "recv" /\ loop[f] = c
         \/ mode[f] = "select" /\ c \in group[f]
  /\ \A f \in Fibers :
       /\ mode[f] = "recv" => Contains(receivers[loop[f]], f)
       /\ mode[f] = "select" => \E c \in Chans : Contains(receivers[c], f)
       /\ mode[f] \in {"send", "gsend"} => \E c \in Chans : Contains(senders[c], msg[f])
  /\ uses # "deadline" =>
       \A m \in Msgs, c \in Chans : Contains(senders[c], m) => Owners(m) # {}

(* Where a message is: in a buffer, or taken out of a channel. *)
Places(m) ==
  LET at(name, lists) ==
        UNION {{<<name, c>>} \X {i \in DOMAIN lists[c] : lists[c][i] = m} : c \in Chans}
  IN  at("buffer", buffer) \cup at("got", got)

(* A message is delivered at most once, and what becomes of it agrees with *)
(* how its send ended: no message is lost after send() put it into the     *)
(* channel, and none arrives whose send timed out or threw.  Two           *)
(* exceptions: a group send on a closed channel (fate "late"), and a send  *)
(* in a cancelled context, before its timer has closed.                    *)
DeliveredOnce ==
  \A m \in Msgs :
    LET times == Cardinality(Places(m))
    IN  /\ times <= 1
        /\ fate[m] \in {"accepted", "late"} => times = 1
        /\ times = 1 => \/ fate[m] \in {"accepted", "late"}
                        \/ uses = "deadline" /\ fate[m] = "failed"

(* No send waits beside a receiver or beside room in the buffer, and no    *)
(* receiver waits beside a message: whoever comes second always finds the  *)
(* first.  Select looks at the wrong list and is excluded.                 *)
Rendezvous ==
  uses # "select" =>
    \A c \in Chans :
      /\ senders[c] # <<>> => receivers[c] = <<>> /\ ~HasRoom(c)
      /\ receivers[c] # <<>> => buffer[c] = <<>>

(* Messages leave a channel in the order of the calls that sent them, also *)
(* when sends time out, are cancelled or belong to a group.                *)
SentInOrder ==
  uses # "select" =>
    \A c \in Chans :
      LET all == got[c] \o buffer[c] \o senders[c]
      IN  \A i, j \in DOMAIN all : i < j => all[i] < all[j]

(* close() returns: dispose_state reaches the end of both lists.  The      *)
(* example examples/async/wsab.php:613 closes a channel that several tasks *)
(* iterate over and then awaits the tasks.                                 *)
CloseReturns == \A f \in Fibers : mode[f] = "closing" ~> mode[f] # "closing"
=============================================================================
