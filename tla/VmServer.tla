------------------------------ MODULE VmServer -------------------------------
(***************************************************************************)
(* subnet/rpc/vm: the process that serves a VM to a node.                  *)
(*                                                                         *)
(* The calls of the node are handled concurrently, all under one RwLock    *)
(* around the VM, which is fair: a reader waits behind a writer that came  *)
(* before it.  While it handles a call the VM may send messages to the     *)
(* node's consensus engine, through a channel of limited capacity that a   *)
(* task empties, one notify at a time.  get_ancestors walks from a block   *)
(* to its ancestors and takes the lock anew for each one.  create_handlers *)
(* starts a server per handler; shutdown broadcasts a stop signal to those *)
(* that are subscribed then.  The process ends when its own server has     *)
(* answered what it was called for before the signal.                      *)
(***************************************************************************)
EXTENDS Naturals, Sequences, FiniteSets, SequencesExt

CONSTANTS
  Calls,     \* calls of the node, concurrent ones
  Capacity,  \* of the channel to the engine (100 in the code)
  Top,       \* the block an ancestors call is about has this height
  Limits,    \* max_blocks_num and max_blocks_size of such calls
  BlockLen,  \* length of the block of each height, with its U32_LEN
  MaxSent,   \* bound: messages the VM sends
  MaxServers \* bound: servers for handlers

ASSUME VmServerAssumption ==
  /\ IsFiniteSet(Calls)
  /\ Capacity \in Nat \ {0}
  /\ {Top, MaxSent, MaxServers} \subseteq Nat
  /\ Limits \subseteq [num : Nat, bytes : Nat]
  /\ BlockLen \in [0..Top -> Nat]

VARIABLES
  op,       \* what each call is: "new", "initialize", "read", "write",
            \* "handlers", "ancestors" (a "walk" when the VM does not support
            \* it); "shutdown" takes one step
  at,       \* where it is: "new", "waiting" for the lock, "inside", "sending",
            \* "walking" between two looks at the VM, "answered"
  queue,    \* the calls waiting for the lock, in the order they came
  readers,  \* those who read
  writer,   \* those who write: none or one
  vm,       \* "new", "starting", "ready" or "failed"
  limits,   \* those of the node's calls, one of Limits
  lowest,   \* the VM has the blocks down to this height
  blocks,   \* heights of the blocks each walk has collected
  late,     \* walks that have taken longer than the node allows
  why,      \* why each walk ended
  sent,     \* messages sent so far: they are numbered
  channel,  \* those the task has not received
  notifying,\* the one it is telling the node about, if any
  heard,    \* those the node has heard of
  lost,     \* those whose notify failed
  server,   \* the process' own server: "serving", "told" or "ended"
  handlers  \* the servers of handlers: "serving", "told" or "ended" each

vars == <<op, at, queue, readers, writer, vm, limits, lowest, blocks, late,
          why, sent, channel, notifying, heard, lost, server, handlers>>
calls == <<op, at>>
lock == <<queue, readers, writer>>
walks == <<blocks, late, why>>
engine == <<sent, channel, notifying, heard, lost>>
servers == <<server, handlers>>
static == <<limits, lowest>>

-----------------------------------------------------------------------------
(* The lock.                                                               *)

Writes(c) == op[c] \in {"initialize", "write", "handlers"}

Enqueue(c) == queue' = Append(queue, c) /\ UNCHANGED <<readers, writer>>

\* The lock goes to the first in the queue.
Grant(c) ==
  /\ queue # <<>> /\ Head(queue) = c
  /\ writer = {} /\ (Writes(c) => readers = {})
  /\ queue' = Tail(queue)
  /\ IF Writes(c) THEN writer' = {c} /\ UNCHANGED readers
                  ELSE readers' = readers \cup {c} /\ UNCHANGED writer
  /\ at' = [at EXCEPT ![c] = "inside"]
  /\ UNCHANGED <<op, vm, static, walks, engine, servers>>

Release(c) ==
  readers' = readers \ {c} /\ writer' = writer \ {c} /\ UNCHANGED queue

-----------------------------------------------------------------------------
(* Calls.  batched_parse_block is as many writes at once as it has blocks. *)

\* The node calls initialize first, and only that may come before it is done.
MayCall(o) == IF o = "initialize" THEN vm = "new" ELSE vm = "ready"

Call(c, o) ==
  /\ at[c] = "new" /\ server = "serving" /\ MayCall(o)
  /\ op' = [op EXCEPT ![c] = o]
  /\ at' = [at EXCEPT ![c] = "waiting"]
  /\ Enqueue(c)
  /\ vm' = IF o = "initialize" THEN "starting" ELSE vm
  /\ UNCHANGED <<static, walks, engine, servers>>

Answer(c) == at' = [at EXCEPT ![c] = "answered"] /\ UNCHANGED op

Return(c) ==
  /\ at[c] = "inside" /\ op[c] \in {"read", "write", "handlers", "ancestors"}
  /\ Release(c) /\ Answer(c)
  /\ UNCHANGED <<vm, static, walks, engine, servers>>

\* initialize of the VM may fail; the sender is dropped then.
Initialized(c) ==
  /\ at[c] = "inside" /\ op[c] = "initialize"
  /\ vm' \in {"ready", "failed"}
  /\ Release(c) /\ Answer(c)
  /\ UNCHANGED <<static, walks, engine, servers>>

-----------------------------------------------------------------------------
(* Messages to the engine.                                                 *)

\* What the VM does in a call may end in a send, which waits for room in the
\* channel with the lock held.
BeginSend(c) ==
  /\ at[c] = "inside"
  /\ sent + Cardinality({d \in Calls : at[d] = "sending"}) < MaxSent
  /\ at' = [at EXCEPT ![c] = "sending"]
  /\ UNCHANGED <<op, lock, vm, static, walks, engine, servers>>

Send(c) ==
  /\ at[c] = "sending" /\ Len(channel) < Capacity
  /\ sent' = sent + 1
  /\ channel' = Append(channel, sent + 1)
  /\ at' = [at EXCEPT ![c] = "inside"]
  /\ UNCHANGED <<op, lock, vm, static, walks, notifying, heard, lost, servers>>

Receive ==
  /\ server # "ended" /\ notifying = <<>> /\ channel # <<>>
  /\ notifying' = <<Head(channel)>>
  /\ channel' = Tail(channel)
  /\ UNCHANGED <<calls, lock, vm, static, walks, sent, heard, lost, servers>>

\* Mutant: a notify that failed is repeated after the messages that came later.
Notify_Requeue ==
  /\ server # "ended" /\ notifying # <<>>
  /\ \/ heard' = heard \o notifying /\ UNCHANGED <<lost, channel>>
     \/ channel' = channel \o notifying /\ UNCHANGED <<heard, lost>>
  /\ notifying' = <<>>
  /\ UNCHANGED <<calls, lock, vm, static, walks, sent, servers>>

\* The node is told, or is not: an error is ignored.
Notify ==
  /\ server # "ended" /\ notifying # <<>>
  /\ \/ heard' = heard \o notifying /\ UNCHANGED lost
     \/ lost' = lost \cup {notifying[1]} /\ UNCHANGED heard
  /\ notifying' = <<>>
  /\ UNCHANGED <<calls, lock, vm, static, walks, sent, channel, servers>>

-----------------------------------------------------------------------------
(* get_ancestors, which the VM answers (Return) or leaves to the server.    *)

Bytes(s) == FoldLeft(LAMBDA n, h : n + BlockLen[h], 0, s)
Fits(s) == Bytes(s) <= limits.bytes

Unsupported(c) ==
  /\ at[c] = "inside" /\ op[c] = "ancestors"
  /\ Release(c)
  /\ op' = [op EXCEPT ![c] = "walk"]
  /\ at' = [at EXCEPT ![c] = "walking"]
  /\ UNCHANGED <<vm, static, walks, engine, servers>>

\* The look at the VM for the first block.
BeginWalk(c) ==
  /\ at[c] = "walking" /\ blocks[c] = <<>>
  /\ at' = [at EXCEPT ![c] = "waiting"]
  /\ Enqueue(c)
  /\ UNCHANGED <<op, vm, static, walks, engine, servers>>

EndWalk(c, reason) == why' = [why EXCEPT ![c] = reason] /\ Answer(c)

\* The first block is answered whatever its length; without it the answer is
\* empty.
FirstBlock(c) ==
  /\ at[c] = "inside" /\ op[c] = "walk" /\ blocks[c] = <<>>
  /\ Release(c)
  /\ IF Top >= lowest
     THEN /\ blocks' = [blocks EXCEPT ![c] = <<Top>>]
          /\ at' = [at EXCEPT ![c] = "walking"]
          /\ UNCHANGED <<op, why>>
     ELSE EndWalk(c, "missing") /\ UNCHANGED blocks
  /\ UNCHANGED <<late, vm, static, engine, servers>>

\* The comparison with the time allowed ends the walk when there is time left.
Walk(c) ==
  /\ at[c] = "walking" /\ blocks[c] # <<>>
  /\ IF Len(blocks[c]) < limits.num /\ c \in late
     THEN /\ at' = [at EXCEPT ![c] = "waiting"]
          /\ Enqueue(c)
          /\ UNCHANGED <<op, why>>
     ELSE /\ EndWalk(c, IF Len(blocks[c]) < limits.num THEN "time" ELSE "number")
          /\ UNCHANGED lock
  /\ UNCHANGED <<blocks, late, vm, static, engine, servers>>

\* Mutant: the walk keeps the lock when it goes on.
NextBlock_KeepLock(c) ==
  LET h == Last(blocks[c]) - 1  longer == Append(blocks[c], h) IN
  /\ at[c] = "inside" /\ op[c] = "walk" /\ blocks[c] # <<>>
  /\ IF Last(blocks[c]) = 0 \/ h < lowest
     THEN Release(c) /\ EndWalk(c, "missing") /\ UNCHANGED blocks
     ELSE IF ~Fits(longer)
     THEN Release(c) /\ EndWalk(c, "size") /\ UNCHANGED blocks
     ELSE /\ blocks' = [blocks EXCEPT ![c] = longer]
          /\ at' = [at EXCEPT ![c] = "walking"]
          /\ UNCHANGED <<op, why, lock>>
  /\ UNCHANGED <<late, vm, static, engine, servers>>

\* Mutant: the length is compared before the block is counted.
NextBlock_SizeBefore(c) ==
  LET h == Last(blocks[c]) - 1  longer == Append(blocks[c], h) IN
  /\ at[c] = "inside" /\ op[c] = "walk" /\ blocks[c] # <<>>
  /\ Release(c)
  /\ IF Last(blocks[c]) = 0 \/ h < lowest
     THEN EndWalk(c, "missing") /\ UNCHANGED blocks
     ELSE IF ~Fits(blocks[c]) THEN EndWalk(c, "size") /\ UNCHANGED blocks
     ELSE /\ blocks' = [blocks EXCEPT ![c] = longer]
          /\ at' = [at EXCEPT ![c] = "walking"]
          /\ UNCHANGED <<op, why>>
  /\ UNCHANGED <<late, vm, static, engine, servers>>

NextBlock(c) ==
  LET h == Last(blocks[c]) - 1  longer == Append(blocks[c], h) IN
  /\ at[c] = "inside" /\ op[c] = "walk" /\ blocks[c] # <<>>
  /\ Release(c)
  /\ IF Last(blocks[c]) = 0 \/ h < lowest
     THEN EndWalk(c, "missing") /\ UNCHANGED blocks
     ELSE IF ~Fits(longer) THEN EndWalk(c, "size") /\ UNCHANGED blocks
     ELSE /\ blocks' = [blocks EXCEPT ![c] = longer]
          /\ at' = [at EXCEPT ![c] = "walking"]
          /\ UNCHANGED <<op, why>>
  /\ UNCHANGED <<late, vm, static, engine, servers>>

\* The time the node allows for the walk runs out.
TimeOut(c) ==
  /\ op[c] = "walk" /\ at[c] # "answered" /\ c \notin late
  /\ late' = late \cup {c}
  /\ UNCHANGED <<calls, lock, vm, static, blocks, why, engine, servers>>

-----------------------------------------------------------------------------
(* Handlers and the end.                                                   *)

\* The server of a handler subscribes to the stop signal when it is made.
StartHandler(c) ==
  /\ at[c] = "inside" /\ op[c] = "handlers" /\ Len(handlers) < MaxServers
  /\ handlers' = Append(handlers, "serving")
  /\ UNCHANGED <<calls, lock, vm, static, walks, engine, server>>

Tell(s) == IF s = "serving" THEN "told" ELSE s

\* shutdown does not take the lock.
Shutdown(c) ==
  /\ at[c] = "new" /\ server = "serving"
  /\ op' = [op EXCEPT ![c] = "shutdown"]
  /\ at' = [at EXCEPT ![c] = "answered"]
  /\ server' = Tell(server)
  /\ handlers' = [i \in DOMAIN handlers |-> Tell(handlers[i])]
  /\ UNCHANGED <<lock, vm, static, walks, engine>>

EndHandler(i) ==
  /\ server # "ended" /\ i \in DOMAIN handlers /\ handlers[i] = "told"
  /\ handlers' = [handlers EXCEPT ![i] = "ended"]
  /\ UNCHANGED <<calls, lock, vm, static, walks, engine, server>>

\* The server that was told answers the calls it has before it ends.
EndServer ==
  /\ server = "told"
  /\ \A c \in Calls : at[c] \in {"new", "answered"}
  /\ server' = "ended"
  /\ UNCHANGED <<calls, lock, vm, static, walks, engine, handlers>>

Init ==
  /\ op = [c \in Calls |-> "new"] /\ at = [c \in Calls |-> "new"]
  /\ queue = <<>> /\ readers = {} /\ writer = {}
  /\ vm = "new"
  /\ limits \in Limits /\ lowest \in 0..Top + 1
  /\ blocks = [c \in Calls |-> <<>>] /\ late = {}
  /\ why = [c \in Calls |-> "none"]
  /\ sent = 0 /\ channel = <<>> /\ notifying = <<>> /\ heard = <<>> /\ lost = {}
  /\ server = "serving" /\ handlers = <<>>

\* What a call does by itself once it was made.
Proceed(c) ==
  \/ Grant(c) \/ Return(c) \/ Initialized(c) \/ Send(c)
  \/ Unsupported(c) \/ BeginWalk(c) \/ FirstBlock(c) \/ Walk(c) \/ NextBlock(c)

Next ==
  \/ \E c \in Calls :
       \/ \E o \in {"initialize", "read", "write", "handlers", "ancestors"} : Call(c, o)
       \/ Proceed(c) \/ BeginSend(c) \/ TimeOut(c) \/ StartHandler(c) \/ Shutdown(c)
  \/ Receive \/ Notify
  \/ \E i \in 1..MaxServers : EndHandler(i)
  \/ EndServer

Spec == Init /\ [][Next]_vars

\* The runtime polls every task that can go on, the VM returns from its calls,
\* and the node answers or refuses a notify.
Fairness ==
  /\ \A c \in Calls : WF_vars(Proceed(c))
  /\ WF_vars(Receive) /\ WF_vars(Notify)

FairSpec == Spec /\ Fairness

-----------------------------------------------------------------------------
(* Properties.                                                             *)

Places == {"new", "waiting", "inside", "sending", "walking", "answered"}

\* The types; and the lock is held by exactly the calls that are inside, by
\* one of them alone if that one writes.
TypeOK ==
  /\ op \in [Calls -> {"new", "initialize", "read", "write", "handlers", "ancestors",
                       "walk", "shutdown"}]
  /\ at \in [Calls -> Places]
  /\ vm \in {"new", "starting", "ready", "failed"}
  /\ sent \in 0..MaxSent /\ Len(channel) <= Capacity
  /\ server \in {"serving", "told", "ended"}
  /\ handlers \in Seq({"serving", "told", "ended"})
  /\ readers \cup writer = {c \in Calls : at[c] \in {"inside", "sending"}}
  /\ writer # {} => readers = {} /\ \E c \in Calls : writer = {c}
  /\ ToSet(queue) = {c \in Calls : at[c] = "waiting"} /\ IsInjective(queue)

\* The node hears of the messages in the order the VM sent them, of each at
\* most once, and one that it does not hear of is one whose notify failed or
\* that has not had its turn.
EngineHearsInOrder ==
  LET ahead == heard \o notifying \o channel IN
  /\ \A i, j \in DOMAIN ahead : i < j => ahead[i] < ahead[j]
  /\ ToSet(ahead) \cup lost = 1..sent /\ ToSet(ahead) \cap lost = {}

\* An answer to get_ancestors is the block and then parent after parent, as
\* many as were asked for at most and no more bytes than that, the block
\* itself apart.
AncestorsAreAChain ==
  \A c \in Calls :
    /\ blocks[c] = [i \in 1..Len(blocks[c]) |-> Top - i + 1]
    /\ Len(blocks[c]) > 1 => Len(blocks[c]) <= limits.num /\ Fits(blocks[c])
    /\ \A i \in DOMAIN blocks[c] : blocks[c][i] >= lowest

\* get_ancestors stops for lack of time only if the time has run out.
StopsForTimeWhenLate == \A c \in Calls : why[c] = "time" => c \in late

\* Every call is answered: no walk waits for the lock it holds, and a full
\* channel is emptied whatever becomes of the notifies.
CallsAreAnswered == \A c \in Calls : at[c] # "new" ~> at[c] = "answered"
=============================================================================
