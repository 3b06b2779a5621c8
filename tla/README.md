# mpenc_js in TLA+

mpenc_js is a JavaScript library for end-to-end encrypted group chat over an
untrusted group transport.  Its members agree on a key with a multi-party key
agreement, change the membership of the session while it runs, and exchange
causally ordered messages.  This directory holds a model of its core in TLA+,
configurations that check the model with TLC, and proofs about it that TLAPS
checks.

All source paths below are relative to `src/mpenc/` of the repository.

## 1. The system

### 1.1 Parts

| Part | Source | State it keeps | Operations |
|---|---|---|---|
| Server order | `impl/channel.js`, `ServerOrder` | packet ids, chain hashes, initial and final packets of the operations accepted; a blacklist while unsynced | `syncNew`, `tryOpPacket`, `acceptLeavePacket`, `clear` |
| Hybrid session | `impl/session.js`, `HybridSession` | members senior to it, tasks (to exclude, to leave), current and previous sub-session, greeting, own proposal, own operation, `tryDecrypt` | `execute` (join, part, change), receive handlers, promise callbacks, ends of `fin()` |
| Greeter, Greeting | `greet/greeter.js` | the proposed greeting; of a greeting its members, key agreement and whether the own echo was seen | `encode`, `partialDecode`, `decode`, `recv`, `fail` |
| Cliques, SKE | `greet/cliques.js`, `greet/ske.js` | private keys, intermediate keys, the group key; nonces, ephemeral keys, session id, who is authenticated | `ika`, `akaJoin`, `akaExclude`; `commit`, `join`, `exclude`; `upflow`, `downflow` |
| Group channel | `impl/channel.js`, `BaseGroupChannel` | members of the channel, promises that wait for a change of them | `recv`, `execute` |
| Channel server | `impl/dummy.js`, `DummyGroupServer` | members, one receive queue per client | `recv`, `send` |
| Trial buffer | `helper/struct.js`, `TrialBuffer`, `TrialTimeoutTarget` | parameters that could not be handled yet, with timeouts | `trial`, `retryAll` |
| Session base | `impl/session.js`, `SessionBase` | transcript, `tryAccept` buffer, acks, consistency monitor, state machine | `sendObject`, `recv`, `fin`, `stop` |
| Transcript | `impl/transcript.js`, `BaseTranscript` | messages by id, their parents, contexts, unacked sets | `add`, queries of the causal order |
| Message log | `impl/transcript.js`, `DefaultMessageLog` | a linear order over the messages of several transcripts | `getSubscriberFor`, queries |
| Liveness | `impl/liveness.js` | one monitor per message that is not fully acked | `expect`, `stop` |
| Async helpers | `helper/async.js` | subscriptions, event contexts, `PromisingSet`, `Timer`, `Monitor` | `publish`, `awaitDiff`, `after`, `pause`, `resume`, `reset` |
| Send queue | `impl/applied.js`, `LocalSendQueue` | own messages that are not fully acked, which of them may be resent | `send`, event handlers |
| Message security, codec | `message.js`, `codec.js` | none beyond keys | encrypt, decrypt, TLV |

### 1.2 How they interact

A `HybridSession` listens to one group channel.  Control packets (who entered,
who left) and greeting packets are public; session messages are encrypted for
one sub-session.  A packet goes through `_recvMain`: control packets update the
channel's records and the tasks; greeting packets are summarised by the
`Greeter` and shown to the `ServerOrder`, which accepts at most one operation at
a time, in the order of the server's echoes; an accepted initial packet starts
a `Greeting`, whose answers go back to the channel; the final packet settles the
greeting's promise, and *its callback*, after the task, replaces the
sub-session.  What is received in between is stashed in `tryDecrypt`.  The
departure of a member of the running operation ends it: the order records a
pseudo-packet, the greeting fails, and its callback clears it.

### 1.3 What is hard

JavaScript runs a task to its end, so there are no data races, but every task
leaves state for later tasks to find: promise callbacks, timeouts of `fin()`,
packets on their way to the server and back.  Operations compete; members
leave in the middle of them; who enters sees only the tail of the history;
a member acts on its own at the same time as others act on it.  The list of
`hazards` in `PROJECT.json` names each of these at its line.

### 1.4 What makes each part correct

- **Server order**: at most one operation at a time; a history that is only
  extended, until the channel is left; chain hashes that commit to all of it.
- **Greeting**: all members of a session id have the same members; nobody enters a
  session somebody in it cannot follow; every greeting ends.
- **Hybrid session**: order and greeting tell the same; members with the same
  history are in the same session; whoever left the channel leaves the session,
  and the reverse; no handler fails an assertion.
- **Transcript, session base**: delivery in causal order, no message delivered
  twice, `MsgFullyAcked` only when everybody has the message, what is cached about
  the order (contexts, `unackby`) tells the same as the graph of messages does, no
  member refuses what another sent, payloads are acked without anybody's doing.
- **Trial buffer**: whatever can be handled is handled, whatever waits has a reason.
- **Message log**: shows the causal order of the payloads alone, whatever lies
  between them.
- **Key agreement**: the members of a session have the same key and id, and what each
  keeps fits what the others keep, whoever starts the next operation.
- **Send queue**: a message stays queued until everybody has it or another takes its
  place, is sent again only in the context it was written in, and is not forgotten.
- **Async helpers**: nobody is called after cancelling; an expected event and its
  timeout exclude each other; a monitor that runs has one call scheduled.

## 2. The model

| Module | Models | Form |
|---|---|---|
| `OpChain` | what a server order promises | abstract specification over two sequences |
| `ServerOrder` | class `ServerOrder` | an object is a record, a method an operator |
| `ServerOrderClient` | one object and any sequence of calls on it | specification, invariants, inductive invariant |
| `ServerOrderClient_proofs` | | TLAPS proofs |
| `Greeting` | `Greeting` with Cliques and SKE, without the keys | a greeting is a record, a method an operator |
| `ChannelServer` | `DummyGroupServer` | server's variables and actions |
| `HybridSession` | `HybridSession`, `Greeter`, `BaseGroupChannel`, `tryDecrypt` of one client | a client is a record, a handler an operator |
| `GroupSession` | clients and server together | one action per task, callback, timeout, user's call |
| `GroupProperties` | | properties of the group |
| `GroupSession_proofs` | | TLAPS proofs |
| `CausalBroadcast` | what transcripts promise | abstract specification over the sequences of accepted messages |
| `Transcript` | `BaseTranscript`, the traversals of `helper/graph.js` | a transcript is a record, a method an operator |
| `MessageLog` | `DefaultMessageLog` | likewise |
| `SessionBase` | `SessionBase`, `DefaultConsistencyMonitor`, `TrialBuffer` with `TrialTimeoutTarget` | a session is a record, a method an operator |
| `SessionGroup` | the members of a session and their transport | one action per message, timer, user's call |
| `SessionProperties` | | properties of the session |
| `Transcript_proofs` | | TLAPS proofs about the operators of `Transcript` and `MessageLog` |
| `SessionGroup_proofs` | | TLAPS proofs |
| `LocalSendQueue` | `LocalSendQueue`, and what of `HybridSession` changes the sub-session it sends in | a queue with its sessions is a record, a method an operator |
| `QueuedSession` | a user, the queue, the others' messages, timers | one action per event |
| `QueueProperties` | | properties of the queue |
| `Observables` | `Subscribe`, `Observable`, `EventContext`, `Timer`, `Monitor`, as far as they call nobody | the objects are a record, a method an operator |
| `Callbacks` | the loops that call subscribers, and what those may do | one action per step of a loop, call, or use of an object |
| `CallbackProperties` | | properties of the callbacks |
| `Callbacks_proofs` | | TLAPS proofs |
| `EventNodes_proofs` | | TLAPS proofs about the nodes of event contexts |
| `Cliques`, `SignatureKeyExchange` | `CliquesMember`, `SignatureKeyExchangeMember` | a member is a record, a method an operator |
| `KeyAgreement` | `Greeter`, `Greeting`, `GreetStore` of a group, with keys | one action per proposal, packet, departure; with properties |
| `KeyAgreement_proofs` | | TLAPS proofs |
| `SummaryAgreement_proofs` | | TLAPS proofs that `Greeting` tells the same as `KeyAgreement` |
| `MCServerOrder`, `MCGroup`, `MCSessionGroup`, `MCQueue`, `MCCallbacks`, `MCKeyAgreement` | | instances for TLC |

There are five compositions.  `GroupSession` shows how the members of the session
change, by the greetings between sub-sessions; `SessionGroup` the messages within one
sub-session; `QueuedSession` one user's messages over several sub-sessions, on top of
the modules of `SessionGroup`; `KeyAgreement` the keys that the greetings agree on; and
`Callbacks` the helpers by which all of these call each other.

They meet in the code where `HybridSession` creates, ends and stops sub-sessions.  Each
model has its part of that as a step of its own: `PrevFin` and `PartFin` in
`GroupSession`, `Finish` and `FinEnds` in `SessionGroup`, `MembersChange` in
`QueuedSession`, where a session ends.  `KeyAgreement` runs the operators of `Greeting`,
which `GroupSession` uses, next to those with keys, on the same packets, and
`SummariesAgree` says that the two tell the same: that `Greeting` may leave out the keys is
checked, and proved (4.3).

`HybridSession` EXTENDS `ServerOrder`, `Greeting` and `ChannelServer`;
`GroupSession` turns its operators into actions:

| Action | Code |
|---|---|
| `ServerStep(c)` | `DummyGroupServer.recv` of the oldest packet of `c` |
| `Deliver(c)` | `BaseGroupChannel.recv`, then `HybridSession._recv` |
| `Micro(c)` | one promise callback: `_setGreeting`, `_setOwnProposal`, `_setOwnOperation`, the chain of `_changeMembership` |
| `Retry(c)` | one item of `TrialBuffer.retryAll`, started by `_clearGreeting` or by a success |
| `Join(c)`, `Change(c, i, e)`, `Part(c)` | `execute` |
| `PartFin(c)`, `PrevFin(c)` | the end of `fin()`, by consistency or by its timeout: `onFin` of `_excludeSelf`, `_onPrevSessionFin` |
| `Disconnect(c)` | the transport loses a member |

`SessionBase` EXTENDS `MessageLog`, which EXTENDS `Transcript`; `SessionGroup` turns
its operators into actions:

| Action | Code |
|---|---|
| `Send(c, body)` | `sendData`, `sendObject`, with everything `_add` does |
| `Receive(c, m)` | `recv`, with the trial of the message and the retries that follow |
| `Ackmon(c, m)` | the monitor of a message: `_checkKey`, `_handleUnackedByOwn` |
| `Timeout(c, m)` | the timeout of a message that waits for its parents |
| `Finish(c)`, `FinEnds(c)` | `fin()` and its `_pubFin`, on a timeout or after full ack |

`LocalSendQueue` EXTENDS `SessionBase`; `QueuedSession` turns its operators into actions:

| Action | Code |
|---|---|
| `UserSends`, `UserResends(i)` | `LocalSendQueue.send`, for the first time and in place of a message |
| `PeerSends(i, peer, parents, body)` | `SessionBase.recv` of a message of another member, in the current session or the one before |
| `Ackmon(i, m)`, `FullAckOverdue(i, m)` | the timers of a message: its monitor, and the warning that a full ack is overdue |
| `UserParts`, `FinEnds(i)` | `fin()` by `_excludeSelf`, its `_pubFin` |
| `MembersChange` | `_changeSubSession`, with `fin()`, `stop()` and cancelling of the sessions before, `_makeSubSession`, and `SNMembers` |

`Callbacks` EXTENDS `Observables`; its stack has a frame for each loop and call in progress:

| Action | Code |
|---|---|
| `PublishStep`, `NodeStep`, `TickStep` | a step of `Observable.publish`, `_ObservableNode.pubDeep`, `Timer._runTick`: the next call, node or tick, or the end |
| `RunTick` | `Timer._runTick`, called by the event loop |
| `Publish` | `EventContext.publish`, from outside or from within a call |
| `Observe` | `EventContext.subscribe`: the nodes are made, and the Subscribe is returned |
| `Subscribe`, `Cancel` | the use of such a Subscribe, and of `Timer.after`, with `once`, `untilTrue`, `withBackup`; their cancellers |
| `DriveMonitor` | `pause`, `resume`, `reset`, `stop` |
| `Return` | the call ends; of a monitor, what `_run` does then |

`KeyAgreement` EXTENDS `Cliques` and `SignatureKeyExchange`:

| Action | Code |
|---|---|
| `Start(c, route)`, `Include(c, route)`, `ExcludeMembers(c, others)` | `Greeter.encode` with `start`, `include`, `exclude` of `Greeting` |
| `Accept(p)` | `Greeter.decode` and `Greeting.recv` of the initial packet, at everybody |
| `Receive(pkt)` | `Greeting.recv` of another packet, at everybody |
| `Leave(c)` | a member leaves; `Greeting.fail` at everybody if it is to be in the next session |

### 2.1 Abstractions

- A hash is the value it commits to; a packet id contains what is hashed into
  it, with the members of the channel as the receiver sees them.  Keys, nonces
  and signatures are symbolic: a session id is the pair of the proposal and of
  the greeting whose nonces complete it.  Nobody forges packets.
- Of a sub-session's messages only the leave-intent (two final Consistency
  messages in a row) is a packet; that `fin()` ends, by acks or by a timeout, is a
  step that may come at any time afterwards.
- A failed assertion, a null dereference or another exception in a handler is a
  value of the field `fubar`, after which the client does nothing; the
  invariant `NoAssertionFails` says that there is none.  The real handler would
  be cut short and the client go on with what it had.
- A client's callbacks run directly after the task that caused them, and what
  others do meanwhile commutes with them (they change the client's own record
  and append to its own packets); the actions of the others therefore wait for
  them (`Quiet`), and the properties are stated of clients with no callback
  pending (`Ready`).
- With `sync` a transport may hand over several packets within
  one task, so that a packet can precede the callbacks of the one before; this
  is when packets pass through `tryDecrypt`.
- Left out: refresh, signatures of greeting packets, encoding, logging,
  `onSend`/`onRecv` of messages, timeouts of `tryDecrypt` items (they only publish
  an event).

Of the messages within a session:

- A message is named by its author and its number; it carries what `Message` has,
  its body only one of payload, explicit ack, consistency, fin.  Decryption within
  the session succeeds; what a peer with the session's keys could forge is no part
  of the model.
- Whatever is in its author's transcript was published to the transport, and may
  arrive at any member at any time, any number of times, or never: this is loss,
  repetition, delay and reordering at once.
- The members of a session are constant and all read each message, as
  `HybridSession` uses the class.  `add`'s merging of the parents' members then
  leaves its check that no parent is an ancestor of another, and the search
  `_le_expensive` is never needed (it is in `Le`, as in the code).
- `_authorIndex` and `_authorMessages` are read off the log, in which one author's
  messages have the same order.
- `retryAll`'s repetition until nothing succeeds is a pass over the buffer
  (`RetryOnce`) repeated as often as the buffer is long, which is as often as it can
  succeed (`RetryAllFacts` proves that this is enough).
- Timers fire at any time after they were set, in any order.  Warnings that are
  only published (`NotFullyAcked`) are left out; of `NotAccepted` the timer is kept.
- A failed assertion sets `fubar`; a refused message is recorded in `invalid`
  instead of the log.
- Left out of `SessionGroup`: what happens to a session when the members change, which
  `QueuedSession` has.

Of the queue:

- What messages say is left out; `tweakResentContent` is the identity, and logical
  members (`resolveLogicalMembers`) are the users whose devices the members are.
- Of the others' messages those are enumerated that `add` accepts: their parents are any
  messages of the transcript none of which is an ancestor of another, so that also what
  others send to each other first is covered.  Which messages the proposer of a change had
  accepted (the metadata's parents) is any such set as well.
- `toSend`, `activeSent` and `mayResend` are one sequence of records.  `_find` gives the
  place 0 if there is none; the handlers then throw (`_activeSent[-1]`) before they change
  anything, which the publisher reports and goes on.
- An assertion that fails is recorded in `failed`, with what had changed before.
- Timers of sessions that were stopped or detached, whose only effect would be in
  themselves, do not fire.

Of the callbacks:

- A node is known by its path and by the Subscribes that it and those above it were made
  for, so that one that was deleted is told from one that is made in its place.  A
  Subscribe may be used any time after it was made, any number of times, or never.  Nobody
  in `src/` keeps one over an event (`impl/session.js:231` and all others use it at once),
  and nobody calls `activeChildren`, which makes nodes like a Subscribe that is never used.
- If the canceller that `once` or a backup calls first throws (`_cleanChild`), the
  subscriber counts as called, though the wrapper ends there.
- What is subscribed is known by its registration; what a subscriber does is open: it may
  use any object, any number of times (within the bounds), and return anything.
- The timer's clock goes by one tick at a time (`_realNow` may go on by several, which
  `_runTick` then runs one after the other).
- A monitor is driven from outside its own action, which is how all code here uses it.
  (From within, `reset` leaves a call scheduled that nothing can cancel and `pause` is
  undone by `_run`, `helper/async.js:1011`.)
- `publish` of an event is not nested in another with the same prefix, but for the class
  alone: `pubDeep` of the inner one ends the outer one's protection of the node
  (`_publishing`), and the assertion at `helper/async.js:640` fails.

Of the key agreement:

- An x25519 value is known by how often each private key was multiplied into it; key
  derivation, hashes and signatures are what they are computed from, so that they agree only
  if that does.  A client's draws of random values are numbered.
- The arrays parallel to `members` are functions from members.  The order of the members
  matters only for who comes next in an upflow: messages carry it as a route.
- The server orders packets, and a member does nothing between two packets that another
  could notice; so one step delivers a packet to all, in the order in which the
  actions come.  Packets that were sent but not ordered are a set, `flight`.
- Proposals are made by members of the session, or by anybody if there is none, and the
  first to be ordered wins, as `ServerOrder` has it.  A proposal of which a member has left is
  not accepted ([rule XP]).
- Packets of an aborted operation are discarded.  In the code they may be taken for those
  of the next one, which run `stale_packet` is about.
- Excluded members' stores are dropped when the operation is complete, as
  `HybridSession` makes them leave.
- The assertions of Cliques' `downflow` about the members of a message
  (`greet/cliques.js:380-389`) and `recv`'s check of its metadata (`greet/greeter.js:1628-1639`)
  are left out.  In the model a message has a key for each of its members, only these handle it
  (`ProcessMessage`), and that they are the members of the proposal is what `_maybeFulfill` checks
  of the exchange, which takes them from the same message; that they are those Cliques had before
  is not checked.  The metadata tell a repeated initial packet from others, of which `flight` has none.
- A session has at least two members: `getResultState` of a greeting that leaves one is
  dropped by `_changeSubSession`.

### 2.2 Constants and bounds

Every composition but `KeyAgreement` has a constant `Scenarios`, a set of records, in one
of which a behaviour starts.  In `GroupSession` a scenario names the founders (who is in
the session at first, having finished the operation that made it) and bounds what users
and the transport do: how often clients enter (`enters`), ask for a change (`ops`), part
(`parts`) and lose their connection (`disconnects`); which of these each client may do
(`may`), whom changes are about (`whom`), the clients' `options`, whether they start an
operation during another or join where they are (`habits`), and whether the transport
delivers several packets per task (`sync`); `Scenario` is the set of these records
(`ScenariosAssumption`), and `Client` is any finite set (`ClientAssumption`).  When, who and whom is open if not said
otherwise, and everything the library does by itself is unbounded.  Three clients are the
fewest for an operation to have a proposer, a bystander and a member it adds or
removes, and for an upflow of one and a downflow to two.  Two operations are what
it takes to compete, or for one to depend on the other.  With `sync` a packet may still be delivered after the callbacks of the one before, so that
these scenarios contain the same ones without it.  The last is that of the test
`pendingGreetPP order-of-processing logic` (`test/mpenc/session_test.js:521-565`).  The capacity
`Asynchronity` of `tryDecrypt` is 3 items, as `TypeOK` says.

The scenarios of `membership`, as founders / enters, ops, parts, disconnects:

| Scenario | What it is for |
|---|---|
| a b / 0 2 0 0 | two changes at any time by either member |
| a b / 0 1 0 1 | a disconnection at any point of a change |
| a / 1 1 0 0 | an entrant while the founder makes a change |
| a b c / 0 0 1 0 | a member parts: both others propose its exclusion, `fin()` ends at any time |
| a b / 1 0 1 0 | parting with somebody entering, or the same member entering again |
| a b c / 1 1 0 0 | an exclusion, with the excluded member entering again |
| a b c / 1 0 0 1 | b or c is disconnected, and may enter again |
| a b / 1 1 0 0, `sync` | a change with somebody entering, over a transport that delivers several packets per task |
| a b c / 0 0 1 0, `sync` | a parts over such a transport |
| a b c / 1 0 0 1, `sync` | a is disconnected and may enter again, over such a transport, while the others exclude it |
| a / 2 0 1 0, a / 1 0 0 1, both `options` | who enters is included by itself, who parts or is disconnected is excluded, who is alone stays |

A scenario of `SessionGroup` names the members of a session, the kinds of messages
users send (`bodies`), how many they send in all (`sends`) and how often they
call `fin()` (`fins`).  Acks sent by monitors are unbounded, but end by
themselves.  `causal_order` has two payloads between three members, which is what
it takes for an ack to reach one member before what it acks, for two messages
to be concurrent and a third to have both as parents, and for a message to wait
for another that waits itself; and two payloads and one `fin()` between two
members, for full acks, monitors and `stop()` at every moment.  `acknowledgement`
has one payload between three, and payloads, consistency messages, empty messages
(acks by the user) and a `fin()` between two.  `MaxBuffer`, at least 64 in the
code, is 2, so that the buffer overflows.  The members are symmetric in
`causal_order` (`AnyMember`); the liveness run uses no symmetry.

A scenario of `QueuedSession` says how often the user sends and sends again, how often and
what others answer, whether the user parts, and which sessions follow one another
(`changes`, {} if there is none): somebody comes and goes, a user changes the device, the
owner leaves and comes back.  One or two messages of its own are what it takes for the order in
the queue to matter; `MaxBuffer` is 1, since messages of others are those that can be
accepted.

A scenario of `Callbacks` names what may be subscribed to, published and scheduled, and how
often: two Subscribes for prefixes of one event, which are used twice, kept, or used again
after their nodes were deleted; the same with an event that is published
while another is; one with a backup in the timer; three scheduled calls; and a monitor with one other
call.  Each has all ways of subscribing, cancelling and publishing from within calls.

`key_agreement` has four clients and lets each draw random values twice (`MaxDraws`), that
is, contribute to two operations, proposals that come to nothing included: a session of three or four,
made in any order, then any inclusion, exclusion, or both, with departures at any time.
Clients are symmetric.

### 2.3 Runs

Passing:

| Run | States | Shows |
|---|---|---|
| `server_order` | 119 | one order under all interleavings of 13 packets, departures and re-entries: inductive invariant, refinement of `OpChain` |
| `membership` | 255 k | safety of the group in the twelve scenarios above |
| `endings` | 62 k | liveness with a change and a disconnection, a member of three that parts, an exclusion from three, a change and an entry, and the options |
| `causal_order` | 39 k | safety of the messages within a session, refinement of `CausalBroadcast` |
| `acknowledgement` | 34 k | in the end every message is accepted and every payload acked |
| `send_queue` | 60 k | nothing queued is lost, forgotten, or sent in another context, over changes of members |
| `callbacks` | 1.48 M | who is called, and when, if those who are called subscribe, cancel, publish |
| `key_agreement` | 45 k | keys agree and stores fit, over operations that compete, complete and fail |

`server_order` is small because a packet's reference to the operation before it
leaves few orders to accept them in; it still contains competing proposals,
proposals that follow a departure, two candidates for one final packet, and
operations of a single packet.

Properties, in `GroupProperties`:

- `ServerOrderAgreement`: members of each other's sessions have histories one of
  which extends the other.  A member that an operation excluded is not bound by
  it: it ignores the confirmations (they are not final packets to it) and may
  take somebody's departure for the end of the operation.
- `OrderDeterminesSession`, `SessionAgreement`, `KeyConfirmation`: same history, same
  session; same session id, same members; a member enters a session only when the
  others hold its key.
- `OngoingHasGreeting`, `AbsentAreExcluded`: the records of one client fit together
  and fit the channel.
- `OrdersAreHistories`: within the group each client's order makes only steps of
  `OpChain`, as `ServerOrderClient` shows it for arbitrary packets.
- `NoAssertionFails`: no handler is cut short, in the scenarios of `membership`, whatever
  order packets, callbacks and departures come in there.  It is not so in all scenarios:
  operations that meet a disconnection or one another over a transport that delivers several
  packets per task, overlapping operations of one user, entrants that meet with
  `autoIncludeExtra`, and what else section 3 lists are left out of `membership`.
- Liveness: `GreetingEnds`, `Converge`, `ParterLeaves`, `ExcludedLeave`, and with
  the options `EntrantsIncluded`.

Properties, in `SessionProperties`:

- `DeliversCausally`: the sequences of accepted messages make only the steps of
  `CausalBroadcast`, whatever the transport does: nothing before what its author
  had accepted, nothing twice, no order revised.
- `FullyAckedByAll`: an ack is evidence about another member's state: what one
  member takes for fully acked is in every other's transcript.
- `UnackedAreUnanswered`, `OrderIsReachability`: what `add` caches (`unackby`, the
  contexts `le` reads) against references computed from the graph alone: the
  search `suc_ruId` does, and reachability over parents.
- `NothingRefused`: no member's own message fails a check of another's `add`, no
  assertion fails in `stop`, `fin` and the monitors.
- `OnlyUnreadyWait`: after any step of any member the buffer holds only messages
  with a parent missing, and no timeout of an accepted message runs.
- `LogShowsPast`: the effective parents the user sees are the maximal earlier
  payloads and are in the log already.
- Liveness: `EveryoneAccepts` (messages dropped by a full buffer arrive again, as
  the fairness below says), `PayloadsAcked` (as long as nobody has called `fin()`,
  whose end stops that member's monitors).

Properties, in `QueueProperties`:

- `QueueHoldsUnacked`: what is queued is what is not fully acked and was not replaced,
  though acks come from several sessions and messages change their ids when sent again.
- `NoneIsForgotten`: of everything queued the user was told that it may be lost, and it is
  tried again, or its session is still there to tell.
- `SentInContext`: what was sent, or sent again, comes after the same messages of others as
  when it was written, to the same users, and in the order of writing.
- `LogSpansSessions`: the log's parents against a reference over the transcripts of all
  sessions and what each session was created from.
- `AckedInOrder`: the assertion of `_onFullyAcked` that full acks of one session come in order.

Properties, in `CallbackProperties`:

- `CallsAreDue`: nobody is called after cancelling, `once` means once, `untilTrue` ends.
- `BackupExcludesPrimary`: of an expected event and its timeout one comes, or with
  `allowRecover` the event after the timeout.
- `TimerLosesNothing`: what was scheduled for a tick is called or was cancelled.
- `NodesMatchSubscriptions`: a subscriber is found from the root of the event context at any
  time, whatever was deleted since, unless it used a Subscribe whose node had been deleted
  already, and then never; nodes that had subscribers do not stay without when nothing is being published.
- `OneScheduledCall`: a monitor that runs has one call scheduled, any other none.

Properties, in `KeyAgreement`:

- `KeysAgree`: who has a session has the same key, session id and members as everybody
  else who has one.
- `StoresFit`: everybody's private keys, nonce and ephemeral key fit what the others keep
  for it, so that the next operation can be anybody's.
- `NothingRefused`: no packet of a member is refused by another: its signature verifies, and
  that of the session (the assertion of the exchange's `downflow`), no packet comes when the
  greeting is done, and its members are then those of the proposal (`_maybeFulfill`).
- `SummariesAgree`: the greetings of `Greeting`, on the same packets, have the same members, the same
  who are authenticated, the same answers, and session ids that agree when those with keys do.

Every property of a passing run is broken by at least one mutated operator
(`mutants` in `PROJECT.json`; the mutated forms stand before the definitions
they would replace, marked as such, and no specification uses them).

### 2.4 Fairness

`FairSpec` assumes that the server handles what it is sent, clients receive what
is queued for them, promise callbacks run, and `fin()` ends (it has a timeout of
its own, so that it ends even if nobody answers).  A JavaScript engine and a
working transport give all of these.  Users need not do anything.  The weak
fairness of the two transport actions is stated over the variables that show
them (`ServerHandles`, `Receives`), and the rest as "infinitely often nothing is
pending", which costs TLC less than the fairness of every action and means the
same, since each of them stays enabled until it happens.

`SessionGroup!FairSpec` assumes that timers fire (infinitely often none is pending)
and that the transport loses nothing for ever: infinitely often each member has
received everything sent, what waits in its buffer included.  The second is
stronger than what one sending gives, because the code itself resends nothing
within a session (that is left to `LocalSendQueue` and the transport): the
liveness properties say what the session adds, given such a transport.

## 3. What the code does not do

Four runs show behaviour that contradicts a comment or an assertion of the code.
Each is a `finding` with its lines.

| Run | What happens |
|---|---|
| `dropped_proposal` | a member disconnects during a greeting it is in; the exclusion task is looked at while the failed greeting is still set, is ignored, and is not looked at again: the member stays in the session for ever |
| `stale_proposal` | a proposal made before leaving is accepted as the own one after entering again, with no session to change |
| `stale_packet` | of a, b, c, d, a excludes b, d confirms, c is disconnected, b excludes a and c: d's confirmation, ordered late, is taken for the final packet of the second operation, and the assertion fails that such a packet reached all its members |
| `replayed_packet` | over a transport that delivers several packets per task, a packet stashed in `tryDecrypt` is compared with the members the channel has when it is replayed (`impl/session.js:1247`), not those it had when the packet was received; a member was disconnected in between, and the same assertion fails |

More were met with the same models.  They have no run of their own; a copy of a cfg with
another scenario or property shows each of them in seconds:

| What happens | Instance |
|---|---|
| `_ownOperationCb` (`impl/session.js:1754`) is never assigned, so that a second operation is not refused; the two proposals mix, and the assertion at `greet/greeter.js:1805` fails | a / 0 2 0 0 with `habits` `overlapOps`, `INVARIANT NoAssertionFails` |
| `autoIncludeExtra`: when a second user enters, a proposal is made while one is open, and the assertion at `impl/session.js:1514` fails | a / 2 0 0 0 with this option, `INVARIANT NoAssertionFails` |
| over a transport that delivers several packets per task, two changes: a packet is replayed in a state that the assertions of `_internalState` exclude | a b / 0 2 0 0 with `sync`, `INVARIANT NoAssertionFails` |
| an entrant that was synced by an operation which is then aborted waits in state `COsj` for ever | as `dropped_proposal`, with `PROPERTY UnstableChanges` |
| a leave-intent received during a greeting is ignored for good, and the parting member's own `fin()` no longer makes it leave | `FairSpec`, a b / 0 1 1 0, `PROPERTY ParterGone` |
| `stayIfLastMember`: a proposal made before the session was given up is accepted after it | a b / 0 0 1 1 with this option, `INVARIANT NoAssertionFails` |
| `"CosJ"` for `"COsJ"`: joining when already alone in the channel fails | a / 1 0 0 0 with `habits` `joinAgain`, `INVARIANT NoAssertionFails` |
| a message written before there is a session is sent when one begins, without `autoSendOffline`, though `impl/applied.js:100-101` says that this needs activation | `send_queue`, `INVARIANT OfflineOnlyIfActivated` |
| `_onSNMembers` looks at the last message that may be sent again, which may be in the context of the new session though one after it is not: `_assert(idx >= earliestResend)` (`impl/applied.js:383`) fails | `QueuedSession`, three messages, a user's second device enters; `failed` contains "index" |
| on coming back with `autoSendOffline`, `_maybeAutoSend` meets a message that was sent before: `_assert(oldSent.sId === null)` (`impl/applied.js:417`) fails, and `_onSNMembers` ends there | run `send_queue`; `failed` contains "sentBefore" |
| sending again while the session is being parted from: `_assert(sent.sId)` (`impl/applied.js:393`, `294`) fails after the message was dropped from the queue | run `send_queue`; `failed` contains "canSend" |
| who uses a Subscribe of `EventContext.subscribe` after its node was deleted is reached by no event, though `helper/async.js:766` says "a Subscribe function to add subscribers to matching events" | `callbacks`, `INVARIANT SubscribersAreReached` |

The scenarios of the passing runs of `GroupSession` keep clear of both tables; this is why `membership`
does not combine, for instance, operations with parting, nor `endings` claim
`AbsentExcluded`.  In the passing liveness runs no client fails an assertion, so
that nothing holds because somebody stopped.

Delivery of several packets per task is what the dummy server does: `sendAll`, `run` and
`runAsync` (`impl/dummy.js:279-341`) hand a client its whole queue in one task, and the
session tests use them throughout.  The promise callbacks of a packet then run after the
packets that follow it, `_pendingGreetPP` sends these through `tryDecrypt`, and what is
replayed from there meets the channel as it is by then.  One test is about this: after a
disconnection the others exclude the member, and it enters again, in one task
(`test/mpenc/session_test.js:521-565`).  Run `membership` shows that nothing fails in this case,
in whatever order and at whatever moment the first member is disconnected and enters, nor when it
parts, nor when somebody enters during a change.  With a change and a disconnection
(`replayed_packet`), or with two changes (the table above), something does.

## 4. Proofs

### 4.1 One client's server order

`ServerOrderClient_proofs` proves, for any owner, members, packets and random
ids that satisfy `PacketAssumption` (a packet's id tells an initial packet from
one that is not, a packet cannot refer to its own id, a packet that is initial
and final answers itself):

- `OrderInvariant`: `Spec => []OrderInv`, and from it, as parts of it, `TypeCorrectness`,
  `OneOperationAtATime`, `ChainHashCommits`, `AcceptedPacketDecides`;
- `EqualHashesAgree`: well-formed orders with equal chain hashes agree on whether
  an operation is ongoing and on the packet that the next one has to refer to,
  the fact that lets clients compare one hash instead of their histories;
- `OrderImplementsHistory`: the specification implements `OpChain!ChainSpec`.

`OrderInv` is inductive, the properties one by one are not.  That the lists grow
in turns needs that a single packet that starts and ends an operation is
accepted as a whole: after its first half, the second must suit.  It fails to
only if the packet's id already ended some operation, hence the two parts
`StartsWithPacket` and `EndsAsKnown`, which say where the elements of the lists
come from: what ended an operation is a departure, a packet that started one, or a
packet that is never initial.  The lemmas go from sequences (`AppendFacts`,
`MemberOfAppend`), over each method (`StartWellFormed`, `EndWellFormed`,
`StartAndEndWellFormed`, `SyncForWellFormed`), to `tryOpPacket`
(`TryOpPacketCases`, `ReceiveWellFormed`) and the departure
(`LeaveWellFormed`).  `Receive` has one guard that the code does not have: a
client does not receive the packet it joined the history *after*, since the
server sends a packet once, and only to those in the channel.

### 4.2 The keys of a group

`KeyAgreement_proofs` proves, for any finite set of clients, any set of routes (injective
sequences of clients) and any bound `MaxDraws` on how often they draw:

- `KeyInvHolds`: `Spec => []KeyInv`, the inductive invariant, and from it
- `KeysAlwaysAgree`: the members of a session have one group key, session id and member set;
- `StoresAlwaysFit`: what a member keeps of one operation fits what every other member keeps,
  so that whoever starts the next one starts it from the same keys;
- `NothingIsRefused`: no greeting refuses a packet of a member, in the sense of
  `NothingRefused` (2.3).

`KeysAgree` is about members between two operations, and says nothing of an ongoing one;
`KeyInv` says what the greetings and packets of an operation have in common while it goes on.
An operation is at one of three stages:

| Stage | In flight | What holds |
|---|---|---|
| `Upward` (`Collected`) | one upflow | whoever is not on the route has contributed: its private keys, multiplied with its intermediate key in the packet, give the cardinal key so far, and nonce and ephemeral key are in the packet; whoever is on the route has drawn nothing |
| `Downward` (`Complemented`) | the broadcast | the sender has the result, and every other member would compute the same group key from the packet |
| `Confirming` (`Settled`) | confirmations | all have the same keys and session id; whom each has authenticated are itself and those whose packets came back; at most one packet per member is in flight |

A packet of the first two kinds is handled by everybody before the next exists, by
`StageDelivered`; the third by `ConfirmationDelivered`.  Three parts are there because of what
an operation does not touch.  `StoresKeyed` says of the stores what `Settled` says of greetings,
for the next operation to start from.  `ProposalsFit` says that each proposal would begin an
operation well, were it the one accepted; it survives further draws (`StageGrows`) and a
departure, which changes none of the members a proposal leads to.  `Excluded` says that a member
that an operation excludes knows the ephemeral keys of all who stay, without which it would
refuse their packets.  That a session id is new, so that a member takes over the result instead
of ignoring it (`Adopt`), follows from `KnowsOld`: no id that somebody knows has a nonce that is
not drawn yet, and the last to contribute draws one.

The lemmas about keys are commutations: multiplying one key with private keys in any order
(`MultCommutes`), and with a new private key of one's own or of somebody else (`MultOwn`,
`RenewedFits`).  A key is the bag of private keys it is the product of, so they rest on nothing
about the curve but that its multiplication commutes.  That `Client` is finite is needed where
the code counts members (a member left alone has no session); packets of one group are finitely
many people's.

### 4.3 The greetings without keys

`GroupSession` runs `Greeting`, where a session id is a pair of names and nobody has keys.
`SummaryAgreement_proofs` proves, from the assumptions of 4.2, that nothing is lost by this:

- `SameInvHolds`: `Spec => [](KeyInv /\ SameInv)`, and from it
- `SummariesAlwaysAgree`: `Spec => []SummariesAgree`.

`SummariesAgree` compares the greetings of the ongoing operation.  What it needs is that
they were the same when the operation began, whichever proposal was accepted, and that what is on
the way tells both kinds the same.  The parts of `SameInv`:

| Part | What it says | Why it is needed |
|---|---|---|
| `GreetingsSame` | of an operation's members, greetings correspond field by field, and two have equal ids of the one kind iff they have of the other | the property; a member takes over a result, and answers it, iff it has another id |
| `PacketSame` | a packet and its summary have the same sender, members and route; who has the id that a result or a confirmation brings has it in both kinds; the name an upflow carries is that of all who have begun, and part of nobody's id | so that delivering both keeps `GreetingsSame` |
| `ProposalsSame` | the two would be so for each proposal, were it accepted now | `Accept` |
| `SessionsSame` | a client that has a store has a session with the same members, and all have the same id | the greeting of the next operation starts from it |
| `IsOld` | every name in use was drawn | a name drawn now is in no id, as a nonce drawn now is in none |

`SameInv` alone is not inductive: that a packet verifies, that the last to contribute completes
the id with the nonces of all, or that who has a result is not done before its own packet is back,
is said by `KeyInv`, stage by stage.  So there is one lemma per stage and side
(`UpflowSame`, `ResultSameAll`, `ConfirmationSameAll`), which puts what 4.2 says of the
greeting with keys next to what `Greeting` computes (`SumUpflow`, `SumDownflow`, `SumOwn`), and
one per kind of proposal (`StartSame`, `IncludeSame`, `ExcludeSame`).

### 4.4 The messages of a session

`Transcript_proofs` is about the operators, for any transcript that is `WellFormed`: its log has
each message once and after its parents (`IsGrounded`), one author's messages are in a line
(`IsOrdered`), and what is cached says what the graph of messages says (`HasContexts`,
`HasUnacked`, `HasMaximal`).  The model's operators are recursive functions over the messages.
That such a function exists, and so has the values its equation gives, is proved along the log
(`AncestorsExist`, `TraversalExists`); what it computes, by induction along the log in the one
direction or the other (`LogInduction`, `LogInductionDown`):

- `LeIsReachability`: `le` decides reachability over parents, though it follows contexts;
- `AckedWithFacts`, `SucRuIdFacts`, `ResolvedFacts`: what the three traversals find (of the unacked
  messages backwards in `add`, of the next message by a reader in `suc_ruId`, of the latest
  payloads in `resolveEarlier`) is what they are meant to find, though each prunes its search;
- `AddWellFormed`: a message that `Fits` leaves the transcript well formed.

`SessionGroup_proofs` proves of `SessionGroup`, for any members, any bodies and numbers of sends,
and any positive size of the buffer:

- `GroupInvHolds`: `Spec => []GroupInv`, the inductive invariant, and from it
- `AcksAreEvidence`, `UnackedHolds`, `OrderHolds`, `SessionRefusesNothing`, `OnlyUnreadyHolds`,
  `LogHolds`: every safety property of `SessionProperties`;
- `SessionDeliversCausally`: the specification implements `CausalBroadcast!BroadcastSpec`.

The properties one by one are not inductive: that a message is not refused needs what the author's
own transcript holds, now or by the time it arrives.  The parts of `GroupInv`:

| Part | What it says | Why it is needed |
|---|---|---|
| `Agree` | a message is in its author's transcript, the same as in any other | with the parents it has the same ancestors everywhere (`SameAncestors`), so that what `add` checks of a message holds for the receiver because it held for the author (`ReceivedFits`) |
| `WellFormed` | of each transcript, as above | |
| `OwnNumbered`, `OwnAfterAll` | a member's own messages are numbered without gaps, and come after all that it had accepted | a new id is new; the `Past` that `CausalBroadcast` asks for is the message's ancestors |
| `Tracks` | `pubtxt`, `ktime`, `ackmon`, `monitors` fit the transcript | the assertions of `_stopAckmon` and `stop` |
| `NothingWrong` | nothing was refused, no assertion failed | |
| `IsBuffer`, `TimeoutsMatch` | what waits was sent by others, was not accepted, and waits once | retrying it is receiving it |
| `ShowsPast` | each payload is in the log, after the payloads before it | |
| `NoneReady` | nothing in the buffer could be accepted | between handlers only, hence kept apart |

A handler that accepts several messages is a chain of `TryAndDelete`, each of which keeps the group
without `NoneReady` (`TryAndDeleteFacts`).  `RetryAllFacts` counts: a pass over the buffer that
accepts something makes it shorter, and one that accepts nothing shows that nothing can be
accepted (`RetryOnceFacts`), so that as many passes as there are messages are enough, where the code loops until a pass
has no success.  The lemmas about handlers (`SendObjectFacts`, `ReceiveFacts`, `AckmonFacts`,
`FinFacts`, `PubFinFacts`, `TimeoutFacts`) say of each also how the log moves (`Moves`): by one own
message that comes after everything, which is `Broadcast`, or by messages of others, which is
`Accept` or nothing (`SendBroadcasts`, `GrowsAccepts`).  Nothing is assumed of
the transport but that what arrives was sent.

### 4.5 Who is called

`Callbacks_proofs` proves of `Callbacks`, for any names of events, and any scenario
(`ScenariosAssumption`: prefixes and events are sequences of names, kinds are among those that
exist, delays and intervals are numbers; what may be done is done any number of times that the
scenario allows):

- `CallbacksInvHolds`: `Spec => []CallbacksInv`, the inductive invariant, and from it
- `BackupOrPrimary`, `TimerKeepsAll`, `MonitorIsScheduled`: three invariants of
  `CallbackProperties`;
- `OnlyDueAreCalled`: the action property `CallsAreDue`.

`EventNodes_proofs` adds, from the same assumptions, `NodesInvHolds`:
`Spec => []NodesInv`, and from both invariants `NodesAreNeeded`: `Spec => []NodesMatchSubscriptions`.

Those who are called change what the loops that call them are reading, and loops are nested to
any depth.  The parts of `CallbacksInv`:

| Part | What it says | Why it is needed |
|---|---|---|
| `Sound` | a subscriber is in the place its registration names, and only there; the observables of one tick are numbered without reuse; the timer has a call for every tick to come that somebody waits for | a tick whose observable lost its last subscriber gets a new one, and must not find the old |
| `NodesTyped` | nodes are paths, and what Subscribes are for are nodes | |
| `Obeyed` | whoever has cancelled, was called once, said true, or lost to its backup is no subscriber any more; whoever still is one of a tick that is over was called | what those who are called can rely on, as a fact about objects |
| `InProgress` | the timer's loop is at the bottom of the stack, and whom it has called was called; what is protected is being published by some loop | when a loop ends, nothing is left protected |
| `MonitorInv` | the monitor's action runs directly in the timer's loop; of the calls to come the monitor has the one it can cancel | the call in progress is still subscribed, and is told apart from the next by who was seen |

What an action does to the objects is one of few things: it takes entries away (`Takes`), opens a
place, or registers somebody for later (`IsRegistration`).  `Evolves` is what all of these have
in common, and undoes nothing that was obeyed (`EvolvesObeys`) and nothing that the loops in
progress rest on (`EvolvesInProgress`).  With it there is one lemma per action
(`PublishStepKeeps` to `ReturnKeeps`); what is particular is the clock (`TimePasses`, by which a
tick is over only when its loop has seen all who are left) and who is called (`TickCalls`, and
`OneCallAtATime` for the monitor).

The tree of nodes has an invariant of its own, `NodesInv`:

| Part | What it says | Why it is needed |
|---|---|---|
| `Rooted`, subscribers | who has subscribed is found from the root, unless it was late | the property |
| `Rooted`, nodes | a node is above a subscriber, or is being published to, or nobody has used any Subscribe for it or for one below, and none of these is deleted | when a subscriber cancels, or an event leaves a node, what is deleted is above nobody else; and a Subscribe that was made and not used yet keeps its nodes until one of them is used |
| `Rooted`, Subscribes | a path is made for Subscribes that exist; every subscriber of a node has used one | a node that is made later is none that was deleted, so that who was late is never found |
| `LoopsAt`, `IsOnItsWay` | whatever is being published to is the node of a loop in progress, which has come from the root | a loop that ends finds its node in the tree, or protected by another |
| `LoopsAt`, `AreApart` | of two loops that are nested the inner one is at a longer path or has an event with another prefix | the inner loop's end does not end the protection that the outer one needs |

An event's step down or up the tree, a canceller and a new Subscribe each change it in one
way: `_maybeClean` and `_cleanChild` delete from a node upwards as far as nobody is left
below, and `getDescendant` adds from some node downwards.

The observables of one tick are counted, which is where the finiteness of the objects comes in.
Nothing bounds the depth of the nesting or the number of registrations but the scenario.

### 4.6 Each client of a group

`GroupSession_proofs` proves of `GroupSession`, for any finite set of clients, any capacity
`Asynchronity` and any set of scenarios, those included in which assertions fail (section 3):

- `GroupInvHolds`: `Spec => []GroupInv`, and from it
- `GroupTypes`: `TypeOK`, with the bounds of `tryDecrypt` and of its retries;
- `OrdersHold`: each client's server order implements `OpChain` (`OrdersAreHistories`), with the
  packets that really come: of an operation that was aborted, for the second time
  after entering again, or from the buffer long after others.

`TypeOK` is not inductive.  What `GroupInv` adds to the types: every packet and notice on the
way, and what hashes commit to, is of a known form; a session has its owner as a member, a
greeting has somebody in it and an upflow somebody to go to (else `Head` of a route, or
the next greeting, would be anything); and a server order is empty until it is synced, and has then
as many started as ended operations, or one more (`IsHistory`).

A task of a client calls many operators one after the other, each with its exits.  There is a
lemma for each operator, of one of three forms: it `Keeps` the server order and the
buffer; it `Moves` the order by at most one step of `OpChain` (`HistoryStep`); it is a whole
task that `Steps`.  `OpChain` allows one step per task, so where two of those that move follow one
another, one of them must do nothing: `Accepting` and `Leads` say
that an order that has just joined has no operation that could be aborted, and that after
`_maybeSyncNew` or an abort what follows only keeps it.  That the buffer's
index stays in bounds while a retry removes the item under it is `InBounds`.  The properties of
one method are those of 4.1; here they are needed for orders that start in the middle of a
history, so that they are about lengths, not contents.

### 4.7 Only model-checked

| What | Why it is not proved |
|---|---|
| `ServerOrderAgreement`, `SessionAgreement`, `OrderDeterminesSession`, `KeyConfirmation` | they relate clients that may be any number of packets apart: an invariant has to speak of the server's total order, of what is in each queue, stashed in each `tryDecrypt` and half-way through its callbacks, over any number of memberships |
| `AbsentAreExcluded`, `OngoingHasGreeting`, `NoAssertionFails` | they hold in the scenarios of the runs and not in all (section 3; a stale own proposal of an earlier membership is enough for the second), so that no theorem for all `Scenarios` states them |
| `QueueHoldsUnacked`, `NoneIsForgotten`, `SentInContext`, `LogSpansSessions`, `AckedInOrder` | a session of the queue is a transcript that others write to, so that the invariant of 4.4 would have to be carried over to it first, with any set of messages for its parents |
| `EveryoneAccepts`, `PayloadsAcked`, all of `endings` | liveness: the prover has no rules for fairness |

## 5. Not modelled, and the plan

Done: the membership core, the messages of one session and over several, the send queue,
the helpers they call each other by, and the keys.  What is left, in this order:

1. Theorems about the send queue, on top of those about `SessionBase`: `QueueHoldsUnacked`.
2. Agreement of several server orders that receive the same packets: clients whose
   chain hashes agree keep agreeing, on top of `EqualHashesAgree` and `OrdersHold`.
3. `akaRefresh`, `akaQuit` and `quit`, once something calls them; `PromisingSet` in general.
4. TLV decoding as a pure function.

Not planned: encryption and signatures themselves, the encoding of packets, the
facade, version strings, build files.  Nothing in the repository calls `pre_uId`, which returns
the entry at the message's own index (`impl/transcript.js:391`), nor `updateFreshness`, which uses
the method `ctime` as a map (`impl/session.js:637`); neither is modelled.
