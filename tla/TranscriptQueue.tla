--------------------------- MODULE TranscriptQueue --------------------------
(***************************************************************************)
(* The transcript of one meeting on its way from the speech service to the *)
(* planner (run_batch_workflow, src/meeting_assistant/services/            *)
(* orchestrator.py:76-90): it is normalised, cut into chunks, published,   *)
(* drained and joined again.  The queue is RedisTranscriptQueue, one       *)
(* command at a time, or InMemoryTranscriptQueue (services/queue.py).      *)
(*                                                                         *)
(* The worker publishes and drains.  consume, ack and nack, which nothing  *)
(* in the application calls yet, are used by consumers that take chunks    *)
(* before the drain does, and finish or hand back what they or others      *)
(* took.  A client of Redis may die between two commands; ARQ starts the   *)
(* job of a dead worker again.                                             *)
(***************************************************************************)
EXTENDS TranscriptText, FiniteSets

CONSTANTS
  Worker, Consumers,
  Scenarios    \* provider, texts, chunk size, who consumes, and the bounds

\* rounds bounds the operations of the consumers, deaths the clients that die.
ScenarioType ==
  [provider : {"memory", "redis"}, texts : SUBSET Seq(STRING), size : Nat \ {0},
   consumers : SUBSET Consumers, rounds : Nat, deaths : Nat]

ASSUME ScenariosAssumption == Scenarios \subseteq ScenarioType
ASSUME WorkerAssumption == Worker \notin Consumers
ASSUME ConsumersAssumption == IsFiniteSet(Consumers)

Clients == Consumers \cup {Worker}

VARIABLES
  scenario,   \* the one that is tried
  text,       \* the rendered transcript
  messages,   \* the list of chunks
  pending,    \* the list of chunks given out
  pc,         \* the next command of each client
  hand,       \* the chunks its operation has in a local variable
  left,       \* how many more it may pop
  given,      \* the chunks it was given and has not finished
  dead,       \* clients that died
  published,  \* every chunk ever published
  finished,   \* the bag of chunks that an ack or a drain took out of pending
  assembled,  \* the chunks that the drain returned
  rounds,     \* operations of the consumers so far
  crossed     \* whether an operation that copies a list met another client

queueVars  == <<messages, pending>>
clientVars == <<pc, hand, left, given, dead>>
ghostVars  == <<published, finished, assembled, rounds>>
vars == <<scenario, text, queueVars, clientVars, ghostVars, crossed>>

BagOf(s) == [k \in ToSet(s) |-> Cardinality({i \in DOMAIN s : s[i] = k})]

\* The chunks of a list that are in a set, and those that are not.
Only(s, ids) ==
  LET Add(kept, k) == IF k \in ids THEN Append(kept, k) ELSE kept
  IN FoldLeft(Add, <<>>, s)
Without(s, ids) == Only(s, ToSet(s) \ ids)

Init ==
  /\ scenario \in Scenarios
  /\ text \in scenario.texts
  /\ messages = <<>> /\ pending = <<>>
  /\ pc = [c \in Clients |-> IF c = Worker THEN "publish" ELSE "idle"]
  /\ hand = [c \in Clients |-> <<>>]
  /\ left = [c \in Clients |-> 0]
  /\ given = [c \in Clients |-> <<>>]
  /\ dead = {}
  /\ published = <<>> /\ finished = EmptyBag /\ assembled = <<>>
  /\ rounds = 0 /\ crossed = FALSE

At(c, label) == c \notin dead /\ pc[c] = label
Goto(c, label) == pc' = [pc EXCEPT ![c] = label]
Take(c, chunks) == hand' = [hand EXCEPT ![c] = chunks]
Redis  == scenario.provider = "redis"
Memory == scenario.provider = "memory"

-----------------------------------------------------------------------------
(* The worker.                                                             *)

Chunks == Chunk(Normalize(text), scenario.size)

\* publish: one rpush, or one extend.
Publish ==
  /\ At(Worker, "publish")
  /\ messages' = messages \o Chunks
  /\ published' = published \o Chunks
  /\ Goto(Worker, "validate")
  /\ UNCHANGED <<scenario, text, pending, hand, left, given, dead, finished,
                 assembled, rounds>>

\* The status is written: from here on the job is not started again.
Validate ==
  /\ At(Worker, "validate")
  /\ Goto(Worker, "drain")
  /\ UNCHANGED <<scenario, text, queueVars, hand, left, given, dead, ghostVars>>

\* lrange; in memory the whole drain.
Drain ==
  /\ At(Worker, "drain")
  /\ assembled' = messages
  /\ \/ Redis  /\ Goto(Worker, "delete") /\ UNCHANGED <<queueVars, finished>>
     \/ /\ Memory /\ Goto(Worker, "over")
        /\ messages' = <<>> /\ pending' = <<>>
        /\ finished' = finished (+) BagOf(pending)
  /\ UNCHANGED <<scenario, text, hand, left, given, dead, published, rounds>>

\* The two deletes.
DrainDelete ==
  /\ At(Worker, "delete")
  /\ messages' = <<>>
  /\ Goto(Worker, "forget")
  /\ UNCHANGED <<scenario, text, pending, hand, left, given, dead, ghostVars>>

DrainForget ==
  /\ At(Worker, "forget")
  /\ pending' = <<>>
  /\ finished' = finished (+) BagOf(pending)
  /\ Goto(Worker, "over")
  /\ UNCHANGED <<scenario, text, messages, hand, left, given, dead, published, assembled,
                 rounds>>

-----------------------------------------------------------------------------
(* RedisTranscriptQueue.                                                   *)

Begin(c) ==
  /\ At(c, "idle")
  /\ c \in scenario.consumers
  /\ rounds < scenario.rounds
  /\ rounds' = rounds + 1
  /\ UNCHANGED <<scenario, text, dead, published, assembled>>

Consume(c) ==
  /\ Begin(c) /\ Redis
  /\ \E count \in 1 .. 2 : left' = [left EXCEPT ![c] = count]
  /\ Goto(c, "pop")
  /\ UNCHANGED <<queueVars, hand, given, finished>>

\* lpop, until count or an empty list.
Pop(c) ==
  /\ At(c, "pop")
  /\ \/ /\ messages # <<>>
        /\ messages' = Tail(messages)
        /\ Take(c, Append(hand[c], Head(messages)))
        /\ left' = [left EXCEPT ![c] = @ - 1]
        /\ Goto(c, IF left[c] = 1 THEN "push" ELSE "pop")
     \/ /\ messages = <<>>
        /\ left' = [left EXCEPT ![c] = 0]
        /\ Goto(c, IF hand[c] = <<>> THEN "idle" ELSE "push")
        /\ UNCHANGED <<messages, hand>>
  /\ UNCHANGED <<scenario, text, pending, given, dead, ghostVars>>

\* Mutant: chunks that are given out are not kept.
PushUnkept(c) ==
  /\ At(c, "push")
  /\ given' = [given EXCEPT ![c] = @ \o hand[c]]
  /\ Take(c, <<>>)
  /\ Goto(c, "idle")
  /\ UNCHANGED <<scenario, text, queueVars, left, dead, ghostVars>>

\* rpush to the pending list, and consume returns.
Push(c) ==
  /\ At(c, "push")
  /\ pending' = pending \o hand[c]
  /\ given' = [given EXCEPT ![c] = @ \o hand[c]]
  /\ Take(c, <<>>)
  /\ Goto(c, "idle")
  /\ UNCHANGED <<scenario, text, messages, left, dead, ghostVars>>

\* lrem 0 removes every copy of the chunk.  With two ids it raises, and
\* nothing has changed.
Ack(c) ==
  /\ Begin(c) /\ Redis
  /\ \E k \in ToSet(given[c]) :
       /\ pending' = Without(pending, {k})
       /\ finished' = finished (+) BagOf(Only(pending, {k}))
       /\ given' = [given EXCEPT ![c] = Without(@, {k})]
  /\ UNCHANGED <<messages, pc, hand, left>>

\* Without ids: delete, or clear, whoever was given the chunks.
AckAll(c) ==
  /\ Begin(c)
  /\ pending' = <<>>
  /\ finished' = finished (+) BagOf(pending)
  /\ given' = [given EXCEPT ![c] = <<>>]
  /\ UNCHANGED <<messages, pc, hand, left>>

\* Without ids: lrange, rpush and delete.
NackAll(c) ==
  /\ Begin(c) /\ Redis
  /\ Take(c, pending)
  /\ Goto(c, IF pending = <<>> THEN "clear" ELSE "requeueAll")
  /\ UNCHANGED <<queueVars, left, given, finished>>

RequeueAll(c) ==
  /\ At(c, "requeueAll")
  /\ messages' = messages \o hand[c]
  /\ Goto(c, "clear")
  /\ UNCHANGED <<scenario, text, pending, hand, left, given, dead, ghostVars>>

Clear(c) ==
  /\ At(c, "clear")
  /\ pending' = <<>>
  /\ given' = [given EXCEPT ![c] = <<>>]
  /\ Take(c, <<>>)
  /\ Goto(c, "idle")
  /\ UNCHANGED <<scenario, text, messages, left, dead, ghostVars>>

\* nack of the chunks that the consumer was given, one after the other.
Nack(c) ==
  /\ Begin(c) /\ Redis
  /\ given[c] # <<>>
  /\ Goto(c, "return")
  /\ UNCHANGED <<queueVars, hand, left, given, finished>>

\* Mutant: the chunk is pushed whether or not it was still pending.
ReturnAnyway(c) ==
  LET k == Head(given[c]) IN
  /\ At(c, "return")
  /\ given' = [given EXCEPT ![c] = Tail(@)]
  /\ pending' = IF k \in ToSet(pending) THEN RemoveFirst(pending, k) ELSE pending
  /\ Take(c, <<k>>)
  /\ Goto(c, "requeue")
  /\ UNCHANGED <<scenario, text, messages, left, dead, ghostVars>>

\* lrem 1: the chunk is pushed only if it was still pending.
Return(c) ==
  LET k == Head(given[c]) IN
  /\ At(c, "return")
  /\ given' = [given EXCEPT ![c] = Tail(@)]
  /\ \/ /\ k \in ToSet(pending)
        /\ pending' = RemoveFirst(pending, k)
        /\ Take(c, <<k>>)
        /\ Goto(c, "requeue")
     \/ /\ k \notin ToSet(pending)
        /\ Goto(c, IF Len(given[c]) = 1 THEN "idle" ELSE "return")
        /\ UNCHANGED <<pending, hand>>
  /\ UNCHANGED <<scenario, text, messages, left, dead, ghostVars>>

Requeue(c) ==
  /\ At(c, "requeue")
  /\ messages' = messages \o hand[c]
  /\ Take(c, <<>>)
  /\ Goto(c, IF given[c] = <<>> THEN "idle" ELSE "return")
  /\ UNCHANGED <<scenario, text, pending, left, given, dead, ghostVars>>

-----------------------------------------------------------------------------
(* InMemoryTranscriptQueue.  Its methods have no lock, and let nobody else  *)
(* in as long as its consumers share a thread, as is assumed here.         *)

MemoryConsume(c) ==
  /\ Begin(c) /\ Memory
  /\ \E count \in 1 .. 2 :
       LET consumed == SubSeq(messages, 1, IF count < Len(messages) THEN count ELSE Len(messages)) IN
       /\ messages' = SubSeq(messages, Len(consumed) + 1, Len(messages))
       /\ pending' = pending \o consumed
       /\ given' = [given EXCEPT ![c] = @ \o consumed]
  /\ UNCHANGED <<pc, hand, left, finished>>

MemoryAck(c) ==
  /\ Begin(c) /\ Memory
  /\ \E ids \in (SUBSET ToSet(given[c])) \ {{}} :
       /\ pending' = Without(pending, ids)
       /\ finished' = finished (+) BagOf(Only(pending, ids))
       /\ given' = [given EXCEPT ![c] = Without(@, ids)]
  /\ UNCHANGED <<messages, pc, hand, left>>

\* The chunks go back to the front; without ids, all that are pending.
MemoryNack(c) ==
  /\ Begin(c) /\ Memory
  /\ \E ids \in (SUBSET ToSet(given[c])) \cup {ToSet(pending)} :
       /\ ids # {}
       /\ messages' = Only(pending, ids) \o messages
       /\ pending' = Without(pending, ids)
       /\ given' = [given EXCEPT ![c] = Without(@, ids)]
  /\ UNCHANGED <<pc, hand, left, finished>>

-----------------------------------------------------------------------------
(* Deaths.                                                                 *)

\* A consumer dies wherever it is.
ConsumerDies(c) ==
  /\ Redis /\ c \in scenario.consumers \ dead
  /\ Cardinality(dead) < scenario.deaths
  /\ dead' = dead \cup {c}
  /\ UNCHANGED <<scenario, text, queueVars, pc, hand, left, given, ghostVars>>

\* A worker that dies before the status was written is replaced, once for each
\* death that is considered; after it nobody takes over.
WorkerDies ==
  /\ Redis
  /\ Len(published) < (1 + scenario.deaths) * Len(Chunks)
  /\ At(Worker, "validate")
  /\ Goto(Worker, "publish")
  /\ UNCHANGED <<scenario, text, queueVars, hand, left, given, dead, ghostVars>>

-----------------------------------------------------------------------------
WorkerStep == Publish \/ Validate \/ Drain \/ DrainDelete \/ DrainForget

ConsumerStep(c) ==
  \/ Consume(c) \/ Pop(c) \/ Push(c) \/ Ack(c) \/ AckAll(c)
  \/ NackAll(c) \/ RequeueAll(c) \/ Clear(c)
  \/ Nack(c) \/ Return(c) \/ Requeue(c)
  \/ MemoryConsume(c) \/ MemoryAck(c) \/ MemoryNack(c)

Step ==
  \/ WorkerStep \/ WorkerDies
  \/ \E c \in Consumers : ConsumerStep(c) \/ ConsumerDies(c)

\* A blanket nack has copied the pending list and not yet deleted it.
Copying(c) == c \notin dead /\ pc[c] \in {"requeueAll", "clear"}

\* In this step a client changes the list that another has copied and will
\* delete, or copies it too.
Crossing ==
  \/ \E c \in Consumers :
       /\ Copying(c) /\ pc'[c] = pc[c]
       /\ \/ pending' # pending
          \/ \E d \in Consumers : ~Copying(d) /\ Copying(d)'
  \/ pc[Worker] = "delete" /\ pc'[Worker] = "delete" /\ messages' # messages

Next == Step /\ crossed' = (crossed \/ Crossing)

Spec == Init /\ [][Next]_vars

-----------------------------------------------------------------------------
(* Properties.                                                             *)

\* The places in the hands of the clients whose next command is one of these,
\* and the bag of the chunks there.
Places(labels) ==
  UNION {{c} \X DOMAIN hand[c] : c \in {c \in Clients : pc[c] \in labels}}
Held(labels) ==
  [k \in {hand[p[1]][p[2]] : p \in Places(labels)} |->
     Cardinality({p \in Places(labels) : hand[p[1]][p[2]] = k})]

\* The chunks of a client are out of both lists, or in both.
InHand  == Held({"pop", "push", "requeue"})
Doubled == Held({"clear"})
Drained == IF pc[Worker] \in {"forget", "over"} THEN BagOf(assembled) ELSE EmptyBag

\* Every chunk ever published waits, is pending, was acknowledged or was
\* drained, and nowhere twice.  Only a client between two commands of Redis
\* holds a chunk that is in neither list (queue.py:87-92 and :111-113) or has
\* put one in both (:106-107), so a death loses or doubles what was in its
\* hands and no more.  Nothing is said any more once a list changed between its
\* copy and its deletion by a blanket nack (:104-107) or the drain (:117-118):
\* with such a crossing chunks are lost and doubled although nobody died.
Accounted ==
  \/ crossed
  \/ BagOf(published) (+) Doubled =
       BagOf(messages) (+) BagOf(pending) (+) InHand (+) finished (+) Drained

\* Both queues are what the Protocol says until a client dies or two clients
\* cross: a chunk that is acknowledged twice, by two consumers of equal chunks,
\* is not handed out again.
Contract ==
  INSTANCE TranscriptQueueContract
    WITH waiting <- messages, held <- (BagOf(pending) (+) InHand) (-) Doubled,
         broken <- dead # {} \/ crossed
ImplementsContract == Contract!ContractSpec

\* The chunks are short enough for one embedding, and all but the last are
\* full; a transcript without words is one empty chunk.
ChunksFit ==
  LET length(i) == Len(Words(Chunks[i])) IN
  \/ Chunks = << <<>> >>
  \/ /\ \A i \in 1 .. Len(Chunks) - 1 : length(i) = scenario.size
     /\ length(Len(Chunks)) \in 1 .. scenario.size

You     == <<"you">>
Know    == <<"know">>
Singles == {<<"um">>, <<"uh">>, <<"like">>}
Count(words, word) == Cardinality({i \in DOMAIN words : words[i] = word})
Meant(words) == Without(words, Singles \cup {You, Know})

IsFiller(words, i) ==
  \/ words[i] \in Singles
  \/ words[i] = You /\ i < Len(words) /\ words[i + 1] = Know
  \/ words[i] = Know /\ i > 1 /\ words[i - 1] = You

WithoutFillers(words) ==
  LET Add(kept, i) == IF IsFiller(words, i) THEN kept ELSE Append(kept, words[i])
  IN FoldLeft(Add, <<>>, [i \in DOMAIN words |-> i])

\* Fillers stand apart and not inside "you know", with one space between any
\* two words.
PlainSpeech(words) ==
  /\ Join(words) = text
  /\ \A i \in 1 .. Len(words) - 1 :
       IsFiller(words, i) /\ IsFiller(words, i + 1) => words[i] = You
  /\ \A i \in 2 .. Len(words) - 1 :
       words[i - 1] = You /\ words[i + 1] = Know => words[i] \notin Singles

\* What the planner is given (orchestrator.py:90) is what was said: every word
\* but the fillers, in order, a whole number of times, and once unless a worker
\* died.  "you know" is dropped as a whole or kept as a whole, and from plain
\* speech all fillers are dropped, also at its ends.
AssembledFaithful ==
  scenario.consumers = {} /\ pc[Worker] = "over" =>
    LET times == Len(published) \div Len(Chunks)
        said  == Words(Join([i \in 1 .. times |-> text]))
        kept  == Words(Join(assembled))
    IN /\ times \in 1 .. scenario.deaths + 1
       /\ Meant(kept) = Meant(said)
       /\ \A w \in ToSet(kept) : Count(kept, w) <= Count(said, w)
       /\ Count(said, You) - Count(kept, You) = Count(said, Know) - Count(kept, Know)
       /\ PlainSpeech(said) => kept = WithoutFillers(said)
=============================================================================
