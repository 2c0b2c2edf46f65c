---------------------------- MODULE QueueSetup ----------------------------
(***************************************************************************)
(* How the workers of a deployment bring the broker's stream and its       *)
(* durable consumers in line with their own build: core/queue/init.py      *)
(* (connect, _ensure_stream), core/queue/helper.py (ensure_consumer_config,*)
(* subscribe_durable) and the start of worker/main.py (bounded retry, one  *)
(* subscription per algorithm, the poller that keeps the heartbeat file).  *)
(*                                                                         *)
(* A consumer's settings are read in one round trip and written in another,*)
(* and nothing locks the consumer in between: workers of two builds, an    *)
(* operator who removes the consumer or the stream, a broker outage and a  *)
(* killed worker may each come in between.  The write sends the whole      *)
(* configuration that was READ, with the declared fields put over it.      *)
(*                                                                         *)
(* The broker is external.  It is modelled as this repository's code uses  *)
(* it: create-or-update of a consumer that fills unset fields with its     *)
(* defaults, and refuses another deliver subject while somebody listens on *)
(* the stored one (tests/fake_jetstream.py always refuses it); creating a  *)
(* stream that exists with other values is refused; an update cannot       *)
(* change the retention or the storage of a stream.                        *)
(*                                                                         *)
(* The API's lifespan (main.py) also runs init_nats, once, and subscribes  *)
(* to nothing: what it does to the broker is what a worker does that is    *)
(* killed once its init_nats has returned or failed.                       *)
(***************************************************************************)
EXTENDS Naturals, Sequences, FiniteSets

CONSTANTS
  Workers,        \* worker processes (slots of the deployment)
  Queues,         \* the algorithms' queues, in the registry's order
  Settings,       \* _RECONCILED_CONSUMER_FIELDS
  Values,         \* the values a setting can have
  Builds,         \* the builds that may be deployed
  Declared,       \* [Builds -> [Settings -> Values \cup {Unset}]]
  StreamOf,       \* [Builds -> stream configurations], core/queue/streams.json
  Defaults,       \* [Settings -> Values]: what the broker puts for an unset field
  Inboxes,        \* deliver subjects (bound: a durable is created while one is unused)
  Unset, None,
  OldStreams,     \* stream configurations an earlier build may have left
  OldSettings,    \* consumer settings an earlier build may have left
  MaxAttempts,    \* _NATS_CONNECT_MAX_ATTEMPTS
  StaleAfter,     \* polls missed until HEALTHCHECK calls the file too old
  Disturbances    \* bound: outages, removals, lost replies and kills together

Names == {Queues[i] : i \in 1..Len(Queues)}
StreamConfigs == {StreamOf[b] : b \in Builds} \cup OldStreams
Configs == [settings : [Settings -> Values], inbox : Inboxes]

ASSUME SetupAssumption ==
  /\ Len(Queues) \in Nat \ {0}
  /\ Queues \in Seq(Names)
  /\ \A i, j \in 1..Len(Queues) : Queues[i] = Queues[j] => i = j
  /\ Unset \notin Values
  /\ Declared \in [Builds -> [Settings -> Values \cup {Unset}]]
  /\ Defaults \in [Settings -> Values]
  /\ \A b, c \in Builds : StreamOf[b].kind = StreamOf[c].kind
  /\ OldSettings \subseteq [Settings -> Values]
  /\ Inboxes # {}
  /\ None \notin Configs /\ None \notin StreamConfigs /\ None \notin Inboxes
  /\ MaxAttempts \in Nat \ {0}
  /\ StaleAfter \in Nat \ {0}
  /\ Disturbances \in Nat

VARIABLES
  up,         \* the broker answers
  stream,     \* the stream's configuration, or None
  consumer,   \* consumer[q]: the durable's stored configuration, or None
  build,      \* build[p]: what the process in this slot runs
  pc,         \* where the process is in its start
  attempt,    \* attempt of _connect_nats_with_retry
  next,       \* index of the algorithm being subscribed
  cached,     \* info.config as it was read or created, to be written or bound
  bound,      \* bound[p][q]: the inbox the process listens on, or None
  missed,     \* polls since the heartbeat file was last touched
  left        \* disturbances left

vars == <<up, stream, consumer, build, pc, attempt, next, cached, bound,
          missed, left>>
broker == <<up, stream, consumer>>
--------------------------------------------------------------------------
Q(p) == Queues[next[p]]

NotBound == [q \in Names |-> None]

(* declared.items() of _declared_consumer_fields.                          *)
DeclaredFields(p) == {s \in Settings : Declared[build[p]][s] # Unset}

(* Every field the build declares has the declared value.                  *)
Matches(settings, p) ==
  \A s \in DeclaredFields(p) : settings[s] = Declared[build[p]][s]

(* current.evolve of the drift: the configuration that was read, with the *)
(* declared fields put over it.                                            *)
Evolve(current, p) ==
  [current EXCEPT !.settings =
     [s \in Settings |-> IF s \in DeclaredFields(p)
                         THEN Declared[build[p]][s] ELSE current.settings[s]]]

(* What the broker stores for a durable created from the declaration.      *)
Created(p, inbox) ==
  [settings |-> [s \in Settings |-> IF s \in DeclaredFields(p)
                                    THEN Declared[build[p]][s] ELSE Defaults[s]],
   inbox |-> inbox]

(* Inboxes nobody uses for this queue, and the one nats-py draws.          *)
Fresh(q) ==
  {i \in Inboxes :
     /\ consumer[q] # None => consumer[q].inbox # i
     /\ \A p \in Workers : /\ bound[p][q] # i
                           /\ cached[p] # None => cached[p].inbox # i}

FreshInbox(q) == CHOOSE i \in Inboxes : i \in Fresh(q)

Init ==
  /\ up = TRUE
  /\ stream \in OldStreams \cup {None}
  /\ \E c \in [settings : OldSettings, inbox : {CHOOSE i \in Inboxes : TRUE}] \cup {None} :
       /\ stream = None => c = None
       /\ consumer = [q \in Names |-> c]
  /\ \E b \in Builds : build = [p \in Workers |-> b]
  /\ pc = [p \in Workers |-> "connect"]
  /\ attempt = [p \in Workers |-> 1]
  /\ next = [p \in Workers |-> 1]
  /\ cached = [p \in Workers |-> None]
  /\ bound = [p \in Workers |-> NotBound]
  /\ missed = [p \in Workers |-> 0]
  /\ left = Disturbances
--------------------------------------------------------------------------
(***************************************************************************)
(* How a step of the start ends.                                           *)
(***************************************************************************)

(* An exception leaves main: its finally block runs and the process exits. *)
Exit(p) ==
  /\ pc' = [pc EXCEPT ![p] = "stopped"]
  /\ cached' = [cached EXCEPT ![p] = None]
  /\ bound' = [bound EXCEPT ![p] = NotBound]
  /\ UNCHANGED <<build, attempt, next, missed>>

GoTo(p, label) ==
  /\ pc' = [pc EXCEPT ![p] = label]
  /\ UNCHANGED <<build, attempt, next, cached, bound, missed>>

(* init_nats raised: tried again until the last attempt.                   *)
RetryForever(p) ==
  /\ pc' = [pc EXCEPT ![p] = "connect"]
  /\ UNCHANGED <<build, attempt, next, cached, bound, missed>>

InitFailed(p) ==
  IF attempt[p] < MaxAttempts
  THEN /\ pc' = [pc EXCEPT ![p] = "connect"]
       /\ attempt' = [attempt EXCEPT ![p] = @ + 1]
       /\ UNCHANGED <<build, next, cached, bound, missed>>
  ELSE Exit(p)

(* init_nats returned: the worker subscribes, algorithm by algorithm.      *)
InitDone(p) == GoTo(p, "find")

(* The process goes on with a configuration that it got from the broker.   *)
GoWith(p, label, config) ==
  /\ pc' = [pc EXCEPT ![p] = label]
  /\ cached' = [cached EXCEPT ![p] = config]
  /\ UNCHANGED <<build, attempt, next, bound, missed>>

(* js.subscribe returned a subscription to this inbox.                     *)
Subscribed(p, inbox) ==
  /\ bound' = [bound EXCEPT ![p][Q(p)] = inbox]
  /\ IF next[p] = Len(Queues)
     THEN pc' = [pc EXCEPT ![p] = "running"] /\ UNCHANGED next
     ELSE /\ pc' = [pc EXCEPT ![p] = "find"]
          /\ next' = [next EXCEPT ![p] = @ + 1]
  /\ cached' = [cached EXCEPT ![p] = None]
  /\ UNCHANGED <<build, attempt, missed>>

(* The broker does the request or not, and no answer comes in time.        *)
Disturb == left > 0 /\ left' = left - 1
--------------------------------------------------------------------------
(***************************************************************************)
(* init_nats.                                                              *)
(***************************************************************************)
Connect(p) ==
  /\ pc[p] = "connect"
  /\ IF up THEN GoTo(p, "add_stream") ELSE InitFailed(p)
  /\ UNCHANGED <<broker, left>>

(* add_stream: creates a missing stream, accepts an equal one, refuses an  *)
(* unequal one (10058), which alone leads on to update_stream.             *)
AddStream(p) ==
  /\ pc[p] = "add_stream"
  /\ \/ ~up /\ InitFailed(p) /\ UNCHANGED <<stream, left>>
     \/ up /\ stream = None /\ stream' = StreamOf[build[p]]
        /\ \/ InitDone(p) /\ UNCHANGED left
           \/ Disturb /\ InitFailed(p)
     \/ up /\ stream = StreamOf[build[p]] /\ InitDone(p) /\ UNCHANGED <<stream, left>>
     \/ up /\ stream \notin {None, StreamOf[build[p]]}
        /\ GoTo(p, "update_stream") /\ UNCHANGED <<stream, left>>
  /\ UNCHANGED <<up, consumer>>

(* A rejected update is only logged.                                       *)
UpdateIgnored(p) ==
  /\ pc[p] = "update_stream"
  /\ stream' = IF stream # None /\ stream.kind = StreamOf[build[p]].kind
               THEN StreamOf[build[p]] ELSE stream
  /\ InitDone(p)
  /\ UNCHANGED <<up, consumer, left>>

(* update_stream: only the subjects can change; an APIError for another    *)
(* retention or storage, or for a stream that is gone, becomes the         *)
(* RuntimeError that the retry loop catches like any other.                *)
UpdateStream(p) ==
  /\ pc[p] = "update_stream"
  /\ IF up /\ stream # None /\ stream.kind = StreamOf[build[p]].kind
     THEN /\ stream' = StreamOf[build[p]]
          /\ \/ InitDone(p) /\ UNCHANGED left
             \/ Disturb /\ InitFailed(p)
     ELSE InitFailed(p) /\ UNCHANGED <<stream, left>>
  /\ UNCHANGED <<up, consumer>>
--------------------------------------------------------------------------
(***************************************************************************)
(* subscribe_durable, for the algorithm at index next[p].                  *)
(***************************************************************************)

(* find_stream_name_by_subject.                                            *)
FindStream(p) ==
  /\ pc[p] = "find"
  /\ IF up /\ stream # None /\ Q(p) \in stream.covers
     THEN GoTo(p, "read") ELSE Exit(p)
  /\ UNCHANGED <<broker, left>>

(* Subscribing at once, without reconciling what is stored.                *)
ReadNothing(p) ==
  /\ pc[p] = "read"
  /\ GoTo(p, "subscribe")
  /\ UNCHANGED <<broker, left>>

(* js.consumer_info in ensure_consumer_config, and the comparison.         *)
ReadConsumer(p) ==
  /\ pc[p] = "read"
  /\ IF ~up THEN Exit(p)
     ELSE IF consumer[Q(p)] = None \/ Matches(consumer[Q(p)].settings, p)
     THEN GoTo(p, "subscribe")
     ELSE GoWith(p, "write", consumer[Q(p)])
  /\ UNCHANGED <<broker, left>>

(* Somebody listens on the subject that the broker delivers a queue to.    *)
Heard(q) == \E w \in Workers : bound[w][q] = consumer[q].inbox

(* The broker takes the request: the stream is there, and the deliver      *)
(* subject is the stored one, unless there is none that somebody listens   *)
(* on: then it is replaced.                                                *)
Accepts(q, inbox) ==
  /\ up /\ stream # None
  /\ consumer[q] # None /\ Heard(q) => consumer[q].inbox = inbox

(* Only the fields that had drifted when they were read are sent, and the  *)
(* broker puts them over what it stores now.                               *)
WriteDrift(p) ==
  /\ pc[p] = "write"
  /\ IF Accepts(Q(p), cached[p].inbox) /\ consumer[Q(p)] # None
     THEN /\ consumer' = [consumer EXCEPT ![Q(p)].settings =
               [s \in Settings |->
                  IF s \in DeclaredFields(p) /\ cached[p].settings[s] # Declared[build[p]][s]
                  THEN Declared[build[p]][s] ELSE @[s]]]
          /\ GoTo(p, "subscribe")
     ELSE Exit(p) /\ UNCHANGED consumer
  /\ UNCHANGED <<up, stream, left>>

(* js.add_consumer with the configuration read, evolved.                   *)
WriteConsumer(p) ==
  /\ pc[p] = "write"
  /\ IF Accepts(Q(p), cached[p].inbox)
     THEN /\ consumer' = [consumer EXCEPT ![Q(p)] = Evolve(cached[p], p)]
          /\ \/ GoTo(p, "subscribe") /\ UNCHANGED left
             \/ Disturb /\ Exit(p)
     ELSE Exit(p) /\ UNCHANGED <<consumer, left>>
  /\ UNCHANGED <<up, stream>>

(* The stored deliver subject is not asked for: the worker listens on an   *)
(* inbox of its own.                                                       *)
SubscribeUnasked(p) ==
  /\ pc[p] = "subscribe" /\ Fresh(Q(p)) # {}
  /\ IF ~up THEN Exit(p)
     ELSE IF consumer[Q(p)] = None THEN GoTo(p, "create")
     ELSE GoWith(p, "listen", [consumer[Q(p)] EXCEPT !.inbox = FreshInbox(Q(p))])
  /\ UNCHANGED <<broker, left>>

(* js.subscribe looks the durable up: an existing one is bound as it is    *)
(* stored, on its own deliver subject.                                     *)
Subscribe(p) ==
  /\ pc[p] = "subscribe"
  /\ IF ~up THEN Exit(p)
     ELSE IF consumer[Q(p)] # None THEN GoWith(p, "listen", consumer[Q(p)])
     ELSE GoTo(p, "create")
  /\ UNCHANGED <<broker, left>>

(* js.subscribe creates the durable it did not find, on a fresh inbox.     *)
(* Another worker may have created it since: the broker then refuses, or,  *)
(* if the other one does not listen yet, replaces its inbox.               *)
Create(p) ==
  /\ pc[p] = "create"
  /\ Fresh(Q(p)) # {}
  /\ LET config == Created(p, FreshInbox(Q(p))) IN
     IF Accepts(Q(p), config.inbox)
     THEN /\ consumer' = [consumer EXCEPT ![Q(p)] = config]
          /\ \/ GoWith(p, "listen", config) /\ UNCHANGED left
             \/ Disturb /\ Exit(p)
     ELSE Exit(p) /\ UNCHANGED <<consumer, left>>
  /\ UNCHANGED <<up, stream>>

(* subscribe_bind: the subscription to the inbox follows the broker's      *)
(* reply, and nobody looks at the durable again.  The client sends it when *)
(* it is connected.                                                        *)
Listen(p) ==
  /\ pc[p] = "listen"
  /\ Subscribed(p, cached[p].inbox)
  /\ UNCHANGED <<broker, left>>
--------------------------------------------------------------------------
(***************************************************************************)
(* _poll_queue_depth: the file is touched when a consumer_info answered.   *)
(***************************************************************************)
AnyAnswers == up /\ \E q \in Names : consumer[q] # None

PollBlindly(p) ==
  /\ pc[p] = "running"
  /\ missed' = [missed EXCEPT ![p] = 0]
  /\ UNCHANGED <<broker, build, pc, attempt, next, cached, bound, left>>

Poll(p) ==
  /\ pc[p] = "running"
  /\ missed' = [missed EXCEPT ![p] = IF AnyAnswers THEN 0
                                     ELSE IF @ < StaleAfter THEN @ + 1 ELSE @]
  /\ UNCHANGED <<broker, build, pc, attempt, next, cached, bound, left>>
--------------------------------------------------------------------------
(***************************************************************************)
(* What happens around the processes.                                      *)
(***************************************************************************)

(* A process is killed, or exits after SIGTERM.                            *)
Kill(p) ==
  /\ pc[p] # "stopped"
  /\ Disturb
  /\ Exit(p)
  /\ UNCHANGED broker

(* The orchestrator starts the slot again, with the same or another build. *)
(* (/tmp is the new container's own: no heartbeat file yet, which the      *)
(* health check forgives during its start period.)                         *)
Restart(p) ==
  /\ pc[p] = "stopped"
  /\ \E b \in Builds : build' = [build EXCEPT ![p] = b]
  /\ pc' = [pc EXCEPT ![p] = "connect"]
  /\ attempt' = [attempt EXCEPT ![p] = 1]
  /\ next' = [next EXCEPT ![p] = 1]
  /\ missed' = [missed EXCEPT ![p] = 0]
  /\ UNCHANGED <<broker, cached, bound, left>>

(* The broker goes away and comes back; stream and consumers are on disk,  *)
(* and the clients have subscribed again before it is up for anybody.      *)
Outage ==
  /\ \/ up /\ Disturb
     \/ ~up /\ UNCHANGED left
  /\ up' = ~up
  /\ UNCHANGED <<stream, consumer, build, pc, attempt, next, cached,
                 bound, missed>>

(* "nats consumer rm", as the RuntimeError of ensure_consumer_config says. *)
RemoveConsumer(q) ==
  /\ up /\ consumer[q] # None
  /\ Disturb
  /\ consumer' = [consumer EXCEPT ![q] = None]
  /\ UNCHANGED <<up, stream, build, pc, attempt, next, cached, bound, missed>>

(* "nats stream rm", as the RuntimeError of _ensure_stream says: the       *)
(* stream's consumers go with it.                                          *)
RemoveStream ==
  /\ up /\ stream # None
  /\ Disturb
  /\ stream' = None
  /\ consumer' = [q \in Names |-> None]
  /\ UNCHANGED <<up, build, pc, attempt, next, cached, bound, missed>>

Step(p) ==
  \/ Connect(p) \/ AddStream(p) \/ UpdateStream(p)
  \/ FindStream(p) \/ ReadConsumer(p) \/ WriteConsumer(p)
  \/ Subscribe(p) \/ Create(p) \/ Listen(p)

Next ==
  \/ \E p \in Workers : Step(p) \/ Poll(p) \/ Kill(p) \/ Restart(p)
  \/ Outage
  \/ \E q \in Names : RemoveConsumer(q)
  \/ RemoveStream

Spec == Init /\ [][Next]_vars

(* A process that is running takes its steps, and the poller polls; nobody *)
(* promises a restart, an outage's end or an operator.                     *)
FairSpec ==
  /\ Spec
  /\ \A p \in Workers : WF_vars(Step(p) \/ Poll(p))
--------------------------------------------------------------------------
(***************************************************************************)
(* Properties.                                                             *)
(***************************************************************************)
Labels == {"connect", "add_stream", "update_stream", "find", "read", "write",
           "subscribe", "create", "listen", "running", "stopped"}

(* The types of the variables.                                             *)
TypeOK ==
  /\ up \in BOOLEAN
  /\ stream \in StreamConfigs \cup {None}
  /\ consumer \in [Names -> Configs \cup {None}]
  /\ build \in [Workers -> Builds]
  /\ pc \in [Workers -> Labels]
  /\ attempt \in [Workers -> 1..MaxAttempts]
  /\ next \in [Workers -> 1..Len(Queues)]
  /\ cached \in [Workers -> Configs \cup {None}]
  /\ bound \in [Workers -> [Names -> Inboxes \cup {None}]]
  /\ missed \in [Workers -> 0..StaleAfter]
  /\ left \in 0..Disturbances

(* Settings that hold exactly what one build declares, wherever it         *)
(* declares anything.                                                      *)
OfOneBuild(settings) ==
  \E b \in Builds : \A s \in Settings :
    Declared[b][s] # Unset => settings[s] = Declared[b][s]

(* Whatever workers of different builds read and write between each other, *)
(* a consumer's settings are those an earlier build left, or all of one    *)
(* build's declaration: never one build's ack_wait with another's          *)
(* max_deliver (core/queue/helper.py:123-130, the evolve of what was read).*)
NeverMixed ==
  \A q \in Names : consumer[q] # None =>
    consumer[q].settings \in OldSettings \/ OfOneBuild(consumer[q].settings)

(* When every worker runs the same build and has subscribed to a queue,    *)
(* the rollout has landed: the queue's stored settings are the ones that   *)
(* build declares, whatever the old build's workers still wrote meanwhile  *)
(* (core/queue/helper.py:86-91, "writes those fields onto the existing     *)
(* durable first").                                                        *)
RolloutLands ==
  \A q \in Names : \A b \in Builds :
    (/\ consumer[q] # None /\ Workers # {}
     /\ \A w \in Workers : build[w] = b /\ bound[w][q] # None) =>
       \A s \in Settings : Declared[b][s] # Unset =>
          consumer[q].settings[s] = Declared[b][s]

(* Two workers that find no durable may both create it, and the one whose  *)
(* inbox was replaced before it listened is deaf for good.  But never all  *)
(* of them: once every worker is subscribed to a queue, one listens on the *)
(* subject the broker delivers to, whoever replaced, wrote back or removed *)
(* what meanwhile (core/queue/helper.py:96-104 and 123-125, "must go back  *)
(* exactly as they are").                                                  *)
SomebodyHears ==
  \A q \in Names :
    (/\ consumer[q] # None /\ Workers # {}
     /\ \A w \in Workers : bound[w][q] # None) => Heard(q)

(* A process is past init_nats only on a stream of the retention and       *)
(* storage its build declares, also when a stream was removed or created   *)
(* anew behind its back (core/queue/init.py:86-100).                       *)
OnDeclaredKind ==
  \A p \in Workers :
    (pc[p] \notin {"connect", "add_stream", "update_stream", "stopped"}
     /\ stream # None) => stream.kind = StreamOf[build[p]].kind

(* Every start ends: the process runs or it has exited for the             *)
(* orchestrator to see, whatever the broker does                           *)
(* (worker/main.py:205-230, range(1, _NATS_CONNECT_MAX_ATTEMPTS + 1)).     *)
StartupEnds ==
  \A p \in Workers : (pc[p] = "connect") ~> (pc[p] \in {"running", "stopped"})

(* A worker for which no consumer answers any more, for an outage or a     *)
(* removed stream, lets its heartbeat file grow old, unless one answers    *)
(* again (worker/main.py:253-259).                                         *)
LossIsVisible ==
  \A w \in Workers :
    (pc[w] = "running" /\ ~AnyAnswers) ~>
       (missed[w] = StaleAfter \/ pc[w] # "running" \/ AnyAnswers)

--------------------------------------------------------------------------
(***************************************************************************)
(* Statements of the documentation that TLC refutes; see the README.       *)
(***************************************************************************)

(* "A field config leaves at its default (None) keeps the broker's value"  *)
(* (core/queue/helper.py:112): a write changes only declared fields.       *)
UndeclaredKept ==
  [][\A p \in Workers : WriteConsumer(p) =>
       \A q \in Names : \A s \in Settings \ DeclaredFields(p) :
         consumer[q] # None /\ consumer'[q] # None =>
           consumer'[q].settings[s] = consumer[q].settings[s]]_vars

(* The tests' broker refuses another deliver subject whatever happens      *)
(* (tests/fake_jetstream.py:90-103), so that every worker that subscribed  *)
(* is heard as long as nothing is disturbed.                               *)
NobodyIsDeaf ==
  left = Disturbances =>
    \A q \in Names : \A w \in Workers :
      bound[w][q] # None =>
        consumer[q] # None /\ consumer[q].inbox = bound[w][q]

(* "distinguish a live worker from a hung one" (worker/main.py:57-59): a   *)
(* running worker that listens on a subject nobody delivers to is noticed. *)
DeafIsVisible ==
  \A w \in Workers : \A q \in Names :
    (pc[w] = "running" /\ consumer[q] = None) ~>
       (missed[w] = StaleAfter \/ pc[w] # "running" \/ consumer[q] # None)
=============================================================================
