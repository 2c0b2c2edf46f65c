--------------------------- MODULE QueueSetupProofs ---------------------------
(***************************************************************************)
(* Proofs about QueueSetup: what holds of the broker's consumers and of    *)
(* the stream however many workers, builds, queues and settings there are, *)
(* and however often they are disturbed.                                   *)
(*                                                                         *)
(* RolloutLands is not inductive: a worker that has subscribed may owe it  *)
(* to a durable that another one reconciled before.  Landed says it        *)
(* already of workers that have reconciled and are about to subscribe.     *)
(* Neither is SomebodyHears: Audience names, for each durable, a worker    *)
(* that listens on the stored inbox if it listens at all, the one that     *)
(* stored it last.                                                         *)
(***************************************************************************)
EXTENDS QueueSetup, TLAPS

\* The process has compared the queue's durable with its build, and is still
\* there.
Reconciled(w, q) ==
  bound[w][q] # None \/ (pc[w] \in {"subscribe", "create", "listen"} /\ Q(w) = q)

Holds(settings, b) ==
  \A s \in Settings : Declared[b][s] # Unset => settings[s] = Declared[b][s]

Landed ==
  \A q \in Names : \A b \in Builds :
    (/\ consumer[q] # None /\ Workers # {}
     /\ \A w \in Workers : build[w] = b /\ Reconciled(w, q)) =>
       Holds(consumer[q].settings, b)

\* The queue is the one being subscribed or comes after it.
Ahead(p, q) == \E j \in next[p]..Len(Queues) : q = Queues[j]

\* A process that has exited holds no subscription, one that writes or binds has
\* read, and queues are subscribed in their order.
Slot(p) ==
  /\ pc[p] = "stopped" => bound[p] = NotBound
  /\ pc[p] \in {"write", "listen"} => cached[p] # None
  /\ pc[p] # "running" => \A q \in Names : Ahead(p, q) => bound[p][q] = None

Slots == \A p \in Workers : Slot(p)

\* The worker listens, or is about to listen, on the stored inbox or not at all.
Tuned(w, q) ==
  /\ bound[w][q] \in {None, consumer[q].inbox}
  /\ pc[w] = "listen" /\ Q(w) = q => cached[w].inbox = consumer[q].inbox

Audience ==
  \A q \in Names : consumer[q] # None /\ Workers # {} => \E w \in Workers : Tuned(w, q)

IInv == TypeOK /\ Slots /\ NeverMixed /\ Landed /\ Audience /\ OnDeclaredKind

-----------------------------------------------------------------------------
LEMMA InitIInv == Init => IInv
<1> SUFFICES ASSUME Init PROVE IInv
  OBVIOUS
<1> USE SetupAssumption
<1>0. (CHOOSE i \in Inboxes : TRUE) \in Inboxes
  OBVIOUS
<1>1. \E c \in [settings : OldSettings, inbox : Inboxes] \cup {None} : consumer = [q \in Names |-> c]
  <2>1. PICK c \in [settings : OldSettings, inbox : {CHOOSE i \in Inboxes : TRUE}] \cup {None} :
               consumer = [q \in Names |-> c]
    BY DEF Init
  <2>2. c \in [settings : OldSettings, inbox : Inboxes] \cup {None}
    BY <1>0, <2>1
  <2> QED BY <2>1, <2>2
<1>2. TypeOK
  <2>1. consumer \in [Names -> Configs \cup {None}]
    BY <1>1 DEF Configs
  <2>2. bound \in [Workers -> [Names -> Inboxes \cup {None}]]
    BY DEF Init, NotBound
  <2>3. build \in [Workers -> Builds] /\ pc \in [Workers -> Labels]
    BY DEF Init, Labels
  <2> QED BY <2>1, <2>2, <2>3 DEF Init, TypeOK, StreamConfigs
<1>3. Slots
  BY DEF Init, Slots, Slot, NotBound
<1>4. NeverMixed
  BY <1>1 DEF NeverMixed
<1>5. Landed /\ Audience
  BY DEF Init, Landed, Audience, Tuned, Reconciled, NotBound
<1>6. OnDeclaredKind
  BY DEF Init, OnDeclaredKind
<1> QED BY <1>2, <1>3, <1>4, <1>5, <1>6 DEF IInv

\* The queue that is being subscribed is one of the deployment's.
LEMMA QueueIsNamed ==
  ASSUME TypeOK, NEW p \in Workers
  PROVE  Q(p) \in Names /\ Ahead(p, Q(p))
<1>1. next[p] \in 1..Len(Queues) /\ next[p] \in next[p]..Len(Queues)
  BY SetupAssumption DEF TypeOK
<1> QED BY <1>1 DEF Q, Names, Ahead

\* A step of one process leaves the other slots as they are.
LEMMA SlotsKept ==
  ASSUME Slots, NEW p \in Workers, Slot(p)',
         \A w \in Workers \ {p} : /\ pc'[w] = pc[w] /\ cached'[w] = cached[w]
                                  /\ bound'[w] = bound[w] /\ next'[w] = next[w]
  PROVE  Slots'
<1> SUFFICES ASSUME NEW w \in Workers \ {p} PROVE Slot(w)'
  BY DEF Slots
<1>1. \A q \in Names : Ahead(w, q)' <=> Ahead(w, q)
  BY DEF Ahead
<1> QED BY <1>1 DEF Slots, Slot

\* What a worker stores has its own build's declaration wherever it declares.
LEMMA EvolveHolds ==
  ASSUME TypeOK, NEW p \in Workers, NEW c \in Configs
  PROVE  /\ Evolve(c, p) \in Configs
         /\ Evolve(c, p).inbox = c.inbox
         /\ Holds(Evolve(c, p).settings, build[p])
<1> DEFINE e == [s \in Settings |-> IF s \in DeclaredFields(p)
                                    THEN Declared[build[p]][s] ELSE c.settings[s]]
<1>1. e \in [Settings -> Values] /\ Holds(e, build[p])
  BY SetupAssumption DEF TypeOK, DeclaredFields, Configs, Holds
<1>2. Evolve(c, p) = [settings |-> e, inbox |-> c.inbox] /\ c.inbox \in Inboxes
  BY DEF Evolve, Configs
<1> QED BY <1>1, <1>2 DEF Configs

LEMMA CreatedHolds ==
  ASSUME TypeOK, NEW p \in Workers, NEW i \in Inboxes
  PROVE  /\ Created(p, i) \in Configs
         /\ Created(p, i).inbox = i
         /\ Holds(Created(p, i).settings, build[p])
<1> DEFINE e == [s \in Settings |-> IF s \in DeclaredFields(p)
                                    THEN Declared[build[p]][s] ELSE Defaults[s]]
<1>1. e \in [Settings -> Values] /\ Holds(e, build[p])
  BY SetupAssumption DEF TypeOK, DeclaredFields, Holds
<1>2. Created(p, i) = [settings |-> e, inbox |-> i]
  BY DEF Created
<1> QED BY <1>1, <1>2 DEF Configs

-----------------------------------------------------------------------------
(* The effects of a step on what a worker shares with the others.           *)

\* Who stores a durable listens on its inbox or not at all, and its own
\* declaration holds of it; the others stay tuned to what is stored as it was.
\* Who is newly reconciled has seen the declaration hold.
Tunes ==
  \A q \in Names : consumer'[q] # None =>
    \/ \E w \in Workers : Tuned(w, q)'
    \/ consumer'[q] = consumer[q] /\ \A w \in Workers : Tuned(w, q) => Tuned(w, q)'

Stored ==
  \A q \in Names :
    \/ consumer'[q] \in {consumer[q], None}
    \/ \E p \in Workers : build'[p] \in Builds /\ Holds(consumer'[q].settings, build'[p])

Seen ==
  \A w \in Workers, q \in Names :
    Reconciled(w, q)' /\ consumer'[q] = consumer[q] /\ consumer[q] # None =>
      /\ build'[w] = build[w]
      /\ Reconciled(w, q) \/ Holds(consumer[q].settings, build[w])

Effects == Tunes /\ Stored /\ Seen

\* A step that leaves the durables alone and subscribes to nothing.
LEMMA QuietEffects ==
  ASSUME TypeOK, Slots, NEW p \in Workers, UNCHANGED <<consumer, build>>,
         \/ Exit(p)
         \/ pc[p] # "running" /\ InitFailed(p)
         \/ pc[p] # "running" /\ \E l \in {"add_stream", "update_stream", "find", "read"} : GoTo(p, l)
  PROVE  Effects /\ Slots'
<1> USE DEF TypeOK
<1>1. CASE Exit(p)
  <2>1. /\ \A w \in Workers \ {p} : pc'[w] = pc[w] /\ bound'[w] = bound[w] /\ cached'[w] = cached[w]
        /\ bound'[p] = NotBound /\ pc'[p] = "stopped" /\ UNCHANGED next
    BY <1>1 DEF Exit
  <2>2. \A q \in Names : bound'[p][q] = None
    BY <2>1 DEF NotBound
  <2>3. Tunes /\ Stored
    BY <2>1, <2>2 DEF Tunes, Tuned, Q, Stored
  <2>4. Seen
    BY <2>1, <2>2 DEF Seen, Reconciled, Q
  <2>5. Slots'
    BY <2>1, <2>2, SlotsKept DEF Slot
  <2> QED BY <2>1, <2>2, <2>3, <2>4, <2>5 DEF Effects
<1>2. CASE \E l \in {"connect", "add_stream", "update_stream", "find", "read"} :
             pc[p] # "running" /\ pc' = [pc EXCEPT ![p] = l] /\ UNCHANGED <<next, cached, bound>>
  <2>1. /\ pc[p] # "running" /\ \A w \in Workers \ {p} : pc'[w] = pc[w]
        /\ pc'[p] \notin {"stopped", "write", "subscribe", "create", "listen", "running"}
        /\ UNCHANGED <<next, cached, bound>>
    BY <1>2
  <2> QED BY <2>1 DEF Effects, Tunes, Tuned, Stored, Seen, Slots, Slot, Ahead, Reconciled, Q
<1> QED BY <1>1, <1>2 DEF InitFailed, GoTo

LEMMA StepEffects ==
  ASSUME TypeOK, Slots, NEW p \in Workers, Step(p)
  PROVE  Effects /\ Slots'
<1> USE DEF TypeOK
<1>0. Q(p) \in Names
  BY QueueIsNamed
<1>1. CASE Connect(p) \/ AddStream(p) \/ UpdateStream(p) \/ FindStream(p)
  <2>1. UNCHANGED <<consumer, build>>
    BY <1>1 DEF Connect, AddStream, UpdateStream, FindStream, broker, GoTo, InitFailed, InitDone, Exit
  <2>2. \/ Exit(p)
        \/ pc[p] # "running" /\ InitFailed(p)
        \/ pc[p] # "running" /\ \E l \in {"add_stream", "update_stream", "find", "read"} : GoTo(p, l)
    BY <1>1 DEF Connect, AddStream, UpdateStream, FindStream, InitDone
  <2> QED BY <2>1, <2>2, QuietEffects
<1>2. CASE ReadConsumer(p)
  <2>0. UNCHANGED <<consumer, build>>
    BY <1>2 DEF ReadConsumer, broker, Exit, GoTo, GoWith
  <2>1. CASE Exit(p)
    BY <2>0, <2>1, QuietEffects
  <2>2. CASE GoTo(p, "subscribe") /\ (consumer[Q(p)] = None \/ Matches(consumer[Q(p)].settings, p))
    <3>0. pc[p] = "read"
      BY <1>2 DEF ReadConsumer
    <3>1. /\ \A w \in Workers \ {p} : pc'[w] = pc[w]
          /\ pc'[p] = "subscribe" /\ UNCHANGED <<next, cached, bound>>
      BY <2>2 DEF GoTo
    <3>2. consumer[Q(p)] = None \/ Holds(consumer[Q(p)].settings, build[p])
      BY <2>2 DEF Matches, DeclaredFields, Holds
    <3> QED BY <2>0, <3>0, <3>1, <3>2 DEF Effects, Tunes, Tuned, Stored, Seen, Slots, Slot, Ahead, Reconciled, Q
  <2>3. CASE consumer[Q(p)] # None /\ GoWith(p, "write", consumer[Q(p)])
    <3>0. pc[p] # "running"
      BY <1>2 DEF ReadConsumer
    <3>1. /\ \A w \in Workers \ {p} : pc'[w] = pc[w] /\ cached'[w] = cached[w]
          /\ pc'[p] = "write" /\ cached'[p] # None /\ UNCHANGED <<next, bound>>
      BY <2>3 DEF GoWith
    <3>2. Tunes /\ Stored /\ Seen
      BY <2>0, <3>0, <3>1 DEF Tunes, Tuned, Stored, Seen, Reconciled, Q
    <3>3. Slots'
      <4>1. \A q \in Names : Ahead(p, q)' <=> Ahead(p, q)
        BY <3>1 DEF Ahead
      <4>2. Slot(p)'
        BY <3>0, <3>1, <4>1 DEF Slots, Slot
      <4> QED BY <3>1, <4>2, SlotsKept
    <3> QED BY <3>2, <3>3 DEF Effects
  <2> QED BY <1>2, <2>1, <2>2, <2>3 DEF ReadConsumer
<1>3. ASSUME NEW c \in Configs, consumer' = [consumer EXCEPT ![Q(p)] = c], UNCHANGED build,
             Holds(c.settings, build[p]), pc[p] \in {"write", "create"},
             Exit(p) \/ GoTo(p, "subscribe") \/ GoWith(p, "listen", c)
      PROVE  Effects /\ Slots'
  <2>1. /\ consumer'[Q(p)] = c /\ c # None /\ \A q \in Names \ {Q(p)} : consumer'[q] = consumer[q]
        /\ build'[p] = build[p] /\ build[p] \in Builds
    BY <1>0, <1>3, SetupAssumption
  <2>2. \A w \in Workers \ {p} : pc'[w] = pc[w] /\ cached'[w] = cached[w] /\ bound'[w] = bound[w] /\ next'[w] = next[w]
    BY <1>3 DEF Exit, GoTo, GoWith
  <2>a. bound[p][Q(p)] = None
    BY <1>0, <1>3, QueueIsNamed DEF Slots, Slot
  <2>3. CASE Exit(p)
    <3>1. bound'[p] = NotBound /\ pc'[p] = "stopped"
      BY <2>3 DEF Exit
    <3>2. \A q \in Names : bound'[p][q] = None
      BY <3>1 DEF NotBound
    <3>3. Tunes /\ Stored
      <4>1. \A q \in Names : Tuned(p, q)'
        BY <3>1, <3>2 DEF Tuned
      <4> QED BY <1>0, <1>3, <2>1, <4>1 DEF Tunes, Stored
    <3>4. Seen
      BY <1>0, <1>3, <2>1, <2>2, <3>1, <3>2 DEF Seen, Reconciled, Q
    <3>5. Slots'
      BY <2>2, <3>1, <3>2, SlotsKept DEF Slot
    <3> QED BY <3>3, <3>4, <3>5 DEF Effects
  <2>4. CASE GoTo(p, "subscribe")
    <3>1. bound'[p] = bound[p] /\ pc'[p] = "subscribe" /\ next'[p] = next[p] /\ cached'[p] = cached[p]
      BY <2>4 DEF GoTo
    <3>2. Tunes /\ Stored
      <4>1. \A q \in Names : q = Q(p) => Tuned(p, q)'
        BY <2>a, <3>1 DEF Tuned, Q
      <4>2. \A w \in Workers, q \in Names \ {Q(p)} : Tuned(w, q) => Tuned(w, q)'
        BY <2>1, <2>2, <3>1 DEF Tuned, Q
      <4>3. Tunes
        BY <2>1, <4>1, <4>2 DEF Tunes
      <4>4. Stored
        BY <1>3, <2>1 DEF Stored
      <4> QED BY <4>3, <4>4
    <3>3. Seen
      <4>1. \A w \in Workers, q \in Names : w # p \/ q # Q(p) => (Reconciled(w, q)' => Reconciled(w, q))
        BY <2>2, <3>1 DEF Reconciled, Q
      <4>2. UNCHANGED build
        BY <1>3
      <4> QED BY <1>3, <2>1, <4>1, <4>2 DEF Seen
    <3>4. Slots'
      <4>1. \A q \in Names : Ahead(p, q)' <=> Ahead(p, q)
        BY <3>1 DEF Ahead
      <4>2. Slot(p)'
        BY <1>3, <2>1, <3>1, <4>1 DEF Slots, Slot
      <4> QED BY <2>2, <4>2, SlotsKept
    <3> QED BY <3>2, <3>3, <3>4 DEF Effects
  <2>5. CASE GoWith(p, "listen", c)
    <3>1. bound'[p] = bound[p] /\ pc'[p] = "listen" /\ next'[p] = next[p] /\ cached'[p] = c
      BY <2>5 DEF GoWith
    <3>2. Tunes /\ Stored
      <4>1. \A q \in Names : q = Q(p) => Tuned(p, q)'
        BY <2>1, <2>a, <3>1 DEF Tuned, Q
      <4>2. \A w \in Workers, q \in Names \ {Q(p)} : Tuned(w, q) => Tuned(w, q)'
        BY <2>1, <2>2, <3>1 DEF Tuned, Q
      <4>3. Tunes
        BY <2>1, <4>1, <4>2 DEF Tunes
      <4>4. Stored
        BY <1>3, <2>1 DEF Stored
      <4> QED BY <4>3, <4>4
    <3>3. Seen
      <4>1. \A w \in Workers, q \in Names : w # p \/ q # Q(p) => (Reconciled(w, q)' => Reconciled(w, q))
        BY <2>2, <3>1 DEF Reconciled, Q
      <4>2. UNCHANGED build
        BY <1>3
      <4> QED BY <1>3, <2>1, <4>1, <4>2 DEF Seen
    <3>4. Slots'
      <4>1. \A q \in Names : Ahead(p, q)' <=> Ahead(p, q)
        BY <3>1 DEF Ahead
      <4>2. Slot(p)'
        BY <1>3, <2>1, <3>1, <4>1 DEF Slots, Slot
      <4> QED BY <2>2, <4>2, SlotsKept
    <3> QED BY <3>2, <3>3, <3>4 DEF Effects
  <2> QED BY <1>3, <2>3, <2>4, <2>5
<1>4. CASE WriteConsumer(p)
  <2>1. cached[p] \in Configs
    BY <1>4 DEF WriteConsumer, Slots, Slot
  <2>2. CASE UNCHANGED consumer /\ Exit(p)
    BY <1>4, <2>2, QuietEffects DEF WriteConsumer, Exit
  <2>3. CASE /\ Accepts(Q(p), cached[p].inbox)
             /\ consumer' = [consumer EXCEPT ![Q(p)] = Evolve(cached[p], p)]
             /\ GoTo(p, "subscribe") \/ Exit(p)
    <3>1. pc[p] = "write" /\ UNCHANGED build
      BY <1>4, <2>3 DEF WriteConsumer, GoTo, Exit
    <3> HIDE DEF TypeOK
    <3> QED BY <1>3, <2>1, <2>3, <3>1, EvolveHolds
  <2> QED BY <1>4, <2>2, <2>3 DEF WriteConsumer
<1>5. CASE Subscribe(p)
  <2>0. UNCHANGED <<consumer, build>> /\ pc[p] = "subscribe"
    BY <1>5 DEF Subscribe, broker, Exit, GoTo, GoWith
  <2>1. CASE Exit(p)
    BY <2>0, <2>1, QuietEffects
  <2>2. CASE GoTo(p, "create")
    <3>1. /\ \A w \in Workers \ {p} : pc'[w] = pc[w]
          /\ pc'[p] = "create" /\ UNCHANGED <<next, cached, bound>>
      BY <2>2 DEF GoTo
    <3> QED BY <2>0, <3>1 DEF Effects, Tunes, Tuned, Stored, Seen, Slots, Slot, Ahead, Reconciled, Q
  <2>3. CASE consumer[Q(p)] # None /\ GoWith(p, "listen", consumer[Q(p)])
    <3>1. /\ \A w \in Workers \ {p} : pc'[w] = pc[w] /\ cached'[w] = cached[w]
          /\ pc'[p] = "listen" /\ cached'[p] = consumer[Q(p)] /\ UNCHANGED <<next, bound>>
      BY <2>3 DEF GoWith
    <3> QED BY <2>0, <2>3, <3>1 DEF Effects, Tunes, Tuned, Stored, Seen, Slots, Slot, Ahead, Reconciled, Q
  <2> QED BY <1>5, <2>1, <2>2, <2>3 DEF Subscribe
<1>6. CASE Create(p)
  <2> DEFINE i == FreshInbox(Q(p))
  <2>1. i \in Inboxes
    BY <1>6 DEF Create, FreshInbox, Fresh
  <2> HIDE DEF i
  <2>2. CASE UNCHANGED consumer /\ Exit(p)
    BY <1>6, <2>2, QuietEffects DEF Create, Exit
  <2>3. CASE /\ Accepts(Q(p), i)
             /\ consumer' = [consumer EXCEPT ![Q(p)] = Created(p, i)]
             /\ GoWith(p, "listen", Created(p, i)) \/ Exit(p)
    <3>1. pc[p] = "create" /\ UNCHANGED build
      BY <1>6, <2>3 DEF Create, GoWith, Exit
    <3> HIDE DEF TypeOK
    <3>2. Created(p, i) \in Configs /\ Holds(Created(p, i).settings, build[p])
      BY <2>1, CreatedHolds
    <3> QED BY <1>3, <2>3, <3>1, <3>2
  <2>4. /\ Created(p, i).inbox = i
        /\ \/ UNCHANGED consumer /\ Exit(p)
           \/ /\ Accepts(Q(p), Created(p, i).inbox)
              /\ consumer' = [consumer EXCEPT ![Q(p)] = Created(p, i)]
              /\ GoWith(p, "listen", Created(p, i)) \/ Exit(p)
    BY <1>6, <2>1, CreatedHolds DEF Create, i
  <2> QED BY <2>2, <2>3, <2>4
<1>7. CASE Listen(p)
  <2>0. UNCHANGED <<consumer, build>> /\ pc[p] = "listen" /\ Subscribed(p, cached[p].inbox)
    BY <1>7 DEF Listen, broker, Subscribed
  <2>1. \A w \in Workers \ {p} : pc'[w] = pc[w] /\ cached'[w] = cached[w] /\ bound'[w] = bound[w] /\ next'[w] = next[w]
    BY <2>0 DEF Subscribed
  <2>2. /\ bound'[p] = [bound[p] EXCEPT ![Q(p)] = cached[p].inbox]
        /\ pc'[p] = "running" \/ (pc'[p] = "find" /\ next'[p] = next[p] + 1)
    BY <2>0 DEF Subscribed
  <2>3. bound'[p][Q(p)] = cached[p].inbox /\ \A q \in Names \ {Q(p)} : bound'[p][q] = bound[p][q]
    BY <1>0, <2>2
  <2>4. Tunes /\ Stored
    <3>1. \A w \in Workers, q \in Names : Tuned(w, q) => Tuned(w, q)'
      BY <1>0, <2>0, <2>1, <2>2, <2>3 DEF Tuned, Q
    <3> QED BY <2>0, <3>1 DEF Tunes, Stored
  <2>5. Seen
    <3>1. \A w \in Workers, q \in Names : Reconciled(w, q)' => Reconciled(w, q)
      BY <1>0, <2>0, <2>1, <2>2, <2>3 DEF Reconciled, Q
    <3> QED BY <2>0, <3>1 DEF Seen
  <2>6. Slots'
    <3>1. ASSUME pc'[p] # "running", NEW q \in Names, Ahead(p, q)'
          PROVE  bound'[p][q] = None
      <4>1. PICK j \in next'[p]..Len(Queues) : q = Queues[j]
        BY <3>1 DEF Ahead
      <4>2. j \in 1..Len(Queues) /\ j \in next[p]..Len(Queues) /\ j # next[p] /\ next[p] \in 1..Len(Queues)
        BY <2>2, <3>1, SetupAssumption
      <4>3. Ahead(p, q) /\ q # Q(p)
        BY <4>1, <4>2, SetupAssumption DEF Ahead, Q
      <4> QED BY <2>0, <2>3, <4>3 DEF Slots, Slot
    <3>2. pc'[p] \notin {"stopped", "write", "listen"}
      BY <2>2
    <3> QED BY <2>1, <3>1, <3>2, SlotsKept DEF Slot
  <2> QED BY <2>4, <2>5, <2>6 DEF Effects
<1> QED BY <1>1, <1>2, <1>4, <1>5, <1>6, <1>7 DEF Step

LEMMA AroundEffects ==
  ASSUME TypeOK, Slots, Next, \A p \in Workers : ~ Step(p)
  PROVE  Effects /\ Slots'
<1> USE DEF TypeOK
<1>1. ASSUME NEW p \in Workers, Poll(p)
      PROVE  Effects /\ Slots'
  BY <1>1 DEF Poll, broker, Effects, Tunes, Tuned, Stored, Seen, Slots, Slot, Ahead, Reconciled, Q
<1>2. ASSUME NEW p \in Workers, Kill(p)
      PROVE  Effects /\ Slots'
  BY <1>2, QuietEffects DEF Kill, broker, Exit
<1>3. ASSUME NEW p \in Workers, Restart(p)
      PROVE  Effects /\ Slots'
  <2>1. /\ \A w \in Workers \ {p} : pc'[w] = pc[w] /\ next'[w] = next[w] /\ build'[w] = build[w]
        /\ pc'[p] = "connect" /\ bound[p] = NotBound /\ UNCHANGED <<consumer, cached, bound>>
        /\ next'[p] = 1
    BY <1>3 DEF Restart, broker, Slots, Slot
  <2>2. \A q \in Names : bound[p][q] = None
    BY <2>1 DEF NotBound
  <2>3. Tunes /\ Stored /\ Seen
    BY <2>1, <2>2 DEF Tunes, Tuned, Stored, Seen, Reconciled, Q
  <2>4. Slots'
    BY <2>1, <2>2, SlotsKept DEF Slot
  <2> QED BY <2>3, <2>4 DEF Effects
<1>4. CASE Outage
  BY <1>4 DEF Outage, Effects, Tunes, Tuned, Stored, Seen, Slots, Slot, Ahead, Reconciled, Q
<1>5. CASE (\E q \in Names : RemoveConsumer(q)) \/ RemoveStream
  <2>1. /\ UNCHANGED <<build, pc, next, cached, bound>>
        /\ \A q \in Names : consumer'[q] \in {consumer[q], None}
    BY <1>5 DEF RemoveConsumer, RemoveStream
  <2> QED BY <2>1 DEF Effects, Tunes, Tuned, Stored, Seen, Slots, Slot, Ahead, Reconciled, Q
<1> QED BY <1>1, <1>2, <1>3, <1>4, <1>5 DEF Next

\* The part of TypeOK that concerns the processes.
SlotTypes ==
  /\ build \in [Workers -> Builds] /\ pc \in [Workers -> Labels]
  /\ attempt \in [Workers -> 1..MaxAttempts] /\ next \in [Workers -> 1..Len(Queues)]
  /\ cached \in [Workers -> Configs \cup {None}]
  /\ bound \in [Workers -> [Names -> Inboxes \cup {None}]]
  /\ missed \in [Workers -> 0..StaleAfter]

LEMMA TypeStep ==
  ASSUME TypeOK, Slots, [Next]_vars
  PROVE  TypeOK'
<1> USE SetupAssumption DEF TypeOK
<1>a. /\ {"connect", "add_stream", "update_stream", "find", "read", "write",
           "subscribe", "create", "listen", "running", "stopped"} = Labels
      /\ NotBound \in [Names -> Inboxes \cup {None}]
  BY DEF Labels, NotBound
<1>b. ASSUME Disturb
      PROVE  left' \in 0..Disturbances
  BY <1>b DEF Disturb
<1>c. ASSUME NEW p \in Workers, Exit(p) \/ InitFailed(p) \/ \E l \in Labels : GoTo(p, l)
      PROVE  SlotTypes'
  <2>1. CASE Exit(p)
    <3>1. pc' \in [Workers -> Labels] /\ cached' \in [Workers -> Configs \cup {None}]
      BY <1>a, <2>1 DEF Exit
    <3>2. bound' \in [Workers -> [Names -> Inboxes \cup {None}]]
      BY <1>a, <2>1 DEF Exit
    <3> QED BY <2>1, <3>1, <3>2 DEF Exit, SlotTypes
  <2>2. CASE ~ Exit(p) /\ InitFailed(p)
    <3>1. pc' \in [Workers -> Labels]
      BY <1>a, <2>2 DEF InitFailed
    <3>2. attempt' \in [Workers -> 1..MaxAttempts]
      <4>1. attempt[p] < MaxAttempts => attempt[p] + 1 \in 1..MaxAttempts
        OBVIOUS
      <4> QED BY <2>2, <4>1 DEF InitFailed
    <3> QED BY <2>2, <3>1, <3>2 DEF InitFailed, SlotTypes
  <2>3. CASE \E l \in Labels : GoTo(p, l)
    BY <2>3 DEF GoTo, SlotTypes
  <2> QED BY <1>c, <2>1, <2>2, <2>3
<1>d. ASSUME NEW p \in Workers, NEW i \in Inboxes, Subscribed(p, i)
      PROVE  SlotTypes'
  <2>1. pc' \in [Workers -> Labels] /\ cached' \in [Workers -> Configs \cup {None}]
    BY <1>a, <1>d DEF Subscribed
  <2>2. next' \in [Workers -> 1..Len(Queues)]
    <3>1. UNCHANGED next \/ (next[p] # Len(Queues) /\ next' = [next EXCEPT ![p] = next[p] + 1])
      BY <1>d DEF Subscribed
    <3>2. next[p] # Len(Queues) => next[p] + 1 \in 1..Len(Queues)
      OBVIOUS
    <3> QED BY <3>1, <3>2
  <2>3. [bound[p] EXCEPT ![Q(p)] = i] \in [Names -> Inboxes \cup {None}]
    OBVIOUS
  <2>4. bound' = [bound EXCEPT ![p] = [bound[p] EXCEPT ![Q(p)] = i]]
    BY <1>d DEF Subscribed
  <2>5. bound' \in [Workers -> [Names -> Inboxes \cup {None}]]
    BY <2>3, <2>4
  <2> QED BY <1>d, <2>1, <2>2, <2>5 DEF Subscribed, SlotTypes
<1>e. ASSUME NEW p \in Workers, NEW l \in Labels, NEW c \in Configs, GoWith(p, l, c)
      PROVE  SlotTypes'
  BY <1>e DEF GoWith, SlotTypes
<1>1. ASSUME NEW p \in Workers, Step(p)
      PROVE  TypeOK'
  <2>0. Q(p) \in Names /\ StreamOf[build[p]] \in StreamConfigs
    BY QueueIsNamed DEF StreamConfigs
  <2>1. CASE Connect(p) \/ FindStream(p)
    BY <1>a, <1>c, <2>1 DEF Connect, FindStream, broker, SlotTypes
  <2>2. CASE AddStream(p) \/ UpdateStream(p)
    <3>1. Exit(p) \/ InitFailed(p) \/ \E l \in Labels : GoTo(p, l)
      BY <1>a, <2>2 DEF AddStream, UpdateStream, InitDone
    <3>2. stream' \in StreamConfigs \cup {None} /\ left' \in 0..Disturbances /\ UNCHANGED <<up, consumer>>
      BY <1>b, <2>0, <2>2 DEF AddStream, UpdateStream
    <3> QED BY <1>c, <3>1, <3>2 DEF SlotTypes
  <2>3. CASE ReadConsumer(p)
    <3>1. CASE Exit(p) \/ \E l \in Labels : GoTo(p, l)
      BY <1>c, <2>3, <3>1 DEF ReadConsumer, broker, SlotTypes
    <3>2. CASE consumer[Q(p)] # None /\ GoWith(p, "write", consumer[Q(p)])
      <4>1. consumer[Q(p)] \in Configs
        BY <2>0, <3>2
      <4> QED BY <1>a, <1>e, <2>3, <3>2, <4>1 DEF ReadConsumer, broker, SlotTypes
    <3> QED BY <1>a, <2>3, <3>1, <3>2 DEF ReadConsumer
  <2>4. CASE WriteConsumer(p)
    <3>1. Exit(p) \/ \E l \in Labels : GoTo(p, l)
      BY <1>a, <2>4 DEF WriteConsumer
    <3>2. Evolve(cached[p], p) \in Configs
      BY <2>4, EvolveHolds DEF WriteConsumer, Slots, Slot
    <3>3. consumer' \in [Names -> Configs \cup {None}] /\ left' \in 0..Disturbances /\ UNCHANGED <<up, stream>>
      BY <1>b, <2>0, <2>4, <3>2 DEF WriteConsumer
    <3> QED BY <1>c, <3>1, <3>3 DEF SlotTypes
  <2>5. CASE Subscribe(p)
    <3>1. CASE Exit(p) \/ \E l \in Labels : GoTo(p, l)
      BY <1>c, <2>5, <3>1 DEF Subscribe, broker, SlotTypes
    <3>2. CASE consumer[Q(p)] # None /\ GoWith(p, "listen", consumer[Q(p)])
      <4>1. consumer[Q(p)] \in Configs
        BY <2>0, <3>2
      <4> QED BY <1>a, <1>e, <2>5, <3>2, <4>1 DEF Subscribe, broker, SlotTypes
    <3> QED BY <1>a, <2>5, <3>1, <3>2 DEF Subscribe
  <2>6. CASE Create(p)
    <3> DEFINE i == FreshInbox(Q(p))
    <3>1. i \in Inboxes
      BY <2>6 DEF Create, FreshInbox, Fresh
    <3> HIDE DEF i
    <3>2. Created(p, i) \in Configs
      BY <3>1, CreatedHolds
    <3>3. Exit(p) \/ GoWith(p, "listen", Created(p, i))
      BY <2>6 DEF Create, i
    <3>4. consumer' \in [Names -> Configs \cup {None}] /\ left' \in 0..Disturbances /\ UNCHANGED <<up, stream>>
      <4>1. CASE UNCHANGED <<consumer, left>>
        BY <2>6, <4>1 DEF Create
      <4>2. CASE consumer' = [consumer EXCEPT ![Q(p)] = Created(p, i)] /\ (Disturb \/ UNCHANGED left)
        <5>1. left' \in 0..Disturbances
          BY <1>b, <4>2
        <5> QED BY <2>0, <2>6, <3>2, <4>2, <5>1 DEF Create
      <4> QED BY <2>6, <4>1, <4>2 DEF Create, i
    <3>5. SlotTypes'
      BY <1>a, <1>c, <1>e, <3>2, <3>3
    <3> QED BY <3>4, <3>5 DEF SlotTypes
  <2>7. CASE Listen(p)
    <3>1. cached[p].inbox \in Inboxes
      BY <2>7 DEF Listen, Slots, Slot, Configs
    <3> QED BY <1>d, <2>7, <3>1 DEF Listen, broker, SlotTypes
  <2> QED BY <1>1, <2>1, <2>2, <2>3, <2>4, <2>5, <2>6, <2>7 DEF Step
<1>2. ASSUME NEW p \in Workers, Poll(p) \/ Restart(p)
      PROVE  TypeOK'
  <2>1. CASE Poll(p)
    BY <2>1 DEF Poll, broker
  <2>2. CASE Restart(p)
    BY <1>a, <2>2 DEF Restart, broker
  <2> QED BY <1>2, <2>1, <2>2
<1>3. ASSUME NEW p \in Workers, Kill(p)
      PROVE  TypeOK'
  BY <1>b, <1>c, <1>3 DEF Kill, broker, SlotTypes
<1>4. CASE Outage \/ (\E q \in Names : RemoveConsumer(q)) \/ RemoveStream
  BY <1>b, <1>4 DEF Outage, RemoveConsumer, RemoveStream
<1>5. CASE UNCHANGED vars
  BY <1>5 DEF vars
<1> QED BY <1>1, <1>2, <1>3, <1>4, <1>5 DEF Next

\* Who is past init_nats was there before, or has just seen or made the stream.
LEMMA KindStep ==
  ASSUME TypeOK, OnDeclaredKind, Next
  PROVE  OnDeclaredKind'
<1> DEFINE Early == {"connect", "add_stream", "update_stream", "stopped"}
<1> USE SetupAssumption DEF TypeOK
<1>1. ASSUME UNCHANGED stream \/ stream' = None,
             \A w \in Workers : pc'[w] \in Early \/ (pc[w] \notin Early /\ build'[w] = build[w])
      PROVE  OnDeclaredKind'
  BY <1>1 DEF OnDeclaredKind
<1>2. ASSUME NEW b \in Builds, stream' = StreamOf[b], build' \in [Workers -> Builds]
      PROVE  OnDeclaredKind'
  BY <1>2 DEF OnDeclaredKind
<1>3. ASSUME NEW p \in Workers, AddStream(p) \/ UpdateStream(p)
      PROVE  OnDeclaredKind'
  <2>1. UNCHANGED build /\ \A w \in Workers \ {p} : pc'[w] = pc[w]
    BY <1>3 DEF AddStream, UpdateStream, InitFailed, InitDone, Exit, GoTo
  <2>2. stream' = StreamOf[build[p]] \/ (UNCHANGED stream /\ pc'[p] \in Early)
    BY <1>3 DEF AddStream, UpdateStream, InitFailed, InitDone, Exit, GoTo
  <2> QED BY <1>1, <1>2, <2>1, <2>2
<1>4. ASSUME NEW p \in Workers, Step(p), ~ (AddStream(p) \/ UpdateStream(p))
      PROVE  OnDeclaredKind'
  <2>1. UNCHANGED <<stream, build>>
    BY <1>4 DEF Step, Connect, FindStream, ReadConsumer, WriteConsumer, Subscribe, Create, Listen, broker,
       InitFailed, Exit, GoTo, GoWith, Subscribed
  <2>2. \A w \in Workers : pc'[w] = pc[w] \/ pc'[w] \in Early \/ pc[w] \notin Early
    BY <1>4 DEF Step, Connect, FindStream, ReadConsumer, WriteConsumer, Subscribe, Create, Listen,
       InitFailed, Exit, GoTo, GoWith, Subscribed
  <2> QED BY <1>1, <2>1, <2>2
<1>5. ASSUME NEW p \in Workers, Poll(p) \/ Kill(p) \/ Restart(p)
      PROVE  OnDeclaredKind'
  <2>1. UNCHANGED stream /\ \A w \in Workers : pc'[w] \in Early \/ (pc'[w] = pc[w] /\ build'[w] = build[w])
    BY <1>5 DEF Poll, Kill, Restart, Exit, broker
  <2> QED BY <1>1, <2>1
<1>6. CASE Outage \/ (\E q \in Names : RemoveConsumer(q)) \/ RemoveStream
  BY <1>1, <1>6 DEF Outage, RemoveConsumer, RemoveStream
<1> QED BY <1>3, <1>4, <1>5, <1>6 DEF Next

LEMMA IInvStep ==
  ASSUME IInv, [Next]_vars
  PROVE  IInv'
<1> USE DEF IInv
<1>0. TypeOK'
  BY TypeStep
<1>1. CASE Next
  <2>1. Effects /\ Slots'
    BY <1>1, StepEffects, AroundEffects
  <2>2. NeverMixed'
    BY <2>1 DEF Effects, Stored, NeverMixed, OfOneBuild, Holds
  <2>3. Landed'
    <3> SUFFICES ASSUME NEW q \in Names, NEW b \in Builds, consumer'[q] # None, Workers # {},
                        \A w \in Workers : build'[w] = b /\ Reconciled(w, q)'
                 PROVE  Holds(consumer'[q].settings, b)
      BY DEF Landed, Holds
    <3>1. CASE consumer'[q] = consumer[q]
      <4>1. \A w \in Workers : build[w] = b /\ (Reconciled(w, q) \/ Holds(consumer[q].settings, b))
        BY <2>1, <3>1 DEF Effects, Seen
      <4> QED BY <3>1, <4>1 DEF Landed
    <3>2. CASE consumer'[q] # consumer[q]
      BY <2>1, <3>2 DEF Effects, Stored
    <3> QED BY <3>1, <3>2
  <2>4. Audience'
    <3> SUFFICES ASSUME NEW q \in Names, consumer'[q] # None, Workers # {}
                 PROVE  \E w \in Workers : Tuned(w, q)'
      BY DEF Audience
    <3>1. CASE \E w \in Workers : Tuned(w, q)'
      BY <3>1
    <3>2. CASE consumer'[q] = consumer[q] /\ \A w \in Workers : Tuned(w, q) => Tuned(w, q)'
      BY <3>2 DEF Audience
    <3> QED BY <2>1, <3>1, <3>2 DEF Effects, Tunes
  <2>5. OnDeclaredKind'
    BY <1>1, KindStep
  <2> QED BY <1>0, <2>1, <2>2, <2>3, <2>4, <2>5
<1>2. CASE UNCHANGED vars
  BY <1>0, <1>2 DEF vars, Slots, Slot, Ahead, NeverMixed, Landed, Reconciled, Q, Audience, Tuned, OnDeclaredKind
<1> QED BY <1>1, <1>2

LEMMA IInvHolds == Spec => []IInv
BY InitIInv, IInvStep, PTL DEF Spec

-----------------------------------------------------------------------------
(* The properties.                                                          *)

\* Whatever workers of different builds read and write between each other, a
\* durable holds one build's declaration or an earlier one's settings.
THEOREM BuildsNeverMix == Spec => []NeverMixed
BY IInvHolds, PTL DEF IInv

\* Once every worker runs the new build and has subscribed to a queue, the
\* queue's durable holds what that build declares: every write is its
\* writer's whole declaration, and a writer of another build is not subscribed.
THEOREM RolloutsLand == Spec => []RolloutLands
<1>1. IInv => RolloutLands
  BY DEF IInv, Landed, Reconciled, Holds, RolloutLands
<1> QED BY <1>1, IInvHolds, PTL

\* Once every worker is subscribed to a queue, one of them listens on the
\* subject the broker delivers to, however creations, writes, removals and
\* exits came in between: the worker that stored the durable last went on to
\* listen on the inbox it stored.
THEOREM SubscribersHear == Spec => []SomebodyHears
<1>1. IInv => SomebodyHears
  <2> SUFFICES ASSUME IInv, NEW q \in Names, consumer[q] # None, Workers # {},
                      \A w \in Workers : bound[w][q] # None
               PROVE  Heard(q)
    BY DEF SomebodyHears
  <2>1. PICK w \in Workers : Tuned(w, q)
    BY DEF IInv, Audience
  <2> QED BY <2>1 DEF Tuned, Heard
<1> QED BY <1>1, IInvHolds, PTL

\* No worker is past init_nats on a stream of another retention or storage than
\* its build declares.
THEOREM StreamKindHolds == Spec => []OnDeclaredKind
BY IInvHolds, PTL DEF IInv
=============================================================================
