------------------------ MODULE RequestIntakeProofs ------------------------
(* Whatever is asked for, by however many callers: requests stay inside the   *)
(* window and the buffers, and batches are taken whole.                       *)
EXTENDS RequestIntake, TLAPS

Labels == {"idle", "register", "admit", "execute", "executing", "wait", "release", "done"}
Outcomes == {"none", "empty", "refused", "accepted"}

-----------------------------------------------------------------------------
(* The inductive invariant. *)

\* Where a call is tells its route and what has become of it.
CallsOK ==
    /\ owner \in Callers \union {None}
    /\ call \in [Callers -> Calls \union {None}]
    /\ pc \in [Callers -> Labels] /\ outcome \in [Callers -> Outcomes]
    /\ \A c \in Callers :
        /\ pc[c] # "idle" => call[c] \in Calls
        /\ pc[c] \in {"idle", "register", "admit", "execute"} => outcome[c] = "none"
        /\ pc[c] \in {"wait", "executing"} => outcome[c] = "accepted"
        /\ pc[c] = "release" => outcome[c] = "refused"
        /\ pc[c] \in {"register", "wait", "release"} => Front(call[c])
        /\ pc[c] = "admit" => call[c].route # "rollout"
        /\ pc[c] \in {"execute", "executing"} => call[c].route = "rollout"

\* The scheduler has taken the prompts of the accepted calls.
BooksOK ==
    /\ accepted \subseteq Callers \X Nat
    /\ \A c \in Callers : \A i \in Nat :
        <<c, i>> \in accepted <=> outcome[c] = "accepted" /\ i \in Positions(call[c])

IsRequest(s) ==
    s = [by |-> s.by, at |-> s.at, open |-> s.open, out |-> s.out, prompt |-> s.prompt,
         budget |-> s.budget, settings |-> s.settings]
Sizes(s) ==
    /\ s.prompt \in Nat /\ s.budget \in Nat /\ s.out \in Nat
    /\ 1 <= s.prompt /\ s.prompt + s.budget <= MaxSeqLen /\ s.out <= s.budget
    /\ s.open \in BOOLEAN /\ (s.open => s.out < s.budget)
\* Request s of id r belongs to the position of the call it was made for.
Belongs(r, s) ==
    /\ s.by \in Callers /\ s.at \in Nat
    /\ <<s.by, s.at>> \in accepted
    /\ r = Id(s.by, s.at)
    /\ call[s.by].ids # <<>> => s.at \in DOMAIN call[s.by].ids
    /\ s.open /\ Front(call[s.by]) => pc[s.by] = "wait"
RequestsOK ==
    \A r \in DOMAIN states : IsRequest(states[r]) /\ Sizes(states[r]) /\ Belongs(r, states[r])

\* A call of the front end has its ids registered from before it is admitted to its release.
Registers(c) == pc[c] \in {"admit", "wait", "release"} /\ Front(call[c])
\* A buffer holds no more events than its request has had tokens: none before it is admitted.
BuffersOK ==
    /\ lost = {}
    /\ \A r \in Tracked : buffer[r] \in Nat /\ buffer[r] <= Capacity
    /\ \A r \in Tracked : \E c \in Callers : Registers(c) /\ r \in Ids(c)
    /\ \A c \in Callers : Registers(c) => Ids(c) \subseteq Tracked
    /\ \A c \in Callers : \A r \in Tracked :
        pc[c] = "admit" /\ Front(call[c]) /\ r \in Ids(c) => buffer[r] = 0
    /\ \A r \in Tracked \intersect Live : buffer[r] <= states[r].out

IntakeInv == CallsOK /\ BooksOK /\ RequestsOK /\ BuffersOK

-----------------------------------------------------------------------------
(* The operators. *)

\* An id is minted for one position of one call unless the caller of the core chose it.
LEMMA MintedIds ==
    ASSUME NEW c \in Callers, call[c] \in Calls, call[c].ids = <<>>
    PROVE  \A i : Id(c, i) = <<c, i>>
BY DEF Id

\* A call of the front end numbers its prompts under its own name.
LEMMA FrontIds ==
    ASSUME NEW c \in Callers, call[c] \in Calls, Front(call[c])
    PROVE  /\ Ids(c) = {<<c, i>> : i \in DOMAIN call[c].prompts}
           /\ DOMAIN call[c].prompts \subseteq Nat
<1>1. call[c].ids = <<>>
  BY IntakeAssumption DEF Front
<1>2. DOMAIN call[c].prompts = 1..Len(call[c].prompts) /\ Len(call[c].prompts) \in Nat
  BY IntakeAssumption
<1> QED
  BY <1>1, <1>2, MintedIds DEF Ids

\* The ids of two calls differ when one of them is the front end's.
LEMMA IdsOfOthers ==
    ASSUME NEW c \in Callers, call[c] \in Calls, Front(call[c]),
           NEW d \in Callers, call[d] \in Calls,
           NEW i, call[d].ids # <<>> => i \in DOMAIN call[d].ids,
           Id(d, i) \in Ids(c)
    PROVE  d = c /\ i \in DOMAIN call[c].prompts
<1>1. Id(d, i) \in Callers \X Nat
  BY FrontIds
<1>2. call[d].ids = <<>>
  <2> SUFFICES ASSUME call[d].ids # <<>> PROVE FALSE
    OBVIOUS
  <2> QED
    BY <1>1, IntakeAssumption DEF Id
<1>3. Id(d, i) = <<d, i>>
  BY <1>2, MintedIds
<1> QED
  BY <1>3, FrontIds

\* The budget of a supported configuration fits the room the prompt leaves.
LEMMA BudgetFits ==
    ASSUME NEW config, Supported(config), NEW len \in Nat, len <= MaxSeqLen
    PROVE  Budget(config, len) \in Nat /\ len + Budget(config, len) <= MaxSeqLen
<1> DEFINE asked == Get(config, "max_new_tokens", None)
<1>1. asked \in Nat \/ asked = None
  BY DEF Supported
<1>2. asked = None => Get(config, "max_length", 20) \in Nat
  BY DEF Supported
<1>3. "max_length" \in DOMAIN config /\ asked = None => config["max_length"] \in Nat
  BY <1>2 DEF Get
<1>4. MaxSeqLen - len \in Nat
  BY IntakeAssumption
<1>5. CASE asked # None
  BY <1>1, <1>4, <1>5, IntakeAssumption DEF Budget, Room, Least
<1>6. CASE asked = None
  BY <1>3, <1>4, <1>6, IntakeAssumption DEF Budget, Room, Least
<1> QED
  BY <1>5, <1>6

\* A request of a call that add_requests or run_batch let through starts inside the window.
LEMMA RequestStarts ==
    ASSUME NEW c \in Callers, call[c] \in Calls, NEW i \in Positions(call[c]),
           call[c].route # "rollout" => WellFormed(call[c])
    PROVE  /\ IsRequest(Request(c, i))
           /\ Request(c, i).by = c /\ Request(c, i).at = i /\ i \in Nat
           /\ Request(c, i).open = TRUE /\ Request(c, i).out = 0
           /\ Request(c, i).prompt \in Nat /\ Request(c, i).budget \in Nat
           /\ 1 <= Request(c, i).prompt
           /\ Request(c, i).prompt + Request(c, i).budget <= MaxSeqLen
           /\ (call[c].route = "rollout" => Request(c, i).budget > 0)
           /\ (call[c].ids # <<>> => i \in DOMAIN call[c].ids)
<1> DEFINE k == call[c]
<1>0. k.prompts \in Seq(Nat)
  BY IntakeAssumption
<1>1. /\ DOMAIN k.prompts = 1..Len(k.prompts) /\ Len(k.prompts) \in Nat
      /\ \A j \in DOMAIN k.prompts : k.prompts[j] \in Nat
  <2> HIDE DEF k
  <2> QED
    BY <1>0
<1>2. i \in DOMAIN k.prompts /\ i \in Nat /\ k.prompts[i] \in Nat /\ k.prompts # <<>>
  BY <1>1 DEF Positions
<1>3. CASE k.route = "rollout"
  <2>1. Fits(k, i)
    BY <1>3 DEF Positions
  <2>2. k.maxTokens \in Int \union {None} /\ k.ids = <<>>
    BY <1>3, IntakeAssumption
  <2>3. k.prompts[i] >= 1 /\ Limit(k, i) \in Nat /\ k.prompts[i] + Limit(k, i) <= MaxSeqLen
        /\ Limit(k, i) > 0
    BY <1>2, <2>1, <2>2, IntakeAssumption DEF Fits, Limit, Room, Least
  <2>4. Request(c, i).prompt = k.prompts[i] /\ Request(c, i).budget = Limit(k, i)
    BY <1>3 DEF Request
  <2> QED
    BY <1>2, <2>2, <2>3, <2>4 DEF Request, IsRequest
<1>4. CASE k.route # "rollout"
  <2>1. Supported(Config(k)) /\ k.prompts[i] > 0
    BY <1>2, <1>4 DEF WellFormed
  <2>2. Window(k.prompts[i]) \in Nat /\ 1 <= Window(k.prompts[i])
        /\ Window(k.prompts[i]) <= MaxSeqLen
    BY <1>2, <2>1, IntakeAssumption DEF Window, Least
  <2>3. Budget(Config(k), Window(k.prompts[i])) \in Nat
        /\ Window(k.prompts[i]) + Budget(Config(k), Window(k.prompts[i])) <= MaxSeqLen
    BY <2>1, <2>2, BudgetFits
  <2>4. Request(c, i).prompt = Window(k.prompts[i])
        /\ Request(c, i).budget = Budget(Config(k), Window(k.prompts[i]))
    BY <1>4 DEF Request
  <2>5. k.ids # <<>> => i \in DOMAIN k.ids
    <3>1. Len(k.ids) \in {0, Len(k.prompts)} /\ k.ids \in Seq({k.ids[j] : j \in DOMAIN k.ids})
      BY <1>2, <1>4, IntakeAssumption DEF WellFormed
    <3> QED
      BY <1>1, <1>2, <3>1
  <2> QED
    BY <1>2, <1>4, <2>2, <2>3, <2>4, <2>5 DEF Request, IsRequest
<1> QED
  BY <1>3, <1>4

\* What Enqueue does to the requests, the buffers and the books.
LEMMA EnqueueEffect ==
    ASSUME NEW c, NEW new, NEW kept \in SUBSET DOMAIN states, Enqueue(c, new, kept)
    PROVE  /\ \A r \in DOMAIN states' :
                \/ r \in kept /\ states'[r] = states[r]
                \/ \E i \in new : /\ r = Id(c, i) /\ Request(c, i).budget > 0
                                  /\ \E j \in new : Id(c, j) = r /\ states'[r] = Request(c, j)
           /\ kept \subseteq DOMAIN states'
           /\ \A r \in kept : states'[r] = states[r]
           /\ accepted' = accepted \union {<<c, i>> : i \in new}
<1> DEFINE at == [r \in {Id(c, i) : i \in new} |-> CHOOSE i \in new : Id(c, i) = r]
           going == {i \in new : [j \in new |-> Request(c, j)][i].budget > 0}
<1>1. /\ states' = [r \in kept \union {Id(c, i) : i \in going} |->
                      IF r \in kept THEN states[r] ELSE [j \in new |-> Request(c, j)][at[r]]]
      /\ accepted' = accepted \union {<<c, i>> : i \in new}
  BY DEF Enqueue
<1>2. \A i \in new : at[Id(c, i)] \in new /\ Id(c, at[Id(c, i)]) = Id(c, i)
  OBVIOUS
<1>3. ASSUME NEW r \in DOMAIN states', r \notin kept
      PROVE  \E i \in new : /\ r = Id(c, i) /\ Request(c, i).budget > 0
                            /\ \E j \in new : Id(c, j) = r /\ states'[r] = Request(c, j)
  <2>1. PICK i \in new : r = Id(c, i) /\ Request(c, i).budget > 0
    BY <1>1, <1>3
  <2>2. at[r] \in new /\ Id(c, at[r]) = r
    BY <1>2, <2>1
  <2>3. states'[r] = Request(c, at[r])
    <3> HIDE DEF at
    <3> QED
      BY <1>1, <1>3, <2>2
  <2> QED
    BY <2>1, <2>2, <2>3
<1> QED
  BY <1>1, <1>3

\* What Enqueue does to the consumers: one event for each request that ends at once.
LEMMA EnqueueDelivers ==
    ASSUME NEW c, NEW new, NEW kept, Enqueue(c, new, kept)
    PROVE  /\ Tracked' = Tracked
           /\ \A r \in Tracked :
                \/ buffer'[r] = buffer[r]
                \/ /\ buffer'[r] = Least(buffer[r] + 1, Capacity)
                   /\ \E i \in new : r = Id(c, i) /\ ~(Request(c, i).budget > 0)
           /\ \A r \in lost' :
                \/ r \in lost
                \/ r \in Tracked /\ r \in {Id(c, i) : i \in new} /\ buffer[r] + 1 > Capacity
           /\ (\A i \in new : Request(c, i).budget > 0) =>
                lost' = lost /\ \A r \in Tracked : buffer'[r] = buffer[r]
<1> DEFINE request == [i \in new |-> Request(c, i)]
           ended == {Id(c, i) : i \in new \ {j \in new : request[j].budget > 0}}
<1>1. Deliver([r \in ended |-> 1])
  BY DEF Enqueue
<1>2. \A r \in ended : /\ r \in {Id(c, i) : i \in new}
                       /\ \E i \in new : r = Id(c, i) /\ ~(Request(c, i).budget > 0)
  OBVIOUS
<1>3. (\A i \in new : Request(c, i).budget > 0) => ended = {}
  OBVIOUS
<1>4. /\ buffer' = [r \in Tracked |->
                      IF r \in ended THEN Least(buffer[r] + 1, Capacity) ELSE buffer[r]]
      /\ lost' = lost \union {r \in Tracked \intersect ended : buffer[r] + 1 > Capacity}
  <2> HIDE DEF ended
  <2> QED
    BY <1>1 DEF Deliver
<1> HIDE DEF ended
<1> QED
  BY <1>2, <1>3, <1>4 DEF Tracked

\* A request that is closed, or left open.
LEMMA RequestClosed ==
    ASSUME NEW s, IsRequest(s), NEW open
    PROVE  LET t == [s EXCEPT !.open = open]
           IN  IsRequest(t) /\ t.by = s.by /\ t.at = s.at /\ t.prompt = s.prompt
               /\ t.budget = s.budget /\ t.out = s.out /\ t.open = open
BY DEF IsRequest

-----------------------------------------------------------------------------
(* The callers. *)

\* No caller has called, and nothing is registered.
LEMMA InitialIntake == Init => IntakeInv
<1> SUFFICES ASSUME Init PROVE IntakeInv
  OBVIOUS
<1> USE DEF Init
<1>1. CallsOK
  BY DEF CallsOK, Labels, Outcomes
<1>2. BooksOK
  BY DEF BooksOK
<1>3. RequestsOK
  BY DEF RequestsOK
<1>4. BuffersOK
  BY DEF BuffersOK, Tracked, Live, Registers
<1> QED
  BY <1>1, <1>2, <1>3, <1>4 DEF IntakeInv

\* A new call has no ids that anything refers to yet.
LEMMA BeginKeeps ==
    ASSUME IntakeInv, NEW c \in Callers, NEW k \in Calls, Begin(c, k)
    PROVE  IntakeInv'
<1> USE DEF IntakeInv
<1>1. /\ pc[c] = "idle" /\ call' = [call EXCEPT ![c] = k]
      /\ UNCHANGED <<defaults, accepting, owner, buffer, states, accepted, lost>>
  BY DEF Begin
<1>2. \/ /\ pc' = [pc EXCEPT ![c] = "done"]
         /\ \E what \in {"empty", "refused"} : outcome' = [outcome EXCEPT ![c] = what]
      \/ pc' = [pc EXCEPT ![c] = "register"] /\ Front(k) /\ outcome' = outcome
      \/ pc' = [pc EXCEPT ![c] = "admit"] /\ k.route = "core" /\ outcome' = outcome
      \/ pc' = [pc EXCEPT ![c] = "execute"] /\ k.route = "rollout" /\ outcome' = outcome
  BY IntakeAssumption DEF Begin, Goto, Ends, Front
<1>3. /\ call' \in [Callers -> Calls \union {None}] /\ call'[c] = k
      /\ \A d \in Callers \ {c} : call'[d] = call[d] /\ pc'[d] = pc[d] /\ outcome'[d] = outcome[d]
      /\ pc' \in [Callers -> Labels] /\ outcome' \in [Callers -> Outcomes]
      /\ outcome[c] = "none" /\ outcome'[c] # "accepted"
  BY <1>1, <1>2 DEF CallsOK, Labels, Outcomes
<1>4. pc'[c] \in {"done", "register", "admit", "execute"}
      /\ (pc'[c] = "admit" => k.route = "core") /\ (pc'[c] = "execute" => k.route = "rollout")
      /\ (pc'[c] = "register" => Front(k)) /\ (pc'[c] # "done" => outcome'[c] = "none")
  BY <1>1, <1>2, <1>3 DEF CallsOK
<1>5. CallsOK'
  BY <1>1, <1>3, <1>4 DEF CallsOK, Front
<1>6. BooksOK'
  BY <1>1, <1>3 DEF BooksOK, Positions, Fits, Limit, Room
<1>7. \A r \in DOMAIN states : states[r].by # c
  BY <1>3 DEF RequestsOK, BooksOK, Belongs
<1>8. RequestsOK'
  BY <1>1, <1>3, <1>7 DEF RequestsOK, Belongs, Id, Front, Sizes, IsRequest
<1>9. \A d \in Callers : Registers(d) => d # c
  BY <1>1 DEF Registers
<1>10. \A d \in Callers : /\ d # c => Ids(d)' = Ids(d) /\ (Registers(d)' <=> Registers(d))
                          /\ d = c => ~Registers(d)'
  BY <1>3, <1>4 DEF Ids, Id, Registers, Front
<1>11. BuffersOK'
  BY <1>1, <1>3, <1>4, <1>9, <1>10 DEF BuffersOK, Tracked, Live, Registers, Front
<1> QED
  BY <1>5, <1>6, <1>8, <1>11

\* Consumers are registered with empty buffers under ids that no request has.
LEMMA RegisterKeeps ==
    ASSUME IntakeInv, NEW c \in Callers, Register(c)
    PROVE  IntakeInv'
<1> USE DEF IntakeInv
<1>1. /\ pc[c] = "register" /\ pc' = [pc EXCEPT ![c] = "admit"]
      /\ buffer' = [r \in Tracked \union Ids(c) |-> IF r \in Ids(c) THEN 0 ELSE buffer[r]]
      /\ UNCHANGED <<defaults, accepting, owner, call, outcome, states, accepted, lost>>
  BY DEF Register, Goto
<1>2. /\ Front(call[c]) /\ outcome[c] = "none" /\ call[c] \in Calls
      /\ pc'[c] = "admit" /\ \A d \in Callers \ {c} : pc'[d] = pc[d]
  BY <1>1 DEF CallsOK
<1>3. CallsOK'
  BY <1>1, <1>2 DEF CallsOK, Front, Labels
<1>4. BooksOK'
  BY <1>1 DEF BooksOK, Positions, Fits, Limit, Room
<1>5. \A r \in DOMAIN states : states[r].by # c
  BY <1>2 DEF RequestsOK, BooksOK, Belongs
<1>6. RequestsOK'
  BY <1>1, <1>2, <1>5 DEF RequestsOK, Belongs, Id, Front, Sizes, IsRequest
<1>7. Ids(c) \intersect DOMAIN states = {}
  <2> SUFFICES ASSUME NEW r \in DOMAIN states, r \in Ids(c) PROVE FALSE
    OBVIOUS
  <2>1. Belongs(r, states[r])
    BY DEF RequestsOK
  <2>2. states[r].by \in Callers /\ outcome[states[r].by] = "accepted"
    BY <2>1 DEF Belongs, BooksOK
  <2>3. call[states[r].by] \in Calls
    BY <2>2 DEF CallsOK
  <2> QED
    BY <1>2, <1>5, <2>1, <2>2, <2>3, IdsOfOthers DEF Belongs
<1>8. \A d \in Callers : /\ Ids(d)' = Ids(d) /\ (d # c => (Registers(d)' <=> Registers(d)))
                         /\ d = c => Registers(d)'
  BY <1>1, <1>2 DEF Ids, Id, Registers, Front
<1>9. \A d \in Callers : Registers(d) => Ids(d) \intersect Ids(c) = {}
  <2> SUFFICES ASSUME NEW d \in Callers, Registers(d), NEW r \in Ids(d) \intersect Ids(c)
               PROVE FALSE
    OBVIOUS
  <2>1. d # c /\ Front(call[d]) /\ call[d] \in Calls
    BY <1>1 DEF Registers, CallsOK
  <2> QED
    BY <1>2, <2>1, FrontIds
<1>10. Capacity \in Nat
  BY IntakeAssumption DEF Capacity
<1>11. Tracked' = Tracked \union Ids(c)
       /\ \A r \in Tracked' : buffer'[r] = IF r \in Ids(c) THEN 0 ELSE buffer[r]
  BY <1>1 DEF Tracked
<1>12. BuffersOK'
  <2>1. \A r \in Tracked' : buffer'[r] \in Nat /\ buffer'[r] <= Capacity'
    BY <1>10, <1>11 DEF BuffersOK, Capacity
  <2>2. \A r \in Tracked' : \E d \in Callers : Registers(d)' /\ r \in Ids(d)'
    BY <1>8, <1>11 DEF BuffersOK
  <2>3. \A d \in Callers : Registers(d)' => Ids(d)' \subseteq Tracked'
    BY <1>8, <1>11 DEF BuffersOK
  <2>4. \A d \in Callers : \A r \in Tracked' :
          pc'[d] = "admit" /\ Front(call[d]) /\ r \in Ids(d) => buffer'[r] = 0
    <3> SUFFICES ASSUME NEW d \in Callers, NEW r \in Tracked', pc'[d] = "admit",
                        Front(call[d]), r \in Ids(d)
                 PROVE  buffer'[r] = 0
      OBVIOUS
    <3>1. CASE r \in Ids(c)
      BY <1>11, <3>1
    <3>2. CASE r \notin Ids(c)
      BY <1>2, <1>11, <3>2 DEF BuffersOK
    <3> QED
      BY <3>1, <3>2
  <2>5. \A r \in Tracked' \intersect Live' : buffer'[r] <= states'[r].out
    BY <1>1, <1>7, <1>11 DEF BuffersOK, Live
  <2>6. \A d \in Callers : Ids(d)' = Ids(d) /\ (Front(call[d])' <=> Front(call[d]))
    BY <1>1 DEF Ids, Id, Front
  <2>7. \A d \in Callers : \A r \in Tracked' :
          pc'[d] = "admit" /\ Front(call[d])' /\ r \in Ids(d)' => buffer'[r] = 0
    BY <2>4, <2>6
  <2>8. lost' = {}
    BY <1>1 DEF BuffersOK
  <2> QED
    BY <2>1, <2>2, <2>3, <2>5, <2>7, <2>8 DEF BuffersOK
<1> QED
  BY <1>3, <1>4, <1>6, <1>12

\* Ids of a call that has no request yet: of the front end's they wait empty in the tracker,
\* of other callers they are unknown to it.
LEMMA NewIds ==
    ASSUME IntakeInv, NEW c \in Callers, call[c] \in Calls, pc[c] \in {"admit", "execute"},
           NEW i, i \in Positions(call[c]), call[c].ids # <<>> => i \in DOMAIN call[c].ids,
           Id(c, i) \in Tracked
    PROVE  /\ pc[c] = "admit" /\ Front(call[c])
           /\ buffer[Id(c, i)] = 0
           /\ \A d \in Callers \ {c} : Registers(d) => Id(c, i) \notin Ids(d)
<1> USE DEF IntakeInv
<1>1. ASSUME NEW d \in Callers, Registers(d), Id(c, i) \in Ids(d)
      PROVE  d = c
  <2>1. call[d] \in Calls /\ Front(call[d])
    BY <1>1 DEF Registers, CallsOK
  <2> QED
    BY <1>1, <2>1, IdsOfOthers
<1>2. PICK d \in Callers : Registers(d) /\ Id(c, i) \in Ids(d)
  BY DEF BuffersOK
<1>3. d = c /\ Front(call[c]) /\ pc[c] = "admit" /\ Id(c, i) \in Ids(c)
  BY <1>1, <1>2 DEF Registers
<1>4. buffer[Id(c, i)] = 0
  BY <1>3 DEF BuffersOK
<1> QED
  BY <1>1, <1>3, <1>4

\* Prompts enter the scheduler with a call that is admitted or executed.
LEMMA EnqueueKeeps ==
    ASSUME IntakeInv, NEW c \in Callers, pc[c] \in {"admit", "execute"},
           NEW new, new \subseteq Positions(call[c]),
           NEW kept \in SUBSET DOMAIN states, Live \subseteq kept,
           Enqueue(c, new, kept),
           new # {} /\ call[c].route # "rollout" => WellFormed(call[c]),
           \A i, j \in new : Id(c, i) = Id(c, j) => i = j,
           \A i \in new : Id(c, i) \notin kept,
           \A d \in Callers \ {c} : pc'[d] = pc[d] /\ outcome'[d] = outcome[d],
           pc'[c] # "admit", Registers(c)' => Registers(c),
           Front(call[c]) => pc'[c] \in {"wait", "release"},
           new # {} /\ Front(call[c]) => pc'[c] = "wait",
           call' = call
    PROVE  RequestsOK' /\ BuffersOK'
<1> USE DEF IntakeInv
<1>1. /\ call[c] \in Calls /\ outcome[c] = "none"
  BY DEF CallsOK
<1>2. ASSUME NEW j \in new
      PROVE  /\ IsRequest(Request(c, j))
             /\ Request(c, j).by = c /\ Request(c, j).at = j /\ j \in Nat
             /\ Request(c, j).open = TRUE /\ Request(c, j).out = 0
             /\ Request(c, j).prompt \in Nat /\ Request(c, j).budget \in Nat
             /\ 1 <= Request(c, j).prompt
             /\ Request(c, j).prompt + Request(c, j).budget <= MaxSeqLen
             /\ (call[c].ids # <<>> => j \in DOMAIN call[c].ids)
  <2>1. call[c].route # "rollout" => WellFormed(call[c])
    BY <1>2
  <2>0. j \in Positions(call[c])
    BY <1>2
  <2> HIDE DEF IntakeInv
  <2>2. /\ IsRequest(Request(c, j)) /\ Request(c, j).by = c /\ Request(c, j).at = j /\ j \in Nat
        /\ Request(c, j).open = TRUE /\ Request(c, j).out = 0
        /\ Request(c, j).prompt \in Nat /\ Request(c, j).budget \in Nat
        /\ 1 <= Request(c, j).prompt
        /\ Request(c, j).prompt + Request(c, j).budget <= MaxSeqLen
        /\ (call[c].ids # <<>> => j \in DOMAIN call[c].ids)
    <3>1. c \in Callers /\ call[c] \in Calls /\ j \in Positions(call[c])
      BY <1>1, <2>0
    <3>2. call[c].route # "rollout" => WellFormed(call[c])
      BY <2>1
    <3>3. IsRequest(Request(c, j))
      BY <3>1, <3>2, RequestStarts, ZenonT(40)
    <3>4. Request(c, j).by = c /\ Request(c, j).at = j /\ j \in Nat
      BY <3>1, <3>2, RequestStarts, ZenonT(40)
    <3>5. Request(c, j).open = TRUE /\ Request(c, j).out = 0
      BY <3>1, <3>2, RequestStarts, ZenonT(80)
    <3>6. /\ Request(c, j).prompt \in Nat /\ Request(c, j).budget \in Nat
          /\ 1 <= Request(c, j).prompt
          /\ Request(c, j).prompt + Request(c, j).budget <= MaxSeqLen
      BY <3>1, <3>2, RequestStarts, ZenonT(40)
    <3>7. (call[c].ids # <<>> => j \in DOMAIN call[c].ids)
      BY <3>1, <3>2, RequestStarts, ZenonT(40)
    <3> QED
      BY <3>3, <3>4, <3>5, <3>6, <3>7
  <2> QED
    BY <2>2
<1>3. /\ \A r \in DOMAIN states' :
           \/ r \in kept /\ states'[r] = states[r]
           \/ \E j \in new : /\ r = Id(c, j) /\ states'[r] = Request(c, j)
                             /\ Request(c, j).budget > 0
      /\ accepted' = accepted \union {<<c, i>> : i \in new}
  <2> HIDE DEF IntakeInv
  <2> QED
    BY EnqueueEffect
<1>4. \A r \in DOMAIN states : states[r].by # c
  BY <1>1 DEF RequestsOK, BooksOK, Belongs
<1>5. RequestsOK'
  <2> SUFFICES ASSUME NEW r \in DOMAIN states'
               PROVE  IsRequest(states'[r]) /\ Sizes(states'[r]) /\ Belongs(r, states[r])'
    BY DEF RequestsOK, IsRequest, Sizes
  <2>1. CASE r \in kept /\ states'[r] = states[r]
    <3>1. IsRequest(states[r]) /\ Sizes(states[r]) /\ Belongs(r, states[r])
      BY <2>1 DEF RequestsOK
    <3> QED
      BY <1>3, <1>4, <2>1, <3>1 DEF Belongs, Id, Front
  <2>2. ASSUME NEW j \in new, r = Id(c, j), states'[r] = Request(c, j), Request(c, j).budget > 0
        PROVE  IsRequest(states'[r]) /\ Sizes(states'[r]) /\ Belongs(r, states[r])'
    <3> DEFINE s == Request(c, j)
    <3>1. /\ IsRequest(s) /\ s.by = c /\ s.at = j /\ j \in Nat /\ s.open = TRUE /\ s.out = 0
          /\ s.prompt \in Nat /\ s.budget \in Nat /\ 1 <= s.prompt /\ s.budget > 0
          /\ s.prompt + s.budget <= MaxSeqLen
          /\ (call[c].ids # <<>> => j \in DOMAIN call[c].ids)
      BY <1>2, <2>2
    <3>2. <<c, j>> \in accepted' /\ (Front(call[c]) => pc'[c] = "wait")
      BY <1>3, <2>2
    <3>3. r = Id(c, j)'
      BY <2>2 DEF Id
    <3> HIDE DEF s
    <3>4. states'[r] = s
      BY <2>2 DEF s
    <3>5. Sizes(s)
      <4>1. s.open \in BOOLEAN /\ (s.open => s.out < s.budget)
        BY <3>1
      <4>2. s.prompt \in Nat /\ s.budget \in Nat /\ s.out \in Nat /\ 1 <= s.prompt
            /\ s.prompt + s.budget <= MaxSeqLen /\ s.out <= s.budget
        BY <3>1
      <4> QED
        BY <4>1, <4>2 DEF Sizes
    <3>6. Belongs(r, states[r])'
      BY <1>3, <3>1, <3>2, <3>3, <3>4 DEF Belongs, Id, Front
    <3> QED
      BY <3>1, <3>4, <3>5, <3>6
  <2> QED
    BY <1>3, <2>1, <2>2
<1>6. /\ Tracked' = Tracked
      /\ \A r \in Tracked :
           \/ buffer'[r] = buffer[r]
           \/ /\ buffer'[r] = Least(buffer[r] + 1, Capacity)
              /\ \E i \in new : r = Id(c, i) /\ ~(Request(c, i).budget > 0)
      /\ \A r \in lost' :
           \/ r \in lost
           \/ r \in Tracked /\ r \in {Id(c, i) : i \in new} /\ buffer[r] + 1 > Capacity
  <2> HIDE DEF IntakeInv
  <2> QED
    BY EnqueueDelivers
<1>7. ASSUME NEW i \in new, Id(c, i) \in Tracked
      PROVE  /\ Front(call[c]) /\ pc[c] = "admit" /\ buffer[Id(c, i)] = 0
             /\ \A d \in Callers \ {c} : Registers(d) => Id(c, i) \notin Ids(d)
  <2>1. i \in Positions(call[c]) /\ (call[c].ids # <<>> => i \in DOMAIN call[c].ids)
    BY <1>2, <1>7
  <2> HIDE DEF IntakeInv
  <2> QED
    BY <1>1, <1>7, <2>1, NewIds
<1>8. Capacity \in Nat /\ Capacity >= 2
  BY IntakeAssumption DEF Capacity
<1>9. \A d \in Callers : /\ Ids(d)' = Ids(d)
                         /\ (d # c => (Registers(d)' <=> Registers(d)))
                         /\ (Front(call[d])' <=> Front(call[d]))
  BY DEF Ids, Id, Registers, Front
<1>10. lost' = {}
  BY <1>6, <1>7, <1>8 DEF BuffersOK
<1>11. \A r \in Tracked : buffer'[r] \in Nat /\ buffer'[r] <= Capacity
  <2> SUFFICES ASSUME NEW r \in Tracked PROVE buffer'[r] \in Nat /\ buffer'[r] <= Capacity
    OBVIOUS
  <2>1. buffer[r] \in Nat /\ buffer[r] <= Capacity
    BY DEF BuffersOK
  <2>2. Least(buffer[r] + 1, Capacity) \in Nat /\ Least(buffer[r] + 1, Capacity) <= Capacity
    BY <1>8, <2>1 DEF Least
  <2> QED
    BY <1>6, <2>1, <2>2
<1>12. \A d \in Callers : Registers(d) => Registers(d)'
  <2>1. Registers(c) => Registers(c)'
    BY DEF Registers, Front
  <2> QED
    BY <1>9, <2>1
<1>13. \A r \in Tracked : \E d \in Callers : Registers(d)' /\ r \in Ids(d)'
  BY <1>9, <1>12 DEF BuffersOK
<1>14. \A d \in Callers : Registers(d)' => Ids(d)' \subseteq Tracked
  BY <1>9 DEF BuffersOK
<1>15. \A d \in Callers : \A r \in Tracked :
         pc'[d] = "admit" /\ Front(call[d]) /\ r \in Ids(d) => buffer'[r] = 0
  <2> SUFFICES ASSUME NEW d \in Callers, NEW r \in Tracked, pc'[d] = "admit", Front(call[d]),
                      r \in Ids(d)
               PROVE  buffer'[r] = 0
    OBVIOUS
  <2>1. d # c /\ pc[d] = "admit" /\ Registers(d)
    BY DEF Registers
  <2>2. buffer[r] = 0
    BY <2>1 DEF BuffersOK
  <2>3. ~ \E i \in new : r = Id(c, i)
    BY <1>7, <2>1
  <2> QED
    BY <1>6, <2>2, <2>3
<1>16. \A r \in Tracked \intersect Live' : buffer'[r] <= states'[r].out
  <2> SUFFICES ASSUME NEW r \in Tracked, r \in DOMAIN states', states'[r].open
               PROVE  buffer'[r] <= states'[r].out
    BY DEF Live
  <2>1. CASE r \in kept /\ states'[r] = states[r]
    <3>1. r \in Live /\ buffer[r] <= states[r].out
      BY <2>1 DEF Live, BuffersOK
    <3>2. ~ \E i \in new : r = Id(c, i)
      BY <2>1
    <3> QED
      BY <1>6, <2>1, <3>1, <3>2
  <2>2. ASSUME NEW j \in new, r = Id(c, j), states'[r] = Request(c, j), Request(c, j).budget > 0
        PROVE  buffer'[r] <= states'[r].out
    <3>1. buffer[r] = 0
      BY <1>7, <2>2
    <3>2. states'[r].out = 0
      BY <1>2, <2>2
    <3>3. ~ \E i \in new : r = Id(c, i) /\ ~(Request(c, i).budget > 0)
      BY <2>2
    <3> QED
      BY <1>6, <3>1, <3>2, <3>3
  <2> QED
    BY <1>3, <2>1, <2>2
<1>17. BuffersOK'
  <2>1. \A d \in Callers : \A r \in Tracked' :
          pc'[d] = "admit" /\ Front(call[d])' /\ r \in Ids(d)' => buffer'[r] = 0
    BY <1>6, <1>9, <1>15
  <2>2. \A r \in Tracked' : buffer'[r] \in Nat /\ buffer'[r] <= Capacity'
    BY <1>6, <1>11 DEF Capacity
  <2>3. Tracked' = Tracked
    BY <1>6
  <2> QED
    BY <1>10, <1>13, <1>14, <1>16, <2>1, <2>2, <2>3 DEF BuffersOK
<1> QED
  BY <1>5, <1>17

\* The books follow the outcome of the call.
LEMMA BooksKept ==
    ASSUME CallsOK, BooksOK, NEW c \in Callers, call[c] \in Calls, outcome[c] = "none",
           NEW new, new = IF outcome'[c] = "accepted" THEN Positions(call[c]) ELSE {},
           accepted' = accepted \union {<<c, i>> : i \in new}, call' = call,
           \A d \in Callers \ {c} : outcome'[d] = outcome[d]
    PROVE  BooksOK'
<1>1. Positions(call[c]) \subseteq Nat
  <2>1. call[c].prompts \in Seq(Nat)
    BY IntakeAssumption
  <2> QED
    BY <2>1 DEF Positions
<1>2. \A d \in Callers : Positions(call[d])' = Positions(call[d])
  BY DEF Positions, Fits, Limit, Room
<1>3. accepted' \subseteq Callers \X Nat
  BY <1>1 DEF BooksOK
<1>4. ASSUME NEW d \in Callers, NEW i \in Nat
      PROVE  <<d, i>> \in accepted' <=> outcome'[d] = "accepted" /\ i \in Positions(call[d])
  <2>1. <<d, i>> \in accepted <=> outcome[d] = "accepted" /\ i \in Positions(call[d])
    BY DEF BooksOK
  <2>2. CASE d = c
    <3>1. <<c, i>> \in accepted' <=> i \in new
      BY <2>1, <2>2
    <3> QED
      BY <2>2, <3>1
  <2>3. CASE d # c
    <3>1. <<d, i>> \in accepted' <=> <<d, i>> \in accepted
      BY <2>3
    <3> QED
      BY <2>1, <2>3, <3>1
  <2> QED
    BY <2>2, <2>3
<1> QED
  BY <1>2, <1>3, <1>4 DEF BooksOK

\* A batch that add_requests validates is enqueued whole, and otherwise not at all.
LEMMA AdmitKeeps ==
    ASSUME IntakeInv, NEW c \in Callers, Admit(c)
    PROVE  IntakeInv'
<1> DEFINE what == IF Admissible(c) THEN "accepted" ELSE "refused"
           label == IF ~Front(call[c]) THEN "done"
                    ELSE IF Admissible(c) THEN "wait" ELSE "release"
<1>1. /\ pc[c] = "admit"
      /\ Enqueue(c, Taken(c), DOMAIN states)
      /\ outcome' = [outcome EXCEPT ![c] = what] /\ pc' = [pc EXCEPT ![c] = label]
      /\ UNCHANGED <<defaults, accepting, owner, call>>
  BY DEF Admit, Goto, Ends
<1>2. /\ call[c] \in Calls /\ outcome[c] = "none" /\ call[c].route # "rollout"
      /\ outcome'[c] = what /\ pc'[c] = label
      /\ \A d \in Callers \ {c} : pc'[d] = pc[d] /\ outcome'[d] = outcome[d]
  BY <1>1 DEF IntakeInv, CallsOK
<1>3. CallsOK'
  BY <1>1, <1>2 DEF IntakeInv, CallsOK, Labels, Outcomes, Front
<1>4. Taken(c) = IF outcome'[c] = "accepted" THEN Positions(call[c]) ELSE {}
  BY <1>2 DEF Taken
<1>5. accepted' = accepted \union {<<c, i>> : i \in Taken(c)}
  BY <1>1, EnqueueEffect
<1>6. BooksOK'
  BY <1>1, <1>2, <1>4, <1>5, BooksKept DEF IntakeInv
<1>7. Taken(c) \subseteq Positions(call[c]) /\ (Taken(c) # {} => Admissible(c))
  BY DEF Taken
<1>8. Positions(call[c]) = DOMAIN call[c].prompts
  BY <1>2 DEF Positions
<1>9. /\ Taken(c) # {} /\ call[c].route # "rollout" => WellFormed(call[c])
      /\ \A i, j \in Taken(c) : Id(c, i) = Id(c, j) => i = j
      /\ \A i \in Taken(c) : Id(c, i) \notin DOMAIN states
  BY <1>7, <1>8 DEF Admissible, Fresh, Ids
<1>10. /\ pc'[c] # "admit" /\ (Registers(c)' => Registers(c))
       /\ (Front(call[c]) => pc'[c] \in {"wait", "release"})
       /\ (Taken(c) # {} /\ Front(call[c]) => pc'[c] = "wait")
  BY <1>1, <1>2, <1>7 DEF Registers, Front
<1>11. Live \subseteq DOMAIN states
  BY DEF Live
<1>12. RequestsOK' /\ BuffersOK'
  <2> HIDE DEF what, label
  <2> QED
    BY <1>1, <1>2, <1>7, <1>9, <1>10, <1>11, EnqueueKeeps
<1> QED
  BY <1>3, <1>6, <1>12 DEF IntakeInv

\* A rollout is enqueued when nothing is live, and refused otherwise.
LEMMA ExecuteKeeps ==
    ASSUME IntakeInv, NEW c \in Callers, Execute(c)
    PROVE  IntakeInv'
<1> DEFINE new == IF Live = {} THEN Positions(call[c]) ELSE {}
<1>1. /\ pc[c] = "execute"
      /\ Enqueue(c, new, Live)
      /\ \/ /\ Live = {} /\ outcome' = [outcome EXCEPT ![c] = "accepted"]
            /\ pc' = [pc EXCEPT ![c] = "executing"] /\ owner' = c
         \/ /\ Live # {} /\ outcome' = [outcome EXCEPT ![c] = "refused"]
            /\ pc' = [pc EXCEPT ![c] = "done"] /\ owner' = owner
      /\ UNCHANGED <<defaults, accepting, call>>
  BY DEF Execute, Goto, Ends
<1>2. /\ call[c] \in Calls /\ outcome[c] = "none" /\ call[c].route = "rollout"
      /\ \A d \in Callers \ {c} : pc'[d] = pc[d] /\ outcome'[d] = outcome[d]
      /\ outcome'[c] = IF Live = {} THEN "accepted" ELSE "refused"
      /\ pc'[c] = IF Live = {} THEN "executing" ELSE "done"
  BY <1>1 DEF IntakeInv, CallsOK
<1>3. CallsOK'
  BY <1>1, <1>2 DEF IntakeInv, CallsOK, Labels, Outcomes, Front
<1>4. Live \in SUBSET DOMAIN states
  BY DEF Live
<1>5. accepted' = accepted \union {<<c, i>> : i \in new}
  <2> HIDE DEF new
  <2> QED
    BY <1>1, <1>4, EnqueueEffect
<1>6. new = IF outcome'[c] = "accepted" THEN Positions(call[c]) ELSE {}
  BY <1>2
<1>7. BooksOK'
  <2> HIDE DEF new
  <2> QED
    BY <1>1, <1>2, <1>5, <1>6, BooksKept DEF IntakeInv
<1>8. ~Front(call[c]) /\ call[c].ids = <<>>
  BY <1>2, IntakeAssumption DEF Front
<1>9. \A i, j : Id(c, i) = Id(c, j) => i = j
  BY <1>2, <1>8, MintedIds
<1>10. new \subseteq Positions(call[c]) /\ (\A i \in new : Id(c, i) \notin Live)
  OBVIOUS
<1>11. pc'[c] # "admit" /\ ~Registers(c)'
  BY <1>2 DEF Registers
<1>12. RequestsOK' /\ BuffersOK'
  <2> HIDE DEF new
  <2> QED
    BY <1>1, <1>2, <1>4, <1>8, <1>9, <1>10, <1>11, EnqueueKeeps
<1> QED
  BY <1>3, <1>7, <1>12 DEF IntakeInv

\* A rollout that is over gives the engine back.
LEMMA ExecutedKeeps ==
    ASSUME IntakeInv, NEW c \in Callers, Executed(c)
    PROVE  IntakeInv'
<1> USE DEF IntakeInv
<1>1. /\ pc[c] = "executing" /\ DOMAIN states = {} /\ owner' = None
      /\ pc' = [pc EXCEPT ![c] = "done"]
      /\ UNCHANGED <<defaults, accepting, call, outcome, buffer, states, accepted, lost>>
  BY DEF Executed, Goto
<1>2. CallsOK'
  BY <1>1 DEF CallsOK, Labels, Front
<1>3. BooksOK'
  BY <1>1 DEF BooksOK, Positions, Fits, Limit, Room
<1>4. RequestsOK'
  BY <1>1 DEF RequestsOK
<1>5. \A d \in Callers : /\ Ids(d)' = Ids(d) /\ (Registers(d)' <=> Registers(d))
                         /\ (Front(call[d])' <=> Front(call[d]))
                         /\ (pc'[d] = "admit" <=> pc[d] = "admit")
  BY <1>1 DEF CallsOK, Ids, Id, Registers, Front
<1>6. BuffersOK'
  BY <1>1, <1>5 DEF BuffersOK, Tracked, Live, Capacity
<1> QED
  BY <1>2, <1>3, <1>4, <1>6

\* A call that is released takes its consumers away and closes its requests, and no other.
LEMMA ReleaseKeeps ==
    ASSUME IntakeInv, NEW c \in Callers, Release(c)
    PROVE  IntakeInv'
<1> USE DEF IntakeInv
<1>1. /\ pc[c] \in {"wait", "release"} /\ pc' = [pc EXCEPT ![c] = "done"]
      /\ states' = [r \in DOMAIN states |->
                      [states[r] EXCEPT !.open = states[r].open /\ r \notin Ids(c)]]
      /\ buffer' = [r \in Tracked \ Ids(c) |-> buffer[r]]
      /\ UNCHANGED <<defaults, accepting, owner, call, outcome, accepted, lost>>
  BY DEF Release, Goto
<1>2. /\ Front(call[c]) /\ call[c] \in Calls /\ pc'[c] = "done"
      /\ \A d \in Callers \ {c} : pc'[d] = pc[d]
  BY <1>1 DEF CallsOK
<1>3. CallsOK'
  BY <1>1 DEF CallsOK, Labels, Front
<1>4. BooksOK'
  BY <1>1 DEF BooksOK, Positions, Fits, Limit, Room
<1>5. ASSUME NEW r \in DOMAIN states
      PROVE  /\ IsRequest(states'[r]) /\ states'[r].by = states[r].by
             /\ states'[r].at = states[r].at /\ states'[r].prompt = states[r].prompt
             /\ states'[r].budget = states[r].budget /\ states'[r].out = states[r].out
             /\ states'[r].open = (states[r].open /\ r \notin Ids(c))
  <2>1. IsRequest(states[r])
    BY DEF RequestsOK
  <2>2. states'[r] = [states[r] EXCEPT !.open = states[r].open /\ r \notin Ids(c)]
    BY <1>1
  <2>3. PICK b \in BOOLEAN : b = (states[r].open /\ r \notin Ids(c))
    OBVIOUS
  <2>4. states'[r] = [states[r] EXCEPT !.open = b]
    BY <2>2, <2>3
  <2> HIDE DEF IntakeInv
  <2>5. /\ IsRequest(states'[r]) /\ states'[r].by = states[r].by
        /\ states'[r].at = states[r].at /\ states'[r].prompt = states[r].prompt
        /\ states'[r].budget = states[r].budget /\ states'[r].out = states[r].out
        /\ states'[r].open = b
    BY <2>1, <2>4, RequestClosed
  <2> QED
    BY <2>3, <2>5
<1>6. DOMAIN states' = DOMAIN states
  BY <1>1
<1>7. ASSUME NEW r \in DOMAIN states, states[r].by = c
      PROVE  r \in Ids(c)
  <2>1. Belongs(r, states[r])
    BY DEF RequestsOK
  <2>2. <<c, states[r].at>> \in accepted /\ states[r].at \in Nat /\ r = Id(c, states[r].at)
    BY <1>7, <2>1 DEF Belongs
  <2>3. states[r].at \in Positions(call[c])
    BY <2>2 DEF BooksOK
  <2> QED
    BY <2>2, <2>3 DEF Ids, Positions
<1>8. RequestsOK'
  <2> SUFFICES ASSUME NEW r \in DOMAIN states
               PROVE  IsRequest(states'[r]) /\ Sizes(states'[r]) /\ Belongs(r, states[r])'
    BY <1>6 DEF RequestsOK, IsRequest, Sizes
  <2>1. Sizes(states[r]) /\ Belongs(r, states[r])
    BY DEF RequestsOK
  <2>2. states'[r].open => states[r].open /\ states[r].by # c
    BY <1>5, <1>7
  <2>3. states'[r].open \in BOOLEAN
    BY <1>5
  <2>4. Sizes(states'[r])
    BY <1>5, <2>1, <2>2, <2>3 DEF Sizes
  <2>5. /\ states'[r].by \in Callers /\ states'[r].at \in Nat
        /\ <<states'[r].by, states'[r].at>> \in accepted
        /\ r = Id(states[r].by, states[r].at)
        /\ (call[states'[r].by].ids # <<>> => states'[r].at \in DOMAIN call[states'[r].by].ids)
    BY <1>5, <2>1 DEF Belongs
  <2>6. r = Id(states[r].by, states[r].at)'
    BY <1>1, <1>5, <2>5 DEF Id
  <2>7. states'[r].open /\ Front(call[states'[r].by]) => pc'[states'[r].by] = "wait"
    <3>1. states[r].open /\ Front(call[states[r].by]) => pc[states[r].by] = "wait"
      BY <2>1 DEF Belongs
    <3>2. states'[r].by = states[r].by /\ states[r].by \in Callers
      BY <1>5, <2>5
    <3>3. states[r].by # c => pc'[states[r].by] = pc[states[r].by]
      BY <1>2, <3>2
    <3> QED
      BY <2>2, <3>1, <3>2, <3>3
  <2>8. Belongs(r, states[r])'
    BY <1>1, <2>5, <2>6, <2>7 DEF Belongs, Front
  <2> QED
    BY <1>5, <2>4, <2>8
<1>9. Tracked' = Tracked \ Ids(c) /\ \A r \in Tracked' : buffer'[r] = buffer[r]
  BY <1>1 DEF Tracked
<1>10. \A d \in Callers : /\ Ids(d)' = Ids(d) /\ (Front(call[d])' <=> Front(call[d]))
                          /\ (d # c => (Registers(d)' <=> Registers(d))) /\ ~Registers(c)'
  BY <1>1, <1>2 DEF Ids, Id, Registers, Front
<1>11. \A d \in Callers : Registers(d) /\ d # c => Ids(d) \intersect Ids(c) = {}
  <2> SUFFICES ASSUME NEW d \in Callers, Registers(d), d # c,
                      NEW r \in Ids(d) \intersect Ids(c)
               PROVE FALSE
    OBVIOUS
  <2>1. Front(call[d]) /\ call[d] \in Calls
    BY DEF Registers, CallsOK
  <2> QED
    BY <1>2, <2>1, FrontIds
<1>12. \A r \in Tracked' : \E d \in Callers : Registers(d)' /\ r \in Ids(d)'
  BY <1>9, <1>10 DEF BuffersOK
<1>13. \A d \in Callers : Registers(d)' => Ids(d)' \subseteq Tracked'
  BY <1>9, <1>10, <1>11 DEF BuffersOK
<1>14. \A d \in Callers : \A r \in Tracked' :
         pc'[d] = "admit" /\ Front(call[d])' /\ r \in Ids(d)' => buffer'[r] = 0
  BY <1>2, <1>9, <1>10 DEF BuffersOK
<1>15. \A r \in Tracked' \intersect Live' : buffer'[r] <= states'[r].out
  BY <1>5, <1>6, <1>9 DEF BuffersOK, Live
<1>16. lost' = {} /\ \A r \in Tracked' : buffer'[r] \in Nat /\ buffer'[r] <= Capacity'
  BY <1>1, <1>9 DEF BuffersOK, Capacity
<1>17. BuffersOK'
  BY <1>12, <1>13, <1>14, <1>15, <1>16 DEF BuffersOK
<1> QED
  BY <1>3, <1>4, <1>8, <1>17

-----------------------------------------------------------------------------
(* The engine. *)

\* The callers are where they were when only the engine moves.
LEMMA CallersStay ==
    ASSUME CallsOK, BooksOK, UNCHANGED <<owner, call, pc, outcome, accepted>>
    PROVE  /\ CallsOK' /\ BooksOK'
           /\ \A d \in Callers : /\ Ids(d)' = Ids(d) /\ (Registers(d)' <=> Registers(d))
                                 /\ (Front(call[d])' <=> Front(call[d]))
<1>1. CallsOK'
  BY DEF CallsOK, Front
<1>2. BooksOK'
  BY DEF BooksOK, Positions, Fits, Limit, Room
<1> QED
  BY <1>1, <1>2 DEF Ids, Id, Registers, Front

\* No request of the scheduler has an id of a call that is still to be admitted.
LEMMA NotAdmitted ==
    ASSUME IntakeInv, NEW r \in DOMAIN states, NEW d \in Callers,
           pc[d] = "admit", Front(call[d])
    PROVE  r \notin Ids(d)
<1> SUFFICES ASSUME r \in Ids(d) PROVE FALSE
  OBVIOUS
<1>1. Belongs(r, states[r])
  BY DEF IntakeInv, RequestsOK
<1>2. states[r].by \in Callers /\ outcome[states[r].by] = "accepted"
      /\ call[states[r].by] \in Calls
  BY <1>1 DEF Belongs, IntakeInv, BooksOK, CallsOK
<1>3. call[d] \in Calls /\ outcome[d] = "none"
  BY DEF IntakeInv, CallsOK
<1>4. states[r].by = d
  BY <1>1, <1>2, <1>3, IdsOfOthers DEF Belongs
<1> QED
  BY <1>2, <1>3, <1>4

\* Events for live requests, no more of them than tokens while they stay live, fit the buffers.
LEMMA DeliveredFits ==
    ASSUME IntakeInv, NEW new, Deliver(new), DOMAIN new \subseteq Live,
           \A r \in DOMAIN new : new[r] \in {1, 2},
           UNCHANGED <<owner, call, pc, outcome, accepted>>,
           \A r \in Live' : r \in Live,
           \A r \in Live' : /\ states'[r].out \in Nat
                            /\ states'[r].out >=
                                 states[r].out + (IF r \in DOMAIN new THEN new[r] ELSE 0)
    PROVE  BuffersOK'
<1> USE DEF IntakeInv
<1>1. /\ Tracked' = Tracked
      /\ \A r \in Tracked : buffer'[r] = IF r \in DOMAIN new
                                         THEN Least(buffer[r] + new[r], Capacity) ELSE buffer[r]
      /\ lost' = lost \union {r \in Tracked \intersect DOMAIN new : buffer[r] + new[r] > Capacity}
  BY DEF Deliver, Tracked
<1>2. ASSUME NEW r \in Live
      PROVE  /\ states[r].out \in Nat /\ states[r].out + 2 <= Capacity
             /\ r \in DOMAIN states
  <2>1. r \in DOMAIN states /\ states[r].open /\ Sizes(states[r])
    BY DEF Live, RequestsOK
  <2> QED
    BY <2>1, IntakeAssumption DEF Sizes, Capacity
<1>3. ASSUME NEW r \in Tracked
      PROVE  /\ buffer[r] \in Nat /\ buffer[r] <= Capacity
             /\ (r \in Live => buffer[r] <= states[r].out)
  BY DEF BuffersOK
<1>4. ASSUME NEW r \in Tracked, r \in DOMAIN new
      PROVE  /\ buffer[r] + new[r] <= Capacity /\ buffer'[r] = buffer[r] + new[r]
             /\ buffer'[r] \in Nat
  <2>1. r \in Live /\ new[r] \in {1, 2}
    BY <1>4
  <2>2. buffer[r] \in Nat /\ states[r].out \in Nat /\ buffer[r] <= states[r].out
        /\ states[r].out + 2 <= Capacity /\ Capacity \in Nat
    BY <1>2, <1>3, <2>1, IntakeAssumption DEF Capacity
  <2>3. buffer'[r] = Least(buffer[r] + new[r], Capacity)
    BY <1>1, <1>4
  <2> HIDE DEF IntakeInv
  <2> QED
    BY <2>1, <2>2, <2>3 DEF Least
<1>5. lost' = {}
  <2>1. \A r \in Tracked \intersect DOMAIN new : ~(buffer[r] + new[r] > Capacity)
    <3> SUFFICES ASSUME NEW r \in Tracked, r \in DOMAIN new
                 PROVE  ~(buffer[r] + new[r] > Capacity)
      OBVIOUS
    <3>1. buffer[r] + new[r] <= Capacity /\ buffer[r] \in Nat /\ new[r] \in {1, 2}
      BY <1>3, <1>4
    <3> QED
      BY <3>1, IntakeAssumption DEF Capacity
  <2> QED
    BY <1>1, <2>1 DEF BuffersOK
<1>6. \A r \in Tracked' : buffer'[r] \in Nat /\ buffer'[r] <= Capacity'
  BY <1>1, <1>3, <1>4 DEF Capacity
<1>7. /\ \A d \in Callers : /\ Ids(d)' = Ids(d) /\ (Registers(d)' <=> Registers(d))
                            /\ (Front(call[d])' <=> Front(call[d]))
      /\ pc' = pc
  BY CallersStay
<1>8. \A d \in Callers : \A r \in Tracked' :
        pc'[d] = "admit" /\ Front(call[d])' /\ r \in Ids(d)' => buffer'[r] = 0
  <2> SUFFICES ASSUME NEW d \in Callers, NEW r \in Tracked, pc[d] = "admit", Front(call[d]),
                      r \in Ids(d)
               PROVE  buffer'[r] = 0
    BY <1>1, <1>7
  <2>1. r \notin DOMAIN new
    BY <1>2, NotAdmitted
  <2> QED
    BY <1>1, <2>1 DEF BuffersOK
<1>9. \A r \in Tracked' \intersect Live' : buffer'[r] <= states'[r].out
  <2> SUFFICES ASSUME NEW r \in Tracked, r \in Live'
               PROVE  buffer'[r] <= states'[r].out
    BY <1>1
  <2>1. r \in Live /\ states[r].out \in Nat /\ buffer[r] \in Nat /\ buffer[r] <= states[r].out
    BY <1>2, <1>3
  <2>2. CASE r \in DOMAIN new
    <3>1. /\ buffer'[r] = buffer[r] + new[r] /\ states'[r].out \in Nat /\ new[r] \in {1, 2}
          /\ states'[r].out >= states[r].out + new[r]
      BY <1>4, <2>2
    <3> QED
      BY <2>1, <3>1
  <2>3. CASE r \notin DOMAIN new
    <3>1. /\ buffer'[r] = buffer[r] /\ states'[r].out \in Nat
          /\ states'[r].out >= states[r].out + 0
      BY <1>1, <2>3
    <3> QED
      BY <2>1, <3>1
  <2> QED
    BY <2>2, <2>3
<1>10. /\ \A r \in Tracked' : \E d \in Callers : Registers(d)' /\ r \in Ids(d)'
       /\ \A d \in Callers : Registers(d)' => Ids(d)' \subseteq Tracked'
  BY <1>1, <1>7 DEF BuffersOK
<1> QED
  BY <1>5, <1>6, <1>8, <1>9, <1>10 DEF BuffersOK

\* A token or an end of one request.
LEMMA StepKeeps ==
    ASSUME IntakeInv, NEW r \in DOMAIN states, NEW token \in BOOLEAN, NEW ends \in BOOLEAN,
           Step(r, token, ends)
    PROVE  IntakeInv'
<1> USE DEF IntakeInv
<1> DEFINE out == IF token THEN states[r].out + 1 ELSE states[r].out
<1>1. /\ states[r].open /\ (token \/ ends)
      /\ ((token /\ states[r].out + 1 >= states[r].budget) => ends)
      /\ states' = [states EXCEPT ![r] = [states[r] EXCEPT !.out = out, !.open = ~ends]]
      /\ UNCHANGED <<defaults, accepting, owner, call, pc, outcome, accepted>>
  <2>1. states' = [states EXCEPT ![r] = [states[r] EXCEPT !.out = out, !.open = ~ends]]
    BY DEF Step
  <2>2. (token /\ states[r].out + 1 >= states[r].budget) => ends
    BY DEF Step, Last
  <2> QED
    BY <2>1, <2>2 DEF Step
<1>2. CallsOK' /\ BooksOK'
      /\ \A d \in Callers : /\ Ids(d)' = Ids(d) /\ (Registers(d)' <=> Registers(d))
                            /\ (Front(call[d])' <=> Front(call[d]))
  BY <1>1, CallersStay
<1>3. IsRequest(states[r]) /\ Sizes(states[r]) /\ Belongs(r, states[r])
  BY DEF RequestsOK
<1>4. /\ IsRequest(states'[r]) /\ states'[r].by = states[r].by
      /\ states'[r].at = states[r].at /\ states'[r].prompt = states[r].prompt
      /\ states'[r].budget = states[r].budget /\ states'[r].out = out
      /\ states'[r].open = ~ends
  <2>1. PICK open \in BOOLEAN : open = ~ends
    OBVIOUS
  <2>2. states'[r] = [states[r] EXCEPT !.out = out, !.open = open]
    BY <1>1, <2>1
  <2> HIDE DEF IntakeInv, out
  <2>3. /\ IsRequest(states'[r]) /\ states'[r].by = states[r].by
        /\ states'[r].at = states[r].at /\ states'[r].prompt = states[r].prompt
        /\ states'[r].budget = states[r].budget /\ states'[r].out = out
        /\ states'[r].open = open
    <3>1. PICK o : o = out
      OBVIOUS
    <3>2. IsRequest(states[r])
      BY <1>3
    <3>3. states'[r] = [states[r] EXCEPT !.out = o, !.open = open]
      BY <2>2, <3>1
    <3>4. PICK s : s = states[r]
      OBVIOUS
    <3>5. PICK t : t = states'[r]
      OBVIOUS
    <3>6. IsRequest(s) /\ t = [s EXCEPT !.out = o, !.open = open]
      BY <3>2, <3>3, <3>4, <3>5
    <3>7. IsRequest(t) /\ t.by = s.by /\ t.at = s.at /\ t.prompt = s.prompt
          /\ t.budget = s.budget /\ t.out = o /\ t.open = open
      <4> DEFINE u == [s EXCEPT !.out = o]
      <4>1. u = [by |-> s.by, at |-> s.at, open |-> s.open, out |-> o, prompt |-> s.prompt,
                 budget |-> s.budget, settings |-> s.settings]
        BY <3>6 DEF IsRequest
      <4>2. t = [u EXCEPT !.open = open]
        BY <3>6
      <4>3. t = [by |-> s.by, at |-> s.at, open |-> open, out |-> o, prompt |-> s.prompt,
                 budget |-> s.budget, settings |-> s.settings]
        <5> HIDE DEF u
        <5> QED
          BY <4>1, <4>2
      <4> QED
        BY <4>3 DEF IsRequest
    <3> QED
      BY <3>1, <3>4, <3>5, <3>7
  <2> QED
    BY <2>1, <2>3
<1>5. DOMAIN states' = DOMAIN states /\ \A q \in DOMAIN states \ {r} : states'[q] = states[q]
  BY <1>1
<1>6. /\ out \in Nat /\ out <= states[r].budget /\ (~ends => out < states[r].budget)
      /\ out >= states[r].out /\ (token => out = states[r].out + 1)
  BY <1>1, <1>3 DEF Sizes
<1>7. RequestsOK'
  <2> SUFFICES ASSUME NEW q \in DOMAIN states
               PROVE  IsRequest(states'[q]) /\ Sizes(states'[q]) /\ Belongs(q, states[q])'
    BY <1>5 DEF RequestsOK, IsRequest, Sizes
  <2>1. CASE q # r
    <3>1. IsRequest(states[q]) /\ Sizes(states[q]) /\ Belongs(q, states[q])
      BY DEF RequestsOK
    <3> QED
      BY <1>1, <1>5, <2>1, <3>1 DEF Belongs, Id, Front
  <2>2. CASE q = r
    <3> HIDE DEF out
    <3>1. Sizes(states'[r])
      BY <1>3, <1>4, <1>6 DEF Sizes
    <3>2. Belongs(r, states[r])'
      BY <1>1, <1>3, <1>4 DEF Belongs, Id, Front
    <3> QED
      BY <1>4, <2>2, <3>1, <3>2
  <2> QED
    BY <2>1, <2>2
<1>8. Live' \subseteq Live /\ (r \in Live' => ~ends /\ token)
  BY <1>1, <1>4, <1>5 DEF Live
<1>9. ASSUME NEW q \in Live'
      PROVE  /\ states'[q].out \in Nat /\ states[q].out \in Nat
             /\ states'[q].out >= states[q].out + (IF q = r THEN 1 ELSE 0)
  <2>1. q \in DOMAIN states /\ Sizes(states[q]) /\ Sizes(states'[q])
    BY <1>7, <1>8 DEF Live, RequestsOK
  <2>2. CASE q = r
    BY <1>4, <1>6, <1>8, <2>1, <2>2 DEF Sizes
  <2>3. CASE q # r
    BY <1>5, <2>1, <2>3 DEF Sizes
  <2> QED
    BY <2>2, <2>3
<1>10. BuffersOK'
  <2>1. CASE call[states[r].by].route = "rollout"
    <3>1. UNCHANGED <<buffer, lost>>
      BY <2>1 DEF Step
    <3>2. \A q \in Tracked' \intersect Live' : buffer'[q] <= states'[q].out
      <4> SUFFICES ASSUME NEW q \in Tracked, q \in Live' PROVE buffer'[q] <= states'[q].out
        BY <3>1 DEF Tracked
      <4>1. buffer[q] \in Nat /\ buffer[q] <= states[q].out
        BY <1>8 DEF BuffersOK
      <4> QED
        BY <1>9, <3>1, <4>1
    <3>3. Tracked' = Tracked
      BY <3>1 DEF Tracked
    <3> QED
      BY <1>1, <1>2, <3>1, <3>2, <3>3 DEF BuffersOK, Capacity
  <2>2. CASE call[states[r].by].route # "rollout"
    <3> DEFINE new == [q \in {r} |-> IF token /\ ends THEN 2 ELSE 1]
    <3>1. Deliver(new)
      BY <2>2 DEF Step
    <3>2. DOMAIN new \subseteq Live /\ \A q \in DOMAIN new : new[q] \in {1, 2}
      BY <1>1 DEF Live
    <3>3. \A q \in Live' : states'[q].out \in Nat
            /\ states'[q].out >= states[q].out + (IF q \in DOMAIN new THEN new[q] ELSE 0)
      <4>1. \A q \in Live' : q \in DOMAIN new => q = r /\ new[q] = 1
        BY <1>8
      <4>2. \A q \in Live' : q \notin DOMAIN new => q # r
        OBVIOUS
      <4> HIDE DEF new
      <4> QED
        BY <1>9, <4>1, <4>2
    <3> HIDE DEF new, IntakeInv
    <3> QED
      BY <1>1, <1>8, <3>1, <3>2, <3>3, DeliveredFits
  <2> QED
    BY <2>1, <2>2
<1> QED
  BY <1>2, <1>7, <1>10

\* Requests that leave, or stop, take nothing with them that the others rest on.
LEMMA FewerRequests ==
    ASSUME RequestsOK, BuffersOK, DOMAIN states' \subseteq DOMAIN states,
           \A r \in DOMAIN states' : states'[r] = states[r],
           UNCHANGED <<owner, call, pc, outcome, accepted>>
    PROVE  RequestsOK' /\ Live' \subseteq Live
<1>1. RequestsOK'
  BY DEF RequestsOK, Belongs, Id, Front, Sizes, IsRequest
<1>2. Live' \subseteq Live
  BY DEF Live
<1> QED
  BY <1>1, <1>2

\* A request that has ended is forgotten.
LEMMA ReapKeeps ==
    ASSUME IntakeInv, NEW r \in DOMAIN states, Reap(r)
    PROVE  IntakeInv'
<1> USE DEF IntakeInv
<1>1. /\ states' = [q \in DOMAIN states \ {r} |-> states[q]]
      /\ UNCHANGED <<defaults, accepting, owner, call, pc, outcome, buffer, accepted, lost>>
  BY DEF Reap
<1>2. CallsOK' /\ BooksOK'
      /\ \A d \in Callers : /\ Ids(d)' = Ids(d) /\ (Registers(d)' <=> Registers(d))
                            /\ (Front(call[d])' <=> Front(call[d]))
  BY <1>1, CallersStay
<1>3. DOMAIN states' \subseteq DOMAIN states /\ \A q \in DOMAIN states' : states'[q] = states[q]
  BY <1>1
<1>4. RequestsOK' /\ Live' \subseteq Live
  BY <1>1, <1>3, FewerRequests
<1>5. BuffersOK'
  <2>1. \A q \in Tracked' \intersect Live' : buffer'[q] <= states'[q].out
    BY <1>1, <1>3, <1>4 DEF BuffersOK, Tracked, Live
  <2> QED
    BY <1>1, <1>2, <2>1 DEF BuffersOK, Tracked, Capacity
<1> QED
  BY <1>2, <1>4, <1>5

\* A consumer empties its buffer.
LEMMA DrainKeeps ==
    ASSUME IntakeInv, NEW r \in Tracked, Drain(r)
    PROVE  IntakeInv'
<1> USE DEF IntakeInv
<1>1. /\ buffer' = [buffer EXCEPT ![r] = 0]
      /\ UNCHANGED <<defaults, accepting, owner, call, pc, outcome, states, accepted, lost>>
  BY DEF Drain
<1>2. CallsOK' /\ BooksOK'
      /\ \A d \in Callers : /\ Ids(d)' = Ids(d) /\ (Registers(d)' <=> Registers(d))
                            /\ (Front(call[d])' <=> Front(call[d]))
  BY <1>1, CallersStay
<1>3. RequestsOK' /\ Live' = Live
  <2>1. RequestsOK'
    BY <1>1, FewerRequests
  <2> QED
    BY <1>1, <2>1 DEF Live
<1>4. Tracked' = Tracked /\ \A q \in Tracked : buffer'[q] = IF q = r THEN 0 ELSE buffer[q]
  BY <1>1 DEF Tracked
<1>5. Capacity \in Nat
  BY IntakeAssumption DEF Capacity
<1>6. \A q \in Tracked' \intersect Live' : buffer'[q] <= states'[q].out
  <2> SUFFICES ASSUME NEW q \in Tracked, q \in Live PROVE buffer'[q] <= states'[q].out
    BY <1>3, <1>4
  <2>1. states[q].out \in Nat /\ buffer[q] <= states[q].out
    BY DEF Live, RequestsOK, Sizes, BuffersOK
  <2> QED
    BY <1>1, <1>4, <2>1
<1>7. BuffersOK'
  BY <1>1, <1>2, <1>4, <1>5, <1>6 DEF BuffersOK, Capacity
<1> QED
  BY <1>2, <1>3, <1>7

\* A shutdown ends every live request with one event.
LEMMA ShutdownKeeps ==
    ASSUME IntakeInv, Shutdown
    PROVE  IntakeInv'
<1> DEFINE new == [r \in Live |-> 1]
<1>1. /\ Deliver(new) /\ states' = [r \in {} |-> 0]
      /\ UNCHANGED <<defaults, accepting, owner, call, pc, outcome, accepted>>
  BY DEF Shutdown
<1>2. CallsOK' /\ BooksOK'
  BY <1>1, CallersStay DEF IntakeInv
<1>3. RequestsOK' /\ Live' = {}
  BY <1>1 DEF RequestsOK, Live
<1>4. DOMAIN new \subseteq Live /\ \A r \in DOMAIN new : new[r] \in {1, 2}
  OBVIOUS
<1>5. BuffersOK'
  <2> HIDE DEF new
  <2> QED
    BY <1>1, <1>3, <1>4, DeliveredFits
<1> QED
  BY <1>2, <1>3, <1>5 DEF IntakeInv

\* Closing and opening the engine changes no call, request or buffer.
LEMMA DoorKeeps ==
    ASSUME IntakeInv, Stop \/ Start \/ UNCHANGED intake
    PROVE  IntakeInv'
<1> USE DEF IntakeInv
<1>1. UNCHANGED <<owner, call, pc, outcome, buffer, states, accepted, lost>>
  BY DEF Stop, Start, intake
<1>2. CallsOK' /\ BooksOK'
      /\ \A d \in Callers : /\ Ids(d)' = Ids(d) /\ (Registers(d)' <=> Registers(d))
                            /\ (Front(call[d])' <=> Front(call[d]))
  BY <1>1, CallersStay
<1>3. RequestsOK'
  BY <1>1, FewerRequests
<1>4. BuffersOK'
  BY <1>1, <1>2 DEF BuffersOK, Tracked, Live, Capacity
<1> QED
  BY <1>2, <1>3, <1>4

\* Every step keeps the invariant.
LEMMA IntakeKeeps == IntakeInv /\ [Next]_intake => IntakeInv'
<1> SUFFICES ASSUME IntakeInv, [Next]_intake PROVE IntakeInv'
  OBVIOUS
<1>1. ASSUME NEW c \in Callers, NEW k \in Calls, Begin(c, k) PROVE IntakeInv'
  BY <1>1, BeginKeeps
<1>2. ASSUME NEW c \in Callers, Register(c) PROVE IntakeInv'
  BY <1>2, RegisterKeeps
<1>3. ASSUME NEW c \in Callers, Admit(c) PROVE IntakeInv'
  BY <1>3, AdmitKeeps
<1>4. ASSUME NEW c \in Callers, Execute(c) PROVE IntakeInv'
  BY <1>4, ExecuteKeeps
<1>5. ASSUME NEW c \in Callers, Executed(c) PROVE IntakeInv'
  BY <1>5, ExecutedKeeps
<1>6. ASSUME NEW c \in Callers, Release(c) PROVE IntakeInv'
  BY <1>6, ReleaseKeeps
<1>7. ASSUME NEW r \in DOMAIN states, NEW token \in BOOLEAN, NEW ends \in BOOLEAN,
             Step(r, token, ends)
      PROVE  IntakeInv'
  BY <1>7, StepKeeps
<1>8. ASSUME NEW r \in DOMAIN states, Reap(r) PROVE IntakeInv'
  BY <1>8, ReapKeeps
<1>9. ASSUME NEW r \in Tracked, Drain(r) PROVE IntakeInv'
  BY <1>9, DrainKeeps
<1>10. CASE Shutdown
  BY <1>10, ShutdownKeeps
<1>11. CASE Stop \/ Start \/ UNCHANGED intake
  BY <1>11, DoorKeeps
<1> QED
  BY <1>1, <1>2, <1>3, <1>4, <1>5, <1>6, <1>7, <1>8, <1>9, <1>10, <1>11 DEF Next

-----------------------------------------------------------------------------
(* The theorems. *)

\* The invariant holds in every reachable state.
LEMMA IntakeAlways == Spec => []IntakeInv
BY InitialIntake, IntakeKeeps, PTL DEF Spec

\* The type invariant of every instance: among them that no request has more tokens than it
\* was granted and no buffer more events than its capacity.
THEOREM IntakeIsTyped == Spec => []IntakeTypeOK
<1>1. IntakeInv => IntakeTypeOK
  <2> SUFFICES ASSUME IntakeInv PROVE IntakeTypeOK
    OBVIOUS
  <2>1. owner \in Callers \union {None}
    BY DEF IntakeInv, CallsOK
  <2>2. \A c \in Callers :
          /\ pc[c] \in {"idle", "register", "admit", "execute", "executing", "wait", "release",
                        "done"}
          /\ outcome[c] \in {"none", "empty", "refused", "accepted"}
          /\ (pc[c] # "idle" => call[c] \in Calls)
    BY DEF IntakeInv, CallsOK, Labels, Outcomes
  <2>3. \A r \in Tracked : buffer[r] \in 0..Capacity
    BY IntakeAssumption DEF IntakeInv, BuffersOK, Capacity
  <2>4. \A r \in DOMAIN states : states[r].out \in 0..states[r].budget
    BY DEF IntakeInv, RequestsOK, Sizes
  <2> QED
    BY <2>1, <2>2, <2>3, <2>4 DEF IntakeTypeOK
<1> QED
  BY <1>1, IntakeAlways, PTL

\* Whatever is asked for, by however many callers over whatever window, no request leaves the
\* window and no event is pushed out of a buffer (add_requests, run_batch, _submit_processed).
THEOREM IntakeNeverOverflows == Spec => []NothingOverflows
<1>1. IntakeInv => NothingOverflows
  <2> SUFFICES ASSUME IntakeInv PROVE NothingOverflows
    OBVIOUS
  <2>1. ASSUME NEW r \in DOMAIN states
        PROVE  states[r].prompt \in 1..MaxSeqLen
               /\ states[r].prompt + states[r].budget <= MaxSeqLen
    <3>1. Sizes(states[r])
      BY DEF IntakeInv, RequestsOK
    <3> QED
      BY <3>1, IntakeAssumption DEF Sizes
  <2>2. lost = {}
    BY DEF IntakeInv, BuffersOK
  <2> QED
    BY <2>1, <2>2 DEF NothingOverflows
<1> QED
  BY <1>1, IntakeAlways, PTL

\* Batches are taken as a whole or not at all, nothing of a refused call stays behind, and a
\* request of the front end has its consumer as long as it can emit (_submit_processed,
\* enqueue_tokenized_requests, _release_requests).
THEOREM BatchesAreWhole == Spec => []BatchIsWhole
<1>1. IntakeInv => BatchIsWhole
  <2> SUFFICES ASSUME IntakeInv PROVE BatchIsWhole
    OBVIOUS
  <2>1. ASSUME NEW c \in Callers
        PROVE  {a[2] : a \in {b \in accepted : b[1] = c}}
                  = IF outcome[c] = "accepted" THEN Positions(call[c]) ELSE {}
    <3> DEFINE mine == {a[2] : a \in {b \in accepted : b[1] = c}}
    <3>1. ASSUME NEW i \in mine
          PROVE  outcome[c] = "accepted" /\ i \in Positions(call[c])
      <4>1. PICK a \in accepted : a[1] = c /\ i = a[2]
        BY <3>1
      <4>2. a \in Callers \X Nat
        BY DEF IntakeInv, BooksOK
      <4>3. i \in Nat /\ a = <<c, i>>
        BY <4>1, <4>2
      <4> QED
        BY <4>1, <4>3 DEF IntakeInv, BooksOK
    <3>2. ASSUME outcome[c] = "accepted", NEW i \in Positions(call[c])
          PROVE  i \in mine
      <4>1. call[c] \in Calls
        BY <3>2 DEF IntakeInv, CallsOK
      <4>2. call[c].prompts \in Seq(Nat)
        BY <4>1, IntakeAssumption
      <4>3. i \in Nat
        BY <4>2 DEF Positions
      <4>4. <<c, i>> \in accepted
        BY <3>2, <4>3 DEF IntakeInv, BooksOK
      <4> QED
        BY <4>4
    <3> QED
      BY <3>1, <3>2
  <2>2. ASSUME NEW c \in Callers, pc[c] = "done", Front(call[c])
        PROVE  Ids(c) \intersect Tracked = {}
    <3> SUFFICES ASSUME NEW r \in Ids(c), r \in Tracked PROVE FALSE
      OBVIOUS
    <3>1. PICK d \in Callers : Registers(d) /\ r \in Ids(d)
      BY DEF IntakeInv, BuffersOK
    <3>2. call[c] \in Calls /\ call[d] \in Calls /\ Front(call[d]) /\ d # c
      BY <2>2, <3>1 DEF IntakeInv, CallsOK, Registers
    <3> QED
      BY <2>2, <3>1, <3>2, FrontIds
  <2>3. ASSUME NEW r \in DOMAIN states
        PROVE  /\ <<states[r].by, states[r].at>> \in accepted
               /\ (states[r].open /\ Front(call[states[r].by]) => r \in Tracked)
    <3>1. Belongs(r, states[r])
      BY DEF IntakeInv, RequestsOK
    <3>2. <<states[r].by, states[r].at>> \in accepted /\ states[r].by \in Callers
          /\ states[r].at \in Nat /\ r = Id(states[r].by, states[r].at)
      BY <3>1 DEF Belongs
    <3>3. states[r].at \in Positions(call[states[r].by])
      BY <3>2 DEF IntakeInv, BooksOK
    <3>4. r \in Ids(states[r].by)
      BY <3>2, <3>3 DEF Ids, Positions
    <3>5. states[r].open /\ Front(call[states[r].by]) => Registers(states[r].by)
      BY <3>1 DEF Belongs, Registers
    <3> QED
      BY <3>2, <3>4, <3>5 DEF IntakeInv, BuffersOK
  <2> QED
    BY <2>1, <2>2, <2>3 DEF BatchIsWhole
<1> QED
  BY <1>1, IntakeAlways, PTL

-----------------------------------------------------------------------------
(* The options of a call. *)

\* The least of up to three layers.
LEMMA LeastOfThree ==
    ASSUME NEW S \in SUBSET {1, 2, 3}
    PROVE  LET first == CHOOSE j \in S : \A l \in S : j <= l
           IN  /\ 1 \in S => first = 1
               /\ 1 \notin S /\ 2 \in S => first = 2
               /\ 1 \notin S /\ 2 \notin S /\ 3 \in S => first = 3
<1> DEFINE first == CHOOSE j \in S : \A l \in S : j <= l
<1>1. ASSUME NEW j \in S, \A l \in S : j <= l
      PROVE  first = j
  <2>1. first \in S /\ \A l \in S : first <= l
    BY <1>1
  <2>2. first <= j /\ j <= first
    BY <1>1, <2>1
  <2> HIDE DEF first
  <2> QED
    BY <2>1, <2>2, <1>1
<1>2. \A l \in S : l \in {1, 2, 3}
  OBVIOUS
<1>3. CASE 1 \in S
  <2>1. \A l \in S : 1 <= l
    BY <1>2
  <2> HIDE DEF first
  <2>2. first = 1
    BY <1>1, <1>3, <2>1
  <2> QED
    BY <1>3, <2>2 DEF first
<1>4. CASE 1 \notin S /\ 2 \in S
  <2>1. \A l \in S : 2 <= l
    BY <1>2, <1>4
  <2> HIDE DEF first
  <2>2. first = 2
    BY <1>1, <1>4, <2>1
  <2> QED
    BY <1>4, <2>2 DEF first
<1>5. CASE 1 \notin S /\ 2 \notin S
  <2>1. \A l \in S : l = 3
    BY <1>2, <1>5
  <2> HIDE DEF first
  <2>2. 3 \in S => first = 3
    BY <1>1, <2>1
  <2> QED
    BY <1>5, <2>2 DEF first
<1> QED
  BY <1>3, <1>4, <1>5

\* The options a request runs under are named by the first layer that has them.
LEMMA LayersResolve ==
    ASSUME NEW k, NEW name, NEW default
    PROVE  Get(Config(k), name, default) = Named(k, name, default)
<1> DEFINE L == Layers(k)
           naming == {j \in 1..3 : name \in DOMAIN L[j]}
           first == CHOOSE j \in naming : \A l \in naming : j <= l
<1>1. /\ L[1] = Over(Over(Given(k), Alias(k)), k.extra) /\ L[2] = k.config /\ L[3] = defaults
  BY DEF Layers
<1>2. /\ (1 \in naming <=> name \in DOMAIN L[1]) /\ (2 \in naming <=> name \in DOMAIN L[2])
      /\ (3 \in naming <=> name \in DOMAIN L[3]) /\ naming \subseteq {1, 2, 3}
  OBVIOUS
<1>3. /\ (1 \in naming => first = 1)
      /\ (1 \notin naming /\ 2 \in naming => first = 2)
      /\ (1 \notin naming /\ 2 \notin naming /\ 3 \in naming => first = 3)
  <2> HIDE DEF naming
  <2>1. naming \in SUBSET {1, 2, 3}
    BY <1>2
  <2> QED
    BY <2>1, LeastOfThree
<1>4. Named(k, name, default) = IF naming = {} THEN default ELSE L[first][name]
  BY DEF Named
<1>5. name \in DOMAIN Config(k) <=> \/ name \in DOMAIN L[1] \/ name \in DOMAIN L[2]
                                    \/ name \in DOMAIN L[3]
  BY <1>1 DEF Config, Overrides, Over
<1>6. name \in DOMAIN L[1] => Config(k)[name] = L[1][name]
  BY <1>1 DEF Config, Overrides, Over
<1>7. name \notin DOMAIN L[1] /\ name \in DOMAIN L[2] => Config(k)[name] = L[2][name]
  BY <1>1 DEF Config, Overrides, Over
<1>8. name \notin DOMAIN L[1] /\ name \notin DOMAIN L[2] /\ name \in DOMAIN L[3]
        => Config(k)[name] = L[3][name]
  BY <1>1 DEF Config, Overrides, Over
<1> HIDE DEF naming, first, L
<1>9. CASE 1 \in naming
  <2>1. first = 1
    BY <1>2, <1>3, <1>9
  <2> QED
    BY <1>2, <1>4, <1>5, <1>6, <1>9, <2>1 DEF Get
<1>10. CASE 1 \notin naming /\ 2 \in naming
  <2>1. first = 2
    BY <1>2, <1>3, <1>10
  <2> QED
    BY <1>2, <1>4, <1>5, <1>7, <1>10, <2>1 DEF Get
<1>11. CASE 1 \notin naming /\ 2 \notin naming /\ 3 \in naming
  <2>1. first = 3
    BY <1>2, <1>3, <1>11
  <2> QED
    BY <1>2, <1>4, <1>5, <1>8, <1>11, <2>1 DEF Get
<1>12. CASE 1 \notin naming /\ 2 \notin naming /\ 3 \notin naming
  <2>1. naming = {}
    BY <1>2, <1>12
  <2> QED
    BY <1>2, <1>4, <1>5, <1>12, <2>1 DEF Get
<1> QED
  BY <1>9, <1>10, <1>11, <1>12

\* A request has the size and the settings that its call resolves to.
AsAsked ==
    \A r \in DOMAIN states :
        LET s == states[r]
            k == call[s.by]
        IN  /\ s.prompt = Request(s.by, s.at).prompt
            /\ s.budget = Request(s.by, s.at).budget
            /\ s.settings = Request(s.by, s.at).settings
            /\ k.route # "rollout" => Supported(Config(k))

\* Requests that stay, with their calls, stay what was asked for.
LEMMA SameRequests ==
    ASSUME AsAsked, defaults' = defaults,
           \A r \in DOMAIN states' :
              /\ r \in DOMAIN states
              /\ states'[r].by = states[r].by /\ states'[r].at = states[r].at
              /\ states'[r].prompt = states[r].prompt /\ states'[r].budget = states[r].budget
              /\ states'[r].settings = states[r].settings
              /\ call'[states[r].by] = call[states[r].by]
    PROVE  AsAsked'
BY DEF AsAsked, Request, Config, StopIds

\* There is no request at first.
LEMMA AskedAtFirst == Init => AsAsked
BY DEF Init, AsAsked

\* Requests are made from the call that is enqueued.
LEMMA AskedWhenEnqueued ==
    ASSUME IntakeInv, AsAsked, NEW c \in Callers, pc[c] \in {"admit", "execute"},
           NEW new, new \subseteq Positions(call[c]),
           NEW kept \in SUBSET DOMAIN states, Enqueue(c, new, kept),
           new # {} /\ call[c].route # "rollout" => WellFormed(call[c]),
           UNCHANGED <<defaults, call>>
    PROVE  AsAsked'
<1>1. \A r \in DOMAIN states' :
        \/ r \in kept /\ states'[r] = states[r]
        \/ \E j \in new : states'[r] = Request(c, j)
  BY EnqueueEffect
<1>2. call[c] \in Calls
  BY DEF IntakeInv, CallsOK
<1>3. ASSUME NEW j \in new, call[c].route # "rollout"
      PROVE  Supported(Config(call[c]))
  <2>1. WellFormed(call[c]) /\ j \in DOMAIN call[c].prompts
    BY <1>3 DEF Positions
  <2>2. call[c].prompts # <<>>
    BY <2>1
  <2> QED
    BY <2>1, <2>2 DEF WellFormed
<1>4. \A a, j : Request(a, j)' = Request(a, j)
  BY DEF Request, Config, StopIds
<1>5. \A k : Config(k)' = Config(k)
  BY DEF Config
<1>6. ASSUME NEW r \in DOMAIN states', NEW j \in new, states'[r] = Request(c, j)
      PROVE  /\ states'[r].by = c /\ states'[r].at = j
  BY <1>6 DEF Request
<1> QED
  BY <1>1, <1>2, <1>3, <1>4, <1>5, <1>6 DEF AsAsked

\* No step changes a request's sizes or settings, or the call they came from.
LEMMA AskedKept ==
    ASSUME IntakeInv, AsAsked, [Next]_intake
    PROVE  AsAsked'
<1>1. CASE UNCHANGED <<defaults, call, states>>
  BY <1>1, SameRequests
<1>2. ASSUME NEW c \in Callers, NEW k \in Calls, Begin(c, k)
      PROVE  AsAsked'
  <2>1. /\ pc[c] = "idle" /\ call' = [call EXCEPT ![c] = k] /\ states' = states
        /\ defaults' = defaults
    BY <1>2 DEF Begin
  <2>2. \A r \in DOMAIN states : states[r].by \in Callers /\ states[r].by # c
    BY <2>1 DEF IntakeInv, CallsOK, RequestsOK, Belongs, BooksOK
  <2>3. \A d \in Callers : d # c => call'[d] = call[d]
    BY <2>1 DEF IntakeInv, CallsOK
  <2> QED
    BY <2>1, <2>2, <2>3, SameRequests
<1>3. ASSUME NEW c \in Callers, Admit(c)
      PROVE  AsAsked'
  <2>1. pc[c] = "admit" /\ Enqueue(c, Taken(c), DOMAIN states) /\ UNCHANGED <<defaults, call>>
    BY <1>3 DEF Admit
  <2>2. Taken(c) \subseteq Positions(call[c]) /\ (Taken(c) # {} => WellFormed(call[c]))
    BY DEF Taken, Admissible
  <2> QED
    BY <2>1, <2>2, AskedWhenEnqueued
<1>4. ASSUME NEW c \in Callers, Execute(c)
      PROVE  AsAsked'
  <2> DEFINE new == IF Live = {} THEN Positions(call[c]) ELSE {}
  <2>1. pc[c] = "execute" /\ Enqueue(c, new, Live) /\ UNCHANGED <<defaults, call>>
    BY <1>4 DEF Execute
  <2>2. call[c].route = "rollout" /\ new \subseteq Positions(call[c])
        /\ Live \in SUBSET DOMAIN states
    BY <2>1 DEF IntakeInv, CallsOK, Live
  <2> HIDE DEF new
  <2> QED
    BY <2>1, <2>2, AskedWhenEnqueued
<1>5. ASSUME NEW c \in Callers, Release(c)
      PROVE  AsAsked'
  <2>1. /\ states' = [r \in DOMAIN states |->
                        [states[r] EXCEPT !.open = states[r].open /\ r \notin Ids(c)]]
        /\ UNCHANGED <<defaults, call>>
    BY <1>5 DEF Release
  <2>2. \A r \in DOMAIN states : IsRequest(states[r])
    BY DEF IntakeInv, RequestsOK
  <2>3. \A r \in DOMAIN states :
          /\ states'[r].by = states[r].by /\ states'[r].at = states[r].at
          /\ states'[r].prompt = states[r].prompt /\ states'[r].budget = states[r].budget
          /\ states'[r].settings = states[r].settings
    BY <2>1, <2>2 DEF IsRequest
  <2> QED
    BY <2>1, <2>3, SameRequests
<1>6. ASSUME NEW r \in DOMAIN states, NEW token \in BOOLEAN, NEW ends \in BOOLEAN,
             Step(r, token, ends)
      PROVE  AsAsked'
  <2>1. PICK out, open : /\ states' = [states EXCEPT ![r] =
                                         [states[r] EXCEPT !.out = out, !.open = open]]
                         /\ UNCHANGED <<defaults, call>>
    BY <1>6 DEF Step
  <2>2. IsRequest(states[r])
    BY DEF IntakeInv, RequestsOK
  <2>3. /\ states'[r].by = states[r].by /\ states'[r].at = states[r].at
        /\ states'[r].prompt = states[r].prompt /\ states'[r].budget = states[r].budget
        /\ states'[r].settings = states[r].settings
    BY <2>1, <2>2 DEF IsRequest
  <2>4. DOMAIN states' = DOMAIN states /\ \A q \in DOMAIN states \ {r} : states'[q] = states[q]
    BY <2>1
  <2> QED
    BY <2>1, <2>3, <2>4, SameRequests
<1>7. ASSUME NEW r \in DOMAIN states, Reap(r)
      PROVE  AsAsked'
  BY <1>7, SameRequests DEF Reap
<1>8. CASE Shutdown
  BY <1>8 DEF Shutdown, AsAsked
<1>9. \A c \in Callers : Register(c) \/ Executed(c) => UNCHANGED <<defaults, call, states>>
  BY DEF Register, Executed
<1>10. (\E r \in Tracked : Drain(r)) \/ Stop \/ Start \/ UNCHANGED intake
         => UNCHANGED <<defaults, call, states>>
  BY DEF Drain, Stop, Start, intake
<1> QED
  BY <1>1, <1>2, <1>3, <1>4, <1>5, <1>6, <1>7, <1>8, <1>9, <1>10 DEF Next

\* Requests are always what their calls resolve to.
LEMMA AskedAlways == Spec => []AsAsked
<1>1. IntakeInv /\ AsAsked /\ [Next]_intake => AsAsked'
  BY AskedKept
<1> QED
  BY <1>1, AskedAtFirst, IntakeAlways, PTL DEF Spec

\* A budget ends the sequence where the call asks for, or at the window.
LEMMA BudgetMeetsTarget ==
    ASSUME NEW k, Supported(Config(k)), NEW len \in Nat, len <= MaxSeqLen
    PROVE  len + Budget(Config(k), len) = Least(MaxSeqLen, Target(k, len))
<1>1. PICK asked : asked = Get(Config(k), "max_new_tokens", None)
  OBVIOUS
<1>2. PICK longest : longest = Get(Config(k), "max_length", len + 20)
  OBVIOUS
<1>3. asked = Named(k, "max_new_tokens", None) /\ longest = Named(k, "max_length", len + 20)
  BY <1>1, <1>2, LayersResolve
<1>4. asked \in Nat \/ asked = None
  BY <1>1 DEF Supported
<1>5. asked = None => Get(Config(k), "max_length", 20) \in Nat
  BY <1>1 DEF Supported
<1>6. "max_length" \in DOMAIN Config(k) => longest = Config(k)["max_length"]
                                           /\ (asked = None => longest \in Nat)
  BY <1>2, <1>5 DEF Get
<1>7. "max_length" \notin DOMAIN Config(k) => longest = len + 20
  BY <1>2 DEF Get
<1>8. Target(k, len) = IF asked # None THEN len + asked
                       ELSE IF longest < len THEN len ELSE longest
  BY <1>3 DEF Target
<1>9. Budget(Config(k), len) =
        IF asked # None THEN Least(asked, Room(len))
        ELSE IF "max_length" \notin DOMAIN Config(k) THEN Least(20, Room(len))
        ELSE IF longest <= len THEN 0 ELSE Least(longest - len, Room(len))
  BY <1>1, <1>6 DEF Budget
<1>10. MaxSeqLen \in Nat
  BY IntakeAssumption
<1>11. CASE asked # None
  BY <1>4, <1>8, <1>9, <1>10, <1>11 DEF Least, Room
<1>12. CASE asked = None /\ "max_length" \notin DOMAIN Config(k)
  BY <1>7, <1>8, <1>9, <1>10, <1>12 DEF Least, Room
<1>13. CASE asked = None /\ "max_length" \in DOMAIN Config(k)
  BY <1>6, <1>8, <1>9, <1>10, <1>13 DEF Least, Room
<1> QED
  BY <1>11, <1>12, <1>13

\* Every request runs under the options of its own call, the most explicit layer first, and
\* ends where they say or at the window; prompts of rollouts are never cut (add_requests,
\* resolve_generation_parameters, run_batch).
THEOREM SettingsFollowTheCall == Spec => []SettingsAreTheCallers
<1>1. IntakeInv /\ AsAsked => SettingsAreTheCallers
  <2> SUFFICES ASSUME IntakeInv, AsAsked, NEW r \in DOMAIN states
               PROVE  LET k == call[states[r].by]
                          s == states[r].settings
                      IN  IF k.route = "rollout" THEN states[r].prompt = k.prompts[states[r].at]
                          ELSE /\ s.temperature = IF Named(k, "do_sample", FALSE)
                                                  THEN Named(k, "temperature", One) ELSE 0
                               /\ s.topP = Named(k, "top_p", One)
                               /\ s.topK = Named(k, "top_k", 50)
                               /\ s.eos = Eos(Named(k, "eos_token_id", None))
                               /\ states[r].prompt + states[r].budget
                                      = Least(MaxSeqLen, Target(k, states[r].prompt))
    BY DEF SettingsAreTheCallers
  <2>1. PICK k : k = call[states[r].by]
    OBVIOUS
  <2>2. /\ states[r].prompt = Request(states[r].by, states[r].at).prompt
        /\ states[r].budget = Request(states[r].by, states[r].at).budget
        /\ states[r].settings = Request(states[r].by, states[r].at).settings
        /\ (k.route # "rollout" => Supported(Config(k)))
    BY <2>1 DEF AsAsked
  <2>3. CASE k.route = "rollout"
    BY <2>1, <2>2, <2>3 DEF Request
  <2>4. CASE k.route # "rollout"
    <3>1. /\ states[r].budget = Budget(Config(k), states[r].prompt)
          /\ states[r].settings = Settings(Config(k))
      BY <2>1, <2>2, <2>4 DEF Request
    <3>2. states[r].prompt \in Nat /\ states[r].prompt <= MaxSeqLen
      <4>1. Sizes(states[r])
        BY DEF IntakeInv, RequestsOK
      <4> QED
        BY <4>1, IntakeAssumption DEF Sizes
    <3>3. states[r].prompt + states[r].budget = Least(MaxSeqLen, Target(k, states[r].prompt))
      BY <2>2, <2>4, <3>1, <3>2, BudgetMeetsTarget
    <3>4. /\ states[r].settings.temperature = IF Named(k, "do_sample", FALSE)
                                             THEN Named(k, "temperature", One) ELSE 0
          /\ states[r].settings.topP = Named(k, "top_p", One)
          /\ states[r].settings.topK = Named(k, "top_k", 50)
          /\ states[r].settings.eos = Eos(Named(k, "eos_token_id", None))
      <4>1. states[r].settings =
              [temperature |-> IF Get(Config(k), "do_sample", FALSE)
                               THEN Get(Config(k), "temperature", One) ELSE 0,
               topP |-> Get(Config(k), "top_p", One), topK |-> Get(Config(k), "top_k", 50),
               eos |-> Eos(Get(Config(k), "eos_token_id", None))]
        BY <3>1 DEF Settings
      <4>2. \A name, default : Get(Config(k), name, default) = Named(k, name, default)
        BY LayersResolve
      <4>3. states[r].settings =
              [temperature |-> IF Named(k, "do_sample", FALSE)
                               THEN Named(k, "temperature", One) ELSE 0,
               topP |-> Named(k, "top_p", One), topK |-> Named(k, "top_k", 50),
               eos |-> Eos(Named(k, "eos_token_id", None))]
        BY <4>1, <4>2, Zenon
      <4> QED
        BY <4>3
    <3> QED
      BY <2>1, <2>4, <3>3, <3>4
  <2> QED
    BY <2>3, <2>4
<1> QED
  BY <1>1, IntakeAlways, AskedAlways, PTL

=============================================================================
