------------------------ MODULE CommandRetriesProofs ------------------------
(***************************************************************************)
(* Theorems about CommandRetries for every set of commands, shapes and     *)
(* keys and every bound on retries.                                        *)
(***************************************************************************)
EXTENDS CommandRetries, FiniteSetTheorems, TLAPS

\* What a finished copy does to the client's side, for one command at a time.
LEMMA FinishedCopy ==
  ASSUME TypeOK, NEW c \in Commands, NEW answer \in {"accepted", "refused"}, Finishes(c, answer)
  PROVE  /\ working[c] > 0 /\ UNCHANGED <<command, sent>>
         /\ working' \in [Commands -> 0 .. MaxAttempts]
         /\ told' \in [Commands -> {"nothing", "accepted", "refused"}]
         /\ \A d \in Commands : working'[d] = IF d = c THEN working[d] - 1 ELSE working[d]
         /\ \A d \in Commands \ {c} : told'[d] = told[d]
         /\ told'[c] \in {told[c], answer}
         /\ told[c] = "accepted" => told'[c] = "accepted"
BY CommandAssumption DEF Finishes, TypeOK

\* A copy that is worked on has been sent, and every order came of a copy that is not any more.
Counted == \A c \in Commands : working[c] + orders[c] <= sent[c]

\* Every row of a handler is well-typed, and no more orders appear than copies were sent.
LEMMA TypeStep == TypeOK /\ Counted /\ [Next]_vars => TypeOK' /\ Counted'
<1> SUFFICES ASSUME TypeOK, Counted, [Next]_vars PROVE TypeOK' /\ Counted'
  OBVIOUS
<1> USE CommandAssumption
<1>1. ASSUME NEW c \in Commands, Send(c) PROVE TypeOK' /\ Counted'
  BY <1>1 DEF Send, TypeOK, Counted
<1>2. ASSUME NEW c \in Commands, Fails(c) PROVE TypeOK' /\ Counted'
  BY <1>2 DEF Fails, TypeOK, Counted
<1>3. ASSUME NEW c \in Commands, QueueJob(c) PROVE TypeOK' /\ Counted'
  <2>1. PICK k \in KeyOf(c) : /\ job' = [job EXCEPT ![<<command[c].kind, k>>] =
                                    [operation |-> IF @ = None THEN command[c].operation ELSE @.operation,
                                     payload |-> c]]
                              /\ Announces(c, k)
    BY <1>3 DEF QueueJob
  <2>2. k \in Keys /\ <<command[c].kind, k>> \in Bridges \X Keys
    BY <1>3 DEF QueueJob, KeyOf, TypeOK
  <2>3. job[<<command[c].kind, k>>] # None => job[<<command[c].kind, k>>] \in JobRow
    BY <2>2 DEF TypeOK
  <2>4. [operation |-> IF job[<<command[c].kind, k>>] = None THEN command[c].operation
                       ELSE job[<<command[c].kind, k>>].operation, payload |-> c] \in JobRow
    BY <2>3 DEF JobRow, TypeOK
  <2>5. job' \in [Bridges \X Keys -> JobRow \cup {None}]
    BY <2>1, <2>4 DEF TypeOK
  <2>6. outbox' \in [Keys -> Commands \cup {None}]
    BY <2>1 DEF Announces, TypeOK
  <2>7. UNCHANGED <<tenant, orders>> /\ Finishes(c, "accepted")
    BY <1>3 DEF QueueJob
  <2> QED BY <2>5, <2>6, <2>7, FinishedCopy DEF TypeOK, Counted
<1>4. ASSUME NEW c \in Commands, CreateTenant(c) PROVE TypeOK' /\ Counted'
  <2>1. outbox' \in [Keys -> Commands \cup {None}]
    BY <1>4 DEF CreateTenant, Announces, TypeOK
  <2> QED BY <1>4, <2>1, FinishedCopy DEF CreateTenant, TypeOK, Counted
<1>5. ASSUME NEW c \in Commands, TenantConflict(c) PROVE TypeOK' /\ Counted'
  BY <1>5, FinishedCopy DEF TenantConflict, TypeOK, Counted
<1>6. ASSUME NEW c \in Commands, CreateOrder(c) PROVE TypeOK' /\ Counted'
  <2>1. /\ Finishes(c, "accepted") /\ UNCHANGED <<job, outbox, tenant>>
        /\ orders' = [orders EXCEPT ![c] = @ + 1]
    BY <1>6 DEF CreateOrder
  <2>2. Counted'
    BY <2>1, FinishedCopy DEF TypeOK, Counted
  <2>3. orders[c] + 1 \in 0 .. MaxAttempts
    BY <2>1, FinishedCopy DEF TypeOK, Counted
  <2> QED BY <2>1, <2>2, <2>3, FinishedCopy DEF TypeOK
<1>7. CASE UNCHANGED vars
  BY <1>7 DEF vars, clientVars, TypeOK, Counted
<1> QED BY <1>1, <1>2, <1>3, <1>4, <1>5, <1>6, <1>7 DEF Next

\* The tables of jobs, events, tenants and orders are well-typed in every behaviour.
THEOREM TypeCorrect == Spec => []TypeOK
<1>1. Init => TypeOK /\ Counted
  BY CommandAssumption DEF Init, TypeOK, Counted
<1> QED BY <1>1, TypeStep, PTL DEF Spec
-----------------------------------------------------------------------------
(***************************************************************************)
(* The inductive invariant.  Rows stand where their command puts them: a   *)
(* job and its event under the command's key, or under a random key that   *)
(* no command mentions; an order only for an order, the tenant only for a  *)
(* tenant.  While every copy of a command is still worked on, nothing has  *)
(* happened.  A command sent once has what its client was told.  Keys are  *)
(* apart, so that under a command's key no other command writes: its row   *)
(* and its event stand there together.                                     *)
(***************************************************************************)
Apart == \A c, d \in Commands : c # d /\ command[c].key # None => command[c].key # command[d].key
Fits(c, k) == command[c].key = k \/ (command[c].key = None /\ k \notin Mentioned)

Placed ==
  /\ \A b \in Bridges, k \in Keys : job[<<b, k>>] # None =>
       command[job[<<b, k>>].payload].kind = b /\ Fits(job[<<b, k>>].payload, k)
  /\ \A k \in Keys : outbox[k] # None =>
       command[outbox[k]].kind \in Bridges \cup {"tenant"} /\ Fits(outbox[k], k)
  /\ tenant # None => command[tenant].kind = "tenant"
  /\ \A c \in Commands : orders[c] > 0 => command[c].kind = "order"

NoRow(c) == JobsOf(c) = {} /\ tenant # c /\ orders[c] = 0
OneRow(c) ==
  \/ JobsOf(c) = {} /\ tenant # c /\ orders[c] = 1
  \/ JobsOf(c) = {} /\ tenant = c /\ orders[c] = 0
  \/ (\E x \in Bridges \X Keys : JobsOf(c) = {x}) /\ tenant # c /\ orders[c] = 0

Untouched == \A c \in Commands : working[c] = sent[c] => told[c] = "nothing" /\ NoRow(c)
SentOnce == \A c \in Commands :
  /\ sent[c] = 1 /\ told[c] = "accepted" => OneRow(c)
  /\ sent[c] = 1 /\ told[c] = "refused" => NoRow(c)

Together == \A c \in Keyed :
  ~NoRow(c) <=> outbox[command[c].key] = c

IInv ==
  /\ TypeOK /\ Counted
  /\ Apart /\ Placed
  /\ Untouched /\ SentOnce
  /\ JobsAreAnnounced /\ Together

\* What rows are counted.
LEMMA RowCount ==
  ASSUME TypeOK, NEW c \in Commands
  PROVE  (NoRow(c) => Rows(c) = 0) /\ (OneRow(c) => Rows(c) = 1)
<1>1. Cardinality({}) = 0
  BY FS_EmptySet
<1>2. \A x : Cardinality({x}) = 1
  BY FS_Singleton
<1> QED BY <1>1, <1>2 DEF NoRow, OneRow, Rows

\* A bridge job or a tenant under a key has its row in one place.
LEMMA KeyedRow ==
  ASSUME TypeOK, Placed, NEW c \in Keyed
  PROVE  /\ command[c].key \in Keys /\ orders[c] = 0
         /\ JobsOf(c) \subseteq {<<command[c].kind, command[c].key>>}
         /\ JobsOf(c) # {} => command[c].kind \in Bridges
         /\ tenant = c => command[c].kind = "tenant"
         /\ NoRow(c) \/ OneRow(c)
<1> USE CommandAssumption
<1>1. c \in Commands /\ command[c].key \in Keys /\ orders[c] = 0
  BY DEF Keyed, Placed, TypeOK
<1>2. JobsOf(c) \subseteq {<<command[c].kind, command[c].key>>}
  BY <1>1 DEF JobsOf, Placed, Fits, Keyed
<1>3. JobsOf(c) # {} => command[c].kind \in Bridges
  BY <1>1 DEF JobsOf, Placed
<1>4. tenant = c => command[c].kind = "tenant"
  BY <1>1 DEF Placed
<1>5. JobsOf(c) # {} => tenant # c
  BY <1>3, <1>4 DEF Bridges
<1>6. JobsOf(c) # {} => \E x \in Bridges \X Keys : JobsOf(c) = {x}
  BY <1>1, <1>2, <1>3
<1> QED BY <1>1, <1>2, <1>3, <1>4, <1>5, <1>6 DEF NoRow, OneRow

\* A job is written over a job of the same command only, beside an event of the command.
LEMMA QueuedJob ==
  ASSUME IInv, NEW c \in Commands, QueueJob(c)
  PROVE  \E k \in Keys :
    LET x == <<command[c].kind, k>> IN
    /\ x \in Bridges \X Keys /\ Fits(c, k)
    /\ job[x] # None => job[x].payload = c
    /\ outbox[k] # None => outbox[k] = c
    /\ \A y \in Bridges \X Keys : y # x => job'[y] = job[y]
    /\ job'[x] # None /\ job'[x].payload = c
    /\ job'[x].operation = IF job[x] = None THEN command[c].operation ELSE job[x].operation
    /\ \A l \in Keys : l # k => outbox'[l] = outbox[l]
    /\ outbox'[k] = c
    /\ JobsOf(c)' = JobsOf(c) \cup {x}
    /\ \A d \in Commands \ {c} : JobsOf(d)' = JobsOf(d)
<1> USE CommandAssumption
<1>1. PICK k \in KeyOf(c) : /\ job' = [job EXCEPT ![<<command[c].kind, k>>] =
                                  [operation |-> IF @ = None THEN command[c].operation ELSE @.operation,
                                   payload |-> c]]
                            /\ Announces(c, k)
  BY DEF QueueJob
<1> DEFINE x == <<command[c].kind, k>>
<1> DEFINE row == [operation |-> IF job[x] = None THEN command[c].operation ELSE job[x].operation,
                   payload |-> c]
<1>t. TypeOK /\ Placed /\ Apart
  BY DEF IInv
<1>2. k \in Keys /\ x \in Bridges \X Keys /\ Fits(c, k)
  BY <1>t DEF QueueJob, KeyOf, Fits, TypeOK
<1>3. job[x] # None => job[x] \in JobRow
  BY <1>2, <1>t DEF TypeOK
<1>4. row \in JobRow
  BY <1>3, <1>t DEF JobRow, TypeOK
<1>5. \A d \in Commands : Fits(d, k) /\ (job[x] # None \/ outbox[k] # None) => d = c
  <2>1. CASE command[c].key = None
    BY <2>1, <1>1, <1>2 DEF KeyOf, Taken
  <2>2. CASE command[c].key # None
    <3>1. command[c].key = k /\ k \in Mentioned
      BY <2>2, <1>1, <1>2 DEF KeyOf, Mentioned
    <3> QED BY <3>1, <2>2, <1>t DEF Fits, Apart
  <2> QED BY <2>1, <2>2
<1>6. job[x] # None => job[x].payload = c
  BY <1>2, <1>3, <1>5, <1>t DEF Placed, JobRow
<1>7. outbox[k] # None => outbox[k] = c
  BY <1>2, <1>5, <1>t DEF Placed, TypeOK
<1>8. job'[x] = row /\ \A y \in Bridges \X Keys : y # x => job'[y] = job[y]
  BY <1>1, <1>2, <1>t DEF TypeOK
<1>9. outbox'[k] = c /\ \A l \in Keys : l # k => outbox'[l] = outbox[l]
  BY <1>1, <1>2, <1>7, <1>t DEF Announces, TypeOK
<1>10. row # None
  BY <1>4
<1>11. JobsOf(c)' = JobsOf(c) \cup {x}
  BY <1>2, <1>8, <1>10 DEF JobsOf
<1>12. \A d \in Commands \ {c} : JobsOf(d)' = JobsOf(d)
  BY <1>2, <1>6, <1>8, <1>10 DEF JobsOf
<1> QED BY <1>2, <1>6, <1>7, <1>8, <1>9, <1>10, <1>11, <1>12

\* The unique key of a tenant's event: no other command writes under it.
LEMMA CreatedTenant ==
  ASSUME IInv, NEW c \in Commands, CreateTenant(c)
  PROVE  \E k \in Keys :
    /\ c \in Keyed /\ command[c].key = k /\ tenant = None /\ tenant' = c
    /\ outbox[k] # None => outbox[k] = c
    /\ \A l \in Keys : l # k => outbox'[l] = outbox[l]
    /\ outbox'[k] = c
    /\ \A b \in Bridges : job[<<b, k>>] = None
    /\ \A d \in Commands : JobsOf(d)' = JobsOf(d)
<1> USE CommandAssumption
<1>t. TypeOK /\ Placed /\ Apart /\ Together
  BY DEF IInv
<1>1. command[c].key \in Keys /\ command[c].key \in Mentioned
  BY <1>t DEF CreateTenant, TypeOK, Mentioned
<1> DEFINE k == command[c].key
<1>2. Announces(c, k) /\ tenant = None /\ tenant' = c /\ UNCHANGED <<job, orders>> /\ c \in Keyed
  BY <1>1 DEF CreateTenant, KeyOf, Keyed
<1>3. \A d \in Commands : Fits(d, k) => d = c
  BY <1>1, <1>t DEF Fits, Apart
<1>4. outbox[k] # None => outbox[k] = c
  BY <1>1, <1>3, <1>t DEF Placed, TypeOK
<1>5. outbox'[k] = c /\ \A l \in Keys : l # k => outbox'[l] = outbox[l]
  BY <1>1, <1>2, <1>4, <1>t DEF Announces, TypeOK
<1>6. ASSUME NEW b \in Bridges, job[<<b, k>>] # None PROVE FALSE
  <2>1. job[<<b, k>>].payload \in Commands
    BY <1>1, <1>6, <1>t DEF TypeOK, JobRow
  <2>2. job[<<b, k>>].payload = c /\ command[c].kind = b
    BY <2>1, <1>1, <1>3, <1>6, <1>t DEF Placed
  <2> QED BY <2>2 DEF CreateTenant, Bridges
<1>7. \A d \in Commands : JobsOf(d)' = JobsOf(d)
  BY <1>2 DEF JobsOf
<1> QED BY <1>1, <1>2, <1>4, <1>5, <1>6, <1>7

\* With keys apart, the empty tables satisfy the inductive invariant.
LEMMA InitIInv == KeysApart /\ Init => IInv
<1> SUFFICES ASSUME KeysApart, Init PROVE IInv
  OBVIOUS
<1>1. TypeOK /\ Counted
  BY CommandAssumption DEF Init, TypeOK, Counted
<1>2. Apart /\ Placed /\ JobsAreAnnounced
  BY CommandAssumption DEF Init, Apart, Placed, JobsAreAnnounced
<1>3. \A c \in Commands : NoRow(c) /\ told[c] = "nothing"
  BY CommandAssumption DEF Init, NoRow, JobsOf
<1>4. \A c \in Keyed : outbox[command[c].key] # c
  BY CommandAssumption, <1>1 DEF Init, Keyed, TypeOK
<1> QED BY <1>1, <1>2, <1>3, <1>4 DEF IInv, Untouched, SentOnce, Together, Keyed

\* Every step preserves it.
LEMMA StepIInv == IInv /\ [Next]_vars => IInv'
<1> SUFFICES ASSUME IInv, [Next]_vars
             PROVE  /\ (Apart /\ Placed)' /\ Untouched' /\ SentOnce'
                    /\ JobsAreAnnounced' /\ Together'
  BY TypeStep DEF IInv
<1>t. TypeOK /\ TypeOK' /\ Counted /\ Counted'
  BY TypeStep DEF IInv
<1>i. Apart /\ Placed /\ Untouched /\ SentOnce /\ JobsAreAnnounced /\ Together
  BY DEF IInv
<1> DEFINE Goal == /\ (Apart /\ Placed)' /\ Untouched' /\ SentOnce'
                   /\ JobsAreAnnounced' /\ Together'
<1> USE CommandAssumption
<1>1. ASSUME NEW c \in Commands, Send(c) \/ Fails(c) PROVE Goal
  <2>1. /\ UNCHANGED <<command, told, job, outbox, tenant, orders>>
        /\ \A d \in Commands : d # c => working'[d] = working[d] /\ sent'[d] = sent[d]
        /\ \/ sent'[c] = sent[c] + 1 /\ working'[c] = working[c] + 1 /\ told[c] = "nothing"
           \/ sent'[c] = sent[c] /\ working'[c] = working[c] - 1 /\ working[c] > 0
    BY <1>1, <1>t DEF Send, Fails, TypeOK
  <2>2. (Apart /\ Placed)' /\ JobsAreAnnounced'
    BY <2>1, <1>i DEF Apart, Placed, Fits, Mentioned, JobsAreAnnounced
  <2>3. Keyed' = Keyed /\ \A d \in Commands : NoRow(d)' = NoRow(d) /\ OneRow(d)' = OneRow(d)
    BY <2>1 DEF Keyed, NoRow, OneRow, JobsOf
  <2>4. Together'
    BY <2>1, <2>3, <1>i DEF Together, Keyed
  <2>5. \A d \in Commands : working[d] <= sent[d] /\ working[d] \in Nat /\ sent[d] \in Nat
    BY <1>t DEF TypeOK, Counted
  <2>6. Untouched'
    BY <2>1, <2>3, <2>5, <1>i DEF Untouched
  <2>7. SentOnce'
    BY <2>1, <2>3, <2>5, <1>i DEF SentOnce
  <2> QED BY <2>2, <2>4, <2>6, <2>7
<1>2. ASSUME NEW c \in Commands, QueueJob(c) PROVE Goal
  <2> DEFINE kind == command[c].kind
  <2>1. PICK k \in Keys :
          LET x == <<kind, k>> IN
          /\ x \in Bridges \X Keys /\ Fits(c, k)
          /\ job[x] # None => job[x].payload = c
          /\ outbox[k] # None => outbox[k] = c
          /\ \A y \in Bridges \X Keys : y # x => job'[y] = job[y]
          /\ job'[x] # None /\ job'[x].payload = c
          /\ job'[x].operation = IF job[x] = None THEN command[c].operation ELSE job[x].operation
          /\ \A l \in Keys : l # k => outbox'[l] = outbox[l]
          /\ outbox'[k] = c
          /\ JobsOf(c)' = JobsOf(c) \cup {x}
          /\ \A d \in Commands \ {c} : JobsOf(d)' = JobsOf(d)
    BY <1>2, QueuedJob
  <2> DEFINE x == <<kind, k>>
  <2>2. Finishes(c, "accepted") /\ UNCHANGED <<tenant, orders>> /\ kind \in Bridges
    BY <1>2 DEF QueueJob
  <2>3. /\ working[c] > 0 /\ UNCHANGED <<command, sent>>
        /\ \A d \in Commands : working'[d] = IF d = c THEN working[d] - 1 ELSE working[d]
        /\ \A d \in Commands \ {c} : told'[d] = told[d]
        /\ told'[c] \in {told[c], "accepted"}
    BY <2>2, <1>t, FinishedCopy
  <2>4. tenant # c /\ orders[c] = 0
    BY <2>2, <1>i, <1>t DEF Placed, Bridges, TypeOK
  <2>5. \A d \in Commands \ {c} : NoRow(d)' = NoRow(d) /\ OneRow(d)' = OneRow(d)
    BY <2>1, <2>2 DEF NoRow, OneRow
  <2>6. ~NoRow(c)' /\ (NoRow(c) => OneRow(c)')
    BY <2>1, <2>2, <2>4 DEF NoRow, OneRow
  <2>7. (Apart /\ Placed)'
    BY <2>1, <2>2, <2>3, <1>i DEF Apart, Placed, Fits, Mentioned
  <2>8. \A d \in Commands : working[d] <= sent[d] /\ working[d] \in Nat /\ sent[d] \in Nat
    BY <1>t DEF TypeOK, Counted
  <2>9. Untouched'
    BY <2>3, <2>5, <2>8, <1>i DEF Untouched
  <2>10. SentOnce'
    BY <2>3, <2>5, <2>6, <2>8, <1>i DEF Untouched, SentOnce
  <2>11. JobsAreAnnounced'
    BY <2>1, <2>2, <2>3, <1>i DEF JobsAreAnnounced
  <2>12. Together'
    BY <2>1, <2>3, <2>5, <2>6, <1>t, <1>i DEF Together, Keyed, Fits, TypeOK, Apart
  <2> QED BY <2>7, <2>9, <2>10, <2>11, <2>12
<1>3. ASSUME NEW c \in Commands, CreateTenant(c) PROVE Goal
  <2>1. PICK k \in Keys :
          /\ c \in Keyed /\ command[c].key = k /\ tenant = None /\ tenant' = c
          /\ outbox[k] # None => outbox[k] = c
          /\ \A l \in Keys : l # k => outbox'[l] = outbox[l]
          /\ outbox'[k] = c
          /\ \A b \in Bridges : job[<<b, k>>] = None
          /\ \A d \in Commands : JobsOf(d)' = JobsOf(d)
    BY <1>3, CreatedTenant
  <2>2. Finishes(c, "accepted") /\ UNCHANGED <<job, orders>> /\ command[c].kind = "tenant"
    BY <1>3 DEF CreateTenant
  <2>3. /\ working[c] > 0 /\ UNCHANGED <<command, sent>>
        /\ \A d \in Commands : working'[d] = IF d = c THEN working[d] - 1 ELSE working[d]
        /\ \A d \in Commands \ {c} : told'[d] = told[d]
        /\ told'[c] \in {told[c], "accepted"}
    BY <2>2, <1>t, FinishedCopy
  <2>4. JobsOf(c) = {} /\ orders[c] = 0
    BY <2>1, <2>2, <1>i, <1>t, KeyedRow DEF Bridges
  <2>5. \A d \in Commands \ {c} : NoRow(d)' = NoRow(d) /\ OneRow(d)' = OneRow(d)
    BY <2>1, <2>2 DEF NoRow, OneRow
  <2>6. ~NoRow(c)' /\ OneRow(c)'
    BY <2>1, <2>2, <2>4 DEF NoRow, OneRow
  <2>7. (Apart /\ Placed)'
    BY <2>1, <2>2, <2>3, <1>i DEF Apart, Placed, Fits, Mentioned
  <2>8. \A d \in Commands : working[d] <= sent[d] /\ working[d] \in Nat /\ sent[d] \in Nat
    BY <1>t DEF TypeOK, Counted
  <2>9. Untouched'
    BY <2>3, <2>5, <2>8, <1>i DEF Untouched
  <2>10. SentOnce'
    BY <2>3, <2>5, <2>6, <2>8, <1>i DEF Untouched, SentOnce
  <2>11. JobsAreAnnounced'
    BY <2>1, <2>2, <2>3, <1>i DEF JobsAreAnnounced
  <2>12. Together'
    BY <2>1, <2>3, <2>5, <2>6, <1>t, <1>i DEF Together, Keyed, TypeOK, Apart
  <2> QED BY <2>7, <2>9, <2>10, <2>11, <2>12
<1>4. ASSUME NEW c \in Commands, TenantConflict(c) \/ CreateOrder(c) PROVE Goal
  <2>1. /\ UNCHANGED <<job, outbox, tenant>>
        /\ \/ /\ Finishes(c, "refused") /\ UNCHANGED orders /\ command[c].kind = "tenant"
           \/ /\ Finishes(c, "accepted") /\ orders' = [orders EXCEPT ![c] = @ + 1]
              /\ command[c].kind = "order"
    BY <1>4 DEF TenantConflict, CreateOrder
  <2>2. /\ working[c] > 0 /\ UNCHANGED <<command, sent>>
        /\ \A d \in Commands : working'[d] = IF d = c THEN working[d] - 1 ELSE working[d]
        /\ \A d \in Commands \ {c} : told'[d] = told[d] /\ orders'[d] = orders[d]
    BY <2>1, <1>t, FinishedCopy DEF TypeOK
  <2>3. \A d \in Commands : JobsOf(d)' = JobsOf(d)
    BY <2>1 DEF JobsOf
  <2>4. \A d \in Commands \ {c} : NoRow(d)' = NoRow(d) /\ OneRow(d)' = OneRow(d)
    BY <2>1, <2>2, <2>3 DEF NoRow, OneRow
  <2>5. \/ told'[c] \in {told[c], "refused"} /\ NoRow(c)' = NoRow(c)
        \/ /\ told'[c] \in {told[c], "accepted"} /\ c \notin Keyed
           /\ NoRow(c) => OneRow(c)'
    <3>1. CASE Finishes(c, "refused") /\ UNCHANGED orders
      BY <3>1, <2>1, <2>3, <1>t, FinishedCopy DEF NoRow
    <3>2. CASE /\ Finishes(c, "accepted") /\ orders' = [orders EXCEPT ![c] = @ + 1]
               /\ command[c].kind = "order"
      BY <3>2, <2>1, <2>3, <1>t, FinishedCopy DEF NoRow, OneRow, Keyed, TypeOK
    <3> QED BY <3>1, <3>2, <2>1
  <2>6. (Apart /\ Placed)' /\ JobsAreAnnounced'
    BY <2>1, <2>2, <1>i, <1>t DEF Apart, Placed, Fits, Mentioned, JobsAreAnnounced, TypeOK
  <2>7. \A d \in Commands : working[d] <= sent[d] /\ working[d] \in Nat /\ sent[d] \in Nat
    BY <1>t DEF TypeOK, Counted
  <2>8. Untouched'
    BY <2>2, <2>4, <2>7, <1>i DEF Untouched
  <2>9. SentOnce'
    BY <2>2, <2>4, <2>5, <2>7, <1>i DEF Untouched, SentOnce
  <2>10. Together'
    BY <2>1, <2>2, <2>4, <2>5, <1>i DEF Together, Keyed
  <2> QED BY <2>6, <2>8, <2>9, <2>10
<1>5. CASE UNCHANGED vars
  BY <1>5, <1>i DEF vars, clientVars, Apart, Placed, Fits, Mentioned, Untouched, SentOnce,
     JobsAreAnnounced, Together, Keyed, NoRow, OneRow, JobsOf
<1> HIDE DEF Goal
<1> QED BY <1>1, <1>2, <1>3, <1>4, <1>5 DEF Next, Goal

\* The inductive invariant holds in every behaviour of clients that keep their keys apart.
LEMMA IInvHolds == ASSUME KeysApart PROVE Spec => []IInv
BY InitIInv, StepIInv, PTL DEF Spec

(***************************************************************************)
(* If no client uses a key for two commands, every job of the job tables   *)
(* has an event of a command for its bridge and operation beside it.       *)
(***************************************************************************)
THEOREM JobsStayAnnounced == ASSUME KeysApart PROVE Spec => []JobsAreAnnounced
BY IInvHolds, PTL DEF IInv

(***************************************************************************)
(* If no client uses a key for two commands, one that sends a command once *)
(* can believe its answer, and a command under a key has at most one row.  *)
(***************************************************************************)
THEOREM AnswersStayTrue == ASSUME KeysApart PROVE Spec => []AnswersAreTrue
<1>1. ASSUME IInv PROVE AnswersAreTrue
  BY <1>1, RowCount, KeyedRow DEF IInv, SentOnce, AnswersAreTrue, Keyed
<1> QED BY <1>1, IInvHolds, PTL
-----------------------------------------------------------------------------
\* Under the invariant a command was accepted exactly when its event is in the outbox.
Agreement ==
  /\ {c \in Keyed : Rows(c) > 0} = {c \in Keyed : ~NoRow(c)}
  /\ {c \in Keyed : EventsOf(c) # {}} = {c \in Keyed : ~NoRow(c)}
LEMMA AcceptedIsAnnounced == IInv => Agreement
<1> SUFFICES ASSUME IInv PROVE Agreement
  OBVIOUS
<1> USE CommandAssumption DEF IInv
<1>1. \A c \in Keyed : Rows(c) > 0 <=> ~NoRow(c)
  BY RowCount, KeyedRow DEF Keyed
<1>2. \A c \in Keyed : EventsOf(c) # {} <=> outbox[command[c].key] = c
  <2>1. \A c \in Keyed : command[c].key \in Keys /\ c # None
    BY KeyedRow DEF Keyed
  <2> QED BY <2>1 DEF EventsOf, Placed, Fits, Keyed
<1> QED BY <1>1, <1>2 DEF Together, Agreement

\* The same of the state a step leads to.
LEMMA AcceptedIsAnnouncedNext == IInv' => Agreement'
BY AcceptedIsAnnounced, PTL

\* Every step is an acceptance, a report of one, or nothing to the client.
LEMMA StepKeepsPromise == IInv /\ [Next]_vars => [Promise!QueueNext]_(Promise!queueVars)
<1> SUFFICES ASSUME IInv, [Next]_vars PROVE [Promise!QueueNext]_(Promise!queueVars)
  OBVIOUS
<1>t. TypeOK /\ Placed /\ IInv'
  BY StepIInv DEF IInv
<1> DEFINE accepted == {c \in Keyed : ~NoRow(c)}
           confirmed == {c \in Keyed : told[c] = "accepted"}
<1> DEFINE Acts(c) == /\ accepted' = accepted \cup {c}
                      /\ confirmed' \in {confirmed, confirmed \cup {c}}
           Stays == accepted' = accepted /\ confirmed' = confirmed
<1>1. Stays \/ \E c \in Commands : Acts(c)
  <2>1. Keyed' = Keyed
    BY DEF Next, Send, Fails, QueueJob, CreateTenant, TenantConflict, CreateOrder, Finishes,
           Keyed, vars
  <2>2. ASSUME NEW c \in Commands, Send(c) \/ Fails(c) PROVE Stays
    BY <2>1, <2>2 DEF Send, Fails, NoRow, JobsOf
  <2>3. ASSUME NEW c \in Commands, TenantConflict(c) \/ CreateOrder(c) PROVE Stays
    <3>1. \A d \in Keyed : told'[d] = "accepted" <=> told[d] = "accepted"
      BY <2>3, <1>t, FinishedCopy DEF TenantConflict, CreateOrder, Keyed
    <3>2. \A d \in Keyed : NoRow(d)' = NoRow(d)
      BY <2>3, <1>t DEF TenantConflict, CreateOrder, Keyed, NoRow, JobsOf, TypeOK
    <3> QED BY <2>1, <3>1, <3>2
  <2>4. ASSUME NEW c \in Commands, QueueJob(c) \/ CreateTenant(c) PROVE Stays \/ Acts(c)
    <3>1. /\ \A d \in Commands \ {c} : told'[d] = told[d]
          /\ told'[c] \in {told[c], "accepted"}
      BY <2>4, <1>t, FinishedCopy DEF QueueJob, CreateTenant
    <3>2. /\ \A d \in Commands \ {c} : NoRow(d)' = NoRow(d)
          /\ ~NoRow(c)'
      <4>1. CASE QueueJob(c)
        <5>1. JobsOf(c)' # {} /\ \A d \in Commands \ {c} : JobsOf(d)' = JobsOf(d)
          BY <4>1, QueuedJob
        <5> QED BY <4>1, <5>1 DEF QueueJob, NoRow
      <4>2. CASE CreateTenant(c)
        <5>1. tenant = None /\ tenant' = c /\ \A d \in Commands : JobsOf(d)' = JobsOf(d)
          BY <4>2, CreatedTenant
        <5> QED BY <4>2, <5>1, CommandAssumption DEF CreateTenant, NoRow
      <4> QED BY <2>4, <4>1, <4>2
    <3>3. CASE c \notin Keyed
      BY <3>1, <3>2, <3>3, <2>1 DEF Keyed
    <3>4. CASE c \in Keyed
      BY <3>1, <3>2, <3>4, <2>1 DEF Keyed
    <3> QED BY <3>3, <3>4
  <2>5. CASE UNCHANGED vars
    BY <2>1, <2>5 DEF vars, clientVars, NoRow, JobsOf
  <2> HIDE DEF Stays, Acts
  <2>6. ASSUME NEW c \in Commands, Send(c) \/ Fails(c) \/ QueueJob(c) \/ CreateTenant(c)
                                     \/ TenantConflict(c) \/ CreateOrder(c)
        PROVE  Stays \/ \E d \in Commands : Acts(d)
    BY <2>2, <2>3, <2>4, <2>6
  <2> QED BY <2>5, <2>6 DEF Next
<1>2. /\ {c \in Keyed : Rows(c) > 0} = accepted
      /\ {c \in Keyed : EventsOf(c) # {}} = accepted
      /\ {c \in Keyed : Rows(c) > 0}' = accepted'
      /\ {c \in Keyed : EventsOf(c) # {}}' = accepted'
  BY AcceptedIsAnnounced, AcceptedIsAnnouncedNext, <1>t DEF Agreement
<1> QED BY <1>1, <1>2 DEF Promise!QueueNext, Promise!queueVars, Promise!Accept, Promise!Confirm

(***************************************************************************)
(* CommandRetries implements CommandQueue for clients that keep their keys *)
(* apart: a keyed command is carried out once, with its event, in one      *)
(* step, and reported only then, however often it is sent.                 *)
(***************************************************************************)
THEOREM ImplementsQueue == ASSUME KeysApart PROVE Spec => KeepsPromise
<1>1. KeysApart /\ Init => Promise!QueueInit
  <2> SUFFICES ASSUME KeysApart, Init PROVE Promise!QueueInit
    OBVIOUS
  <2>1. IInv
    BY InitIInv
  <2>2. \A c \in Keyed : NoRow(c) /\ told[c] # "accepted"
    BY CommandAssumption DEF Init, NoRow, JobsOf, Keyed
  <2> QED BY <2>1, <2>2, AcceptedIsAnnounced DEF Agreement, Promise!QueueInit
<1> QED BY <1>1, StepKeepsPromise, IInvHolds, PTL DEF Spec, KeepsPromise, Promise!Queue
=============================================================================
