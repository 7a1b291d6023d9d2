---------------------------- MODULE SetupProofs ----------------------------
(***************************************************************************)
(* The setup, for any number of accounts, losses and deployments: nothing  *)
(* is seeded before it is funded, a ready pool is a state the load driver  *)
(* starts from, and it has prepared every kind the deployment supports.    *)
(* Inv of Setup is inductive.                                              *)
(***************************************************************************)
EXTENDS Setup, PlanProofs

(* One funding transaction per load account, and there is at least one.      *)
LEMMA LoadCount == Cardinality(Load) \in Nat \ {0} /\ Load \subseteq Account /\ Master \notin Load
  <1>1. IsFiniteSet(Load)
    BY SetupAssumption, FS_Subset DEF SetupAssumption, Load
  <1>2. Cardinality(Load) \in Nat /\ Cardinality(Load) # 0
    BY <1>1, FS_CardinalityType, FS_EmptySet, SetupAssumption DEF SetupAssumption
  <1> QED
    BY <1>2 DEF Load

-----------------------------------------------------------------------------
(* The transactions the setup sends for an account. *)

(* Three sequences of at most one element in a row. *)
LEMMA ThreeInARow ==
  ASSUME NEW S, NEW x \in Seq(S), NEW y \in Seq(S), NEW z \in Seq(S),
         Len(x) <= 1, Len(y) <= 1, Len(z) <= 1,
         NEW s, s = x \o y \o z
  PROVE  /\ Len(s) = Len(x) + Len(y) + Len(z) /\ Len(s) \in 0..3
         /\ Len(x) = 1 => s[1] = x[1]
         /\ Len(z) = 1 => s[Len(s)] = z[1]
         /\ Len(y) = 1 /\ Len(z) = 1 => s[Len(s) - 1] = y[1]
  <1>1. x \o y \in Seq(S) /\ Len(x \o y) = Len(x) + Len(y)
    OBVIOUS
  <1>2. /\ \A i \in 1..Len(x) : (x \o y)[i] = x[i]
        /\ \A i \in 1..Len(y) : (x \o y)[Len(x) + i] = y[i]
    OBVIOUS
  <1>3. Len(s) = Len(x \o y) + Len(z)
    BY <1>1
  <1>4. /\ \A i \in 1..Len(x \o y) : s[i] = (x \o y)[i]
        /\ \A i \in 1..Len(z) : s[Len(x \o y) + i] = z[i]
    BY <1>1
  <1>5. Len(x) \in Nat /\ Len(y) \in Nat /\ Len(z) \in Nat
    OBVIOUS
  <1> QED
    BY <1>1, <1>2, <1>3, <1>4, <1>5

(* A sequence of one element if c holds, of none if it does not. *)
LEMMA OneOrNone ==
  ASSUME NEW S, NEW c \in BOOLEAN, NEW e \in S,
         NEW s, s = IF c THEN <<e>> ELSE <<>>
  PROVE  s \in Seq(S) /\ Len(s) = (IF c THEN 1 ELSE 0) /\ (c => s[1] = e)
  <1>1. CASE c
    <2>1. s = <<e>>
      BY <1>1
    <2> QED
      BY <1>1, <2>1
  <1>2. CASE ~c
    <2>1. s = <<>>
      BY <1>2
    <2> QED
      BY <1>2, <2>1
  <1> QED
    BY <1>1, <1>2

(* p if c holds, then q if d holds, then r if e holds. *)
Row(p, q, r, c, d, e) ==
  (IF c THEN <<p>> ELSE <<>>) \o (IF d THEN <<q>> ELSE <<>>) \o (IF e THEN <<r>> ELSE <<>>)

LEMMA UpToThree ==
  ASSUME NEW p, NEW q, NEW r,
         NEW c \in BOOLEAN, NEW d \in BOOLEAN, NEW e \in BOOLEAN,
         NEW s, s = Row(p, q, r, c, d, e)
  PROVE  /\ Len(s) \in 0..3
         /\ c => Len(s) > 0 /\ s[1] = p
         /\ e => Len(s) > 0 /\ s[Len(s)] = r
         /\ d /\ e => Len(s) > 1 /\ s[Len(s) - 1] = q
  <1>0. PICK S : p \in S /\ q \in S /\ r \in S
    <2>1. p \in {p, q, r} /\ q \in {p, q, r} /\ r \in {p, q, r}
      OBVIOUS
    <2> QED
      BY <2>1
  <1>1. PICK x : x = IF c THEN <<p>> ELSE <<>>
    OBVIOUS
  <1>2. PICK y : y = IF d THEN <<q>> ELSE <<>>
    OBVIOUS
  <1>3. PICK z : z = IF e THEN <<r>> ELSE <<>>
    OBVIOUS
  <1>4. /\ x \in Seq(S) /\ Len(x) = (IF c THEN 1 ELSE 0) /\ (c => x[1] = p)
        /\ y \in Seq(S) /\ Len(y) = (IF d THEN 1 ELSE 0) /\ (d => y[1] = q)
        /\ z \in Seq(S) /\ Len(z) = (IF e THEN 1 ELSE 0) /\ (e => z[1] = r)
    BY <1>0, <1>1, <1>2, <1>3, OneOrNone
  <1>5. s = x \o y \o z
    BY <1>1, <1>2, <1>3 DEF Row
  <1>6. /\ Len(s) = Len(x) + Len(y) + Len(z) /\ Len(s) \in 0..3
        /\ Len(x) = 1 => s[1] = x[1]
        /\ Len(z) = 1 => s[Len(s)] = z[1]
        /\ Len(y) = 1 /\ Len(z) = 1 => s[Len(s) - 1] = y[1]
    BY <1>4, <1>5, ThreeInARow
  <1>7. /\ Len(x) \in 0..1 /\ Len(y) \in 0..1 /\ Len(z) \in 0..1
        /\ c => Len(x) = 1
        /\ d => Len(y) = 1
        /\ e => Len(z) = 1
    BY <1>4
  <1>8. ASSUME c PROVE Len(s) > 0 /\ s[1] = p
    <2>1. Len(x) = 1 /\ x[1] = p
      BY <1>4, <1>8
    <2>2. Len(s) > 0
      BY <1>6, <1>7, <2>1
    <2> QED
      BY <1>6, <2>1, <2>2
  <1>9. ASSUME e PROVE Len(s) > 0 /\ s[Len(s)] = r
    <2>1. Len(z) = 1 /\ z[1] = r
      BY <1>4, <1>9
    <2>2. Len(s) > 0
      BY <1>6, <1>7, <2>1
    <2> QED
      BY <1>6, <2>1, <2>2
  <1>10. ASSUME d, e PROVE Len(s) > 1 /\ s[Len(s) - 1] = q
    <2>1. Len(y) = 1 /\ Len(z) = 1 /\ y[1] = q
      BY <1>4, <1>10
    <2>2. Len(s) > 1
      BY <1>6, <1>7, <2>1
    <2> QED
      BY <1>6, <2>1, <2>2
  <1> QED
    BY <1>6, <1>8, <1>9, <1>10

(* The mint of the first token comes first and the approval last, with the   *)
(* mint of the swap's token, if that is another one, before it.              *)
LEMMA JobsListed ==
  ASSUME NEW b \in Abilities
  PROVE  /\ Len(Jobs(b)) \in 0..3
         /\ b.hasToken => Len(Jobs(b)) > 0 /\ Jobs(b)[1] = "mint token"
         /\ b.hasPool /\ b.hasCallee =>
              Len(Jobs(b)) > 0 /\ Jobs(b)[Len(Jobs(b))] = "approve swap token"
         /\ ((b.hasPool /\ b.hasCallee) /\ ~b.sameToken) /\ (b.hasPool /\ b.hasCallee) =>
              Len(Jobs(b)) > 1 /\ Jobs(b)[Len(Jobs(b)) - 1] = "mint swap token"
  <1>1. PICK p, q, r : p = "mint token" /\ q = "mint swap token" /\ r = "approve swap token"
    OBVIOUS
  <1>2. PICK c \in BOOLEAN, d \in BOOLEAN, e \in BOOLEAN :
          /\ c = b.hasToken
          /\ d = ((b.hasPool /\ b.hasCallee) /\ ~b.sameToken)
          /\ e = (b.hasPool /\ b.hasCallee)
    BY Zenon DEF Abilities
  <1>3. PICK s : s = Row(p, q, r, c, d, e)
    OBVIOUS
  <1>4. Jobs(b) = s
    BY Zenon, <1>1, <1>2, <1>3 DEF Jobs, Row
  <1>5. c \in BOOLEAN /\ d \in BOOLEAN /\ e \in BOOLEAN
    BY <1>2
  <1>6. /\ Len(s) \in 0..3
        /\ c => Len(s) > 0 /\ s[1] = p
        /\ e => Len(s) > 0 /\ s[Len(s)] = r
        /\ d /\ e => Len(s) > 1 /\ s[Len(s) - 1] = q
    BY <1>3, <1>5, UpToThree
  <1> QED
    BY Zenon, <1>1, <1>2, <1>4, <1>6

-----------------------------------------------------------------------------
(* What Inv says of numbers and functions, in the form the provers need. *)

LedgerTyped ==
  /\ {nonces, confirmed, mined, admitted} \subseteq [Account -> Nonce]
  /\ {pool, wire} \subseteq [Account -> SUBSET Nonce]
  /\ drops \in 0..MaxDrops

LEMMA Facts ==
  ASSUME Inv
  PROVE  /\ sends \in 0..3
         /\ nonces \in [Account -> Nonce] /\ confirmed \in [Account -> Nonce]
         /\ mined \in [Account -> Nonce] /\ admitted \in [Account -> Nonce]
         /\ pool \in [Account -> SUBSET Nonce] /\ wire \in [Account -> SUBSET Nonce]
         /\ drops \in 0..MaxDrops
         /\ pc \in [Load -> {"send", "note", "done"}]
         /\ last \in {None} \cup (Account \X Nonce)
         /\ errs \in 0..Cardinality(Load)
  <1>1. builder \in Abilities
    BY DEF Inv, TypeOK, Abilities
  <1> QED
    BY <1>1, JobsListed DEF Inv, TypeOK, sends

(* The deployment does not change under the run, and with it what is sent.   *)
LEMMA SameJobs == [Next]_vars => builder' = builder /\ sends' = sends
  <1> SUFFICES ASSUME [Next]_vars PROVE builder' = builder
    BY DEF sends
  <1> QED
    BY DEF Next, Steps, FundSend, FundMined, WaitFails, Seed, Joined, SetupMined, Send, SendFails, Note,
       Cancel, GoSilent, ChainStep, Over, runVars, vars

-----------------------------------------------------------------------------
(* The node's side. *)

(* The next transaction of an account whose earlier ones were all admitted.  *)
LEMMA SendLedger ==
  ASSUME Inv, NEW a \in Account, admitted[a] = nonces[a], nonces[a] < Cardinality(Load) + 3,
         AssignNext(a), Accepts(a) \/ Rejects
  PROVE  /\ LedgerTyped' /\ Ledger'
         /\ nonces' = [nonces EXCEPT ![a] = nonces[a] + 1]
         /\ UNCHANGED <<confirmed, mined, drops>>
         /\ Accepts(a) => admitted' = [admitted EXCEPT ![a] = nonces[a] + 1]
         /\ Rejects => admitted' = admitted
  <1> USE LoadCount, ChainAssumption DEF ChainAssumption, Nonce
  <1>1. /\ nonces' = [nonces EXCEPT ![a] = nonces[a] + 1]
        /\ UNCHANGED <<confirmed, mined, wire, drops>>
        /\ Accepts(a) => /\ admitted' = [admitted EXCEPT ![a] = nonces[a] + 1]
                         /\ pool' = [pool EXCEPT ![a] = @ \cup {nonces[a]}]
        /\ Rejects => UNCHANGED <<admitted, pool>>
    BY DEF AssignNext, Commit, Accepts, Rejects, chainVars
  <1>2. LedgerTyped'
    BY <1>1, Facts DEF LedgerTyped
  <1>3. wire' = [b \in Account |-> {}]
    BY <1>1 DEF Inv, Ledger
  <1>4. ASSUME NEW b \in Account
        PROVE  /\ mined'[b] <= admitted'[b] /\ admitted'[b] <= nonces'[b]
               /\ \A n \in Nonce :
                    /\ n \in pool'[b] => mined'[b] <= n /\ n < admitted'[b]
                    /\ (drops' = 0 /\ mined'[b] <= n /\ n < admitted'[b]) => n \in pool'[b]
    <2>1. /\ mined[b] <= admitted[b] /\ admitted[b] <= nonces[b]
          /\ \A n \in Nonce :
               /\ n \in pool[b] => mined[b] <= n /\ n < admitted[b]
               /\ (drops = 0 /\ mined[b] <= n /\ n < admitted[b]) => n \in pool[b]
      BY DEF Inv, Ledger
    <2>2. CASE b # a \/ Rejects
      BY <1>1, <2>1, <2>2, Facts
    <2>3. CASE b = a /\ Accepts(a)
      <3>1. /\ nonces'[a] = nonces[a] + 1 /\ admitted'[a] = nonces[a] + 1 /\ mined'[a] = mined[a]
            /\ pool'[a] = pool[a] \cup {nonces[a]} /\ drops' = drops
        BY <1>1, <2>3, Facts
      <3>2. mined[a] \in Nat /\ nonces[a] \in Nat /\ drops \in Nat
        BY Facts
      <3> QED
        BY <2>1, <2>3, <3>1, <3>2
    <2> QED
      BY <2>2, <2>3
  <1> QED
    BY <1>1, <1>2, <1>3, <1>4 DEF Ledger

LEMMA ChainLedger ==
  ASSUME Inv, NEW a \in Account, ChainStep(a)
  PROVE  /\ LedgerTyped' /\ Ledger'
         /\ UNCHANGED <<nonces, confirmed, admitted>>
         /\ \A b \in Account : mined[b] = admitted[b] => mined'[b] = mined[b]
  <1> USE LoadCount, ChainAssumption DEF ChainAssumption, Nonce
  <1>1. UNCHANGED <<nonces, confirmed, admitted, wire>>
    BY DEF ChainStep, Mine, Drop, accountVars
  <1>2. \A b \in Account :
          /\ mined[b] <= admitted[b] /\ admitted[b] <= nonces[b]
          /\ \A n \in Nonce :
               /\ n \in pool[b] => mined[b] <= n /\ n < admitted[b]
               /\ (drops = 0 /\ mined[b] <= n /\ n < admitted[b]) => n \in pool[b]
    BY DEF Inv, Ledger
  <1>3. CASE Mine(a)
    <2>1. /\ mined[a] \in pool[a] /\ mined' = [mined EXCEPT ![a] = @ + 1]
          /\ pool' = [pool EXCEPT ![a] = @ \ {mined[a]}] /\ drops' = drops
      BY <1>3 DEF Mine
    <2>2. mined[a] < admitted[a]
      BY <1>2, <2>1, Facts
    <2>3. LedgerTyped'
      BY <1>1, <2>1, <2>2, Facts DEF LedgerTyped
    <2>4. wire' = [b \in Account |-> {}]
      BY <1>1 DEF Inv, Ledger
    <2>5. \A b \in Account :
            /\ mined'[b] <= admitted'[b] /\ admitted'[b] <= nonces'[b]
            /\ \A n \in Nonce :
                 /\ n \in pool'[b] => mined'[b] <= n /\ n < admitted'[b]
                 /\ (drops' = 0 /\ mined'[b] <= n /\ n < admitted'[b]) => n \in pool'[b]
      BY <1>1, <1>2, <2>1, <2>2, Facts
    <2> QED
      BY <1>1, <2>1, <2>2, <2>3, <2>4, <2>5, Facts DEF Ledger
  <1>4. CASE Drop(a)
    <2>1. PICK m \in pool[a] : pool' = [pool EXCEPT ![a] = @ \ {m}]
      BY <1>4 DEF Drop
    <2>2. drops < MaxDrops /\ drops' = drops + 1 /\ mined' = mined
      BY <1>4 DEF Drop
    <2>3. LedgerTyped'
      BY <1>1, <2>1, <2>2, Facts DEF LedgerTyped
    <2>4. wire' = [b \in Account |-> {}] /\ drops' # 0
      BY <1>1, <2>2, Facts DEF Inv, Ledger
    <2>5. \A b \in Account :
            /\ mined'[b] <= admitted'[b] /\ admitted'[b] <= nonces'[b]
            /\ \A n \in Nonce : n \in pool'[b] => mined'[b] <= n /\ n < admitted'[b]
      BY <1>1, <1>2, <2>1, <2>2, Facts
    <2> QED
      BY <1>1, <2>2, <2>3, <2>4, <2>5 DEF Ledger
  <1> QED
    BY <1>3, <1>4 DEF ChainStep

(* Before the load accounts have sent anything their seed is 0 again. *)
LEMMA SeedLedger ==
  ASSUME Inv, Seed
  PROVE  LedgerTyped' /\ Ledger' /\ UNCHANGED <<nonces, confirmed, mined, admitted, drops>>
  <1> USE LoadCount DEF Nonce
  <1>1. UNCHANGED <<mined, pool, wire, admitted, drops>> /\ stage = "seed"
    BY DEF Seed, chainVars
  <1>2. \A a \in Load : nonces[a] = 0 /\ admitted[a] = 0 /\ confirmed[a] = 0
    BY <1>1, Facts DEF Inv, Funding, Ledger, Sending
  <1>3. nonces' = nonces /\ confirmed' = confirmed
    <2>1. CASE UNCHANGED accountVars
      BY <2>1 DEF accountVars
    <2>2. CASE /\ nonces' = [a \in Account |-> IF a \in Load THEN admitted[a] ELSE nonces[a]]
               /\ confirmed' = [a \in Account |-> IF a \in Load THEN admitted[a] ELSE confirmed[a]]
      BY <1>2, <2>2, Facts
    <2> QED
      BY <2>1, <2>2 DEF Seed
  <1> QED
    BY <1>1, <1>3, Facts DEF LedgerTyped, Inv, Ledger

(* Every step leaves accounts and node alone, is the next send of one        *)
(* account, the seed, or a step of the node.                                 *)
LEMMA LedgerNext == Inv /\ [Next]_vars => LedgerTyped' /\ Ledger'
  <1> SUFFICES ASSUME Inv, [Next]_vars
               PROVE  LedgerTyped' /\ Ledger'
    OBVIOUS
  <1>1. ASSUME UNCHANGED <<accountVars, chainVars>>
        PROVE  LedgerTyped' /\ Ledger'
    BY <1>1, Facts DEF accountVars, chainVars, LedgerTyped, Inv, Ledger
  <1>2. CASE FundMined \/ WaitFails \/ Joined \/ SetupMined \/ Cancel \/ GoSilent \/ Over \/ UNCHANGED vars
    BY <1>1, <1>2 DEF FundMined, WaitFails, Joined, SetupMined, Cancel, GoSilent, Over, vars
  <1>3. CASE FundSend
    <2>1. Master \in Account
      BY SetupAssumption DEF SetupAssumption
    <2>2. admitted[Master] = nonces[Master] /\ nonces[Master] < Cardinality(Load) + 3
      BY <1>3, <2>1, Facts, LoadCount DEF FundSend, Inv, Funding, Nonce
    <2>3. AssignNext(Master) /\ (Accepts(Master) \/ Rejects)
      BY <1>3 DEF FundSend
    <2> QED
      BY <2>1, <2>2, <2>3, SendLedger
  <1>4. CASE Seed
    BY <1>4, SeedLedger
  <1>5. ASSUME NEW a \in Load, Send(a) \/ SendFails(a)
        PROVE  LedgerTyped' /\ Ledger'
    <2>1. a \in Account /\ stage = "sends" /\ pc[a] = "send"
      BY <1>5, LoadCount DEF Send, SendFails
    <2>2. admitted[a] = nonces[a] /\ nonces[a] < Cardinality(Load) + 3
      BY <2>1, Facts, LoadCount DEF Inv, Sending, Nonce
    <2>3. AssignNext(a) /\ (Accepts(a) \/ Rejects)
      BY <1>5 DEF Send, SendFails
    <2> QED
      BY <2>1, <2>2, <2>3, SendLedger
  <1>6. ASSUME NEW a \in Load, Note(a)
        PROVE  LedgerTyped' /\ Ledger'
    BY <1>1, <1>6 DEF Note
  <1>7. ASSUME NEW a \in Account, ChainStep(a)
        PROVE  LedgerTyped' /\ Ledger'
    BY <1>7, ChainLedger
  <1> QED
    BY <1>2, <1>3, <1>4, <1>5, <1>6, <1>7 DEF Next, Steps

-----------------------------------------------------------------------------
(* The goroutines. *)

RunTyped ==
  /\ stage \in {"fund", "fundWait", "seed", "sends", "wait", "ready", "failed"}
  /\ pc \in [Load -> {"send", "note", "done"}]
  /\ last \in {None} \cup (Account \X Nonce)
  /\ errs \in 0..Cardinality(Load)

Progress == RunTyped /\ FundedFirst /\ Funding /\ Sending

(* Steps that touch neither accounts nor goroutines.                         *)
LEMMA SameProgress ==
  ASSUME Inv, UNCHANGED <<nonces, confirmed, mined, admitted, stage, builder, pc, last, errs>>
  PROVE  Progress'
  <1>1. sends' = sends
    BY DEF sends
  <1> QED
    BY <1>1 DEF Inv, TypeOK, Progress, RunTyped, FundedFirst, Funding, Sending

(* An error ends the run.                                                    *)
LEMMA FailedProgress ==
  ASSUME Inv, [Next]_vars, stage' = "failed", UNCHANGED <<confirmed, pc, errs>>,
         \/ UNCHANGED <<nonces, last>>
         \/ /\ nonces' = [nonces EXCEPT ![Master] = @ + 1] /\ nonces[Master] < Cardinality(Load)
            /\ UNCHANGED last
  PROVE  Progress'
  <1>1. sends' = sends /\ builder' = builder
    BY SameJobs
  <1>2. nonces'[Master] <= Cardinality(Load) /\ \A a \in Load : nonces'[a] = nonces[a]
    BY Facts, LoadCount, SetupAssumption DEF SetupAssumption, Inv, Funding, Nonce
  <1> QED
    BY <1>1, <1>2 DEF Inv, TypeOK, Progress, RunTyped, FundedFirst, Funding, Sending

LEMMA FundSendProgress == Inv /\ FundSend => Progress'
  <1> SUFFICES ASSUME Inv, FundSend PROVE Progress'
    OBVIOUS
  <1>1. [Next]_vars /\ sends' = sends /\ builder' = builder
    <2>1. [Next]_vars
      BY DEF Next, Steps
    <2> QED
      BY <2>1, SameJobs
  <1>2. /\ stage = "fund" /\ nonces[Master] < Cardinality(Load) /\ AssignNext(Master)
        /\ admitted[Master] = nonces[Master] /\ Master \in Account
        /\ UNCHANGED <<pc, errs>>
    BY SetupAssumption DEF SetupAssumption, FundSend, Inv, Funding
  <1>3. nonces[Master] < Cardinality(Load) + 3
    BY <1>2, Facts, LoadCount DEF Nonce
  <1>4. CASE stage' = "failed" /\ (Accepts(Master) \/ Rejects) /\ UNCHANGED last
    <2>1. nonces' = [nonces EXCEPT ![Master] = @ + 1] /\ UNCHANGED confirmed
      BY <1>2, <1>3, <1>4, SendLedger
    <2> QED
      BY <1>1, <1>2, <1>4, <2>1, FailedProgress
  <1>5. CASE /\ Accepts(Master) /\ last' = <<Master, nonces[Master]>>
             /\ stage' = IF nonces'[Master] = Cardinality(Load) THEN "fundWait" ELSE stage
    <2>1. /\ nonces' = [nonces EXCEPT ![Master] = nonces[Master] + 1]
          /\ admitted' = [admitted EXCEPT ![Master] = nonces[Master] + 1]
          /\ UNCHANGED confirmed
      BY <1>2, <1>3, <1>5, SendLedger
    <2>2. nonces[Master] \in Nonce /\ nonces[Master] \in Nat
      BY <1>2, Facts DEF Nonce
    <2>3. /\ nonces'[Master] = nonces[Master] + 1 /\ admitted'[Master] = nonces[Master] + 1
          /\ \A a \in Load : nonces'[a] = nonces[a]
      BY <1>2, <2>1, Facts, LoadCount
    <2>4. RunTyped'
      BY <1>2, <1>5, <2>2 DEF RunTyped, Inv, TypeOK
    <2>5. stage' \in {"fund", "fundWait"} /\ FundedFirst'
      BY <1>2, <1>5 DEF FundedFirst
    <2>6. Funding'
      BY <1>2, <1>5, <2>2, <2>3, <2>5, LoadCount DEF Inv, Funding
    <2>7. Sending'
      BY <1>1, <2>1, <2>3, <2>5 DEF Inv, Sending
    <2> QED
      BY <2>4, <2>5, <2>6, <2>7 DEF Progress
  <1> QED
    BY <1>4, <1>5 DEF FundSend, Latest

LEMMA FundMinedProgress == Inv /\ FundMined => Progress'
  <1> SUFFICES ASSUME Inv, FundMined PROVE Progress'
    OBVIOUS
  <1>1. /\ stage = "fundWait" /\ stage' = "seed" /\ Receipt(last)
        /\ UNCHANGED <<nonces, confirmed, mined, admitted, builder, pc, last, errs>>
    BY DEF FundMined, accountVars, chainVars
  <1>2. sends' = sends
    BY <1>1 DEF sends
  <1>3. mined[Master] > Cardinality(Load) - 1
    BY <1>1 DEF Inv, Funding, Receipt
  <1>4. mined[Master] <= Cardinality(Load)
    BY <1>1, SetupAssumption DEF SetupAssumption, Inv, Funding, Ledger
  <1>5. mined[Master] = Cardinality(Load)
    BY <1>3, <1>4, Facts, LoadCount, SetupAssumption DEF SetupAssumption, Nonce
  <1> QED
    BY <1>1, <1>2, <1>5 DEF Inv, TypeOK, Progress, RunTyped, FundedFirst, Funding, Sending

LEMMA SeedProgress == Inv /\ Seed => Progress'
  <1> SUFFICES ASSUME Inv, Seed PROVE Progress'
    OBVIOUS
  <1>1. stage = "seed" /\ UNCHANGED <<nonces, confirmed, mined, admitted, builder, pc, errs>>
    BY SeedLedger DEF Seed
  <1>2. sends' = sends
    BY <1>1 DEF sends
  <1>3. /\ \A a \in Load : nonces[a] = 0 /\ admitted[a] = 0 /\ mined[a] = 0 /\ pc[a] = "send"
        /\ \E a \in Load : TRUE
    BY <1>1, Facts, LoadCount, SetupAssumption DEF SetupAssumption, Inv, Funding, Ledger, Nonce
  <1>4. CASE stage' = "failed" /\ UNCHANGED last
    BY <1>1, <1>2, <1>4 DEF Inv, TypeOK, Progress, RunTyped, FundedFirst, Funding, Sending
  <1>5. CASE stage' = (IF sends = 0 THEN "ready" ELSE "sends") /\ last' = None
    <2>1. RunTyped' /\ FundedFirst' /\ Funding'
      BY <1>1, <1>5 DEF Inv, TypeOK, RunTyped, FundedFirst, Funding
    <2>2. CASE sends = 0
      BY <1>1, <1>2, <1>3, <1>5, <2>1, <2>2 DEF Inv, Sending, Progress
    <2>3. CASE sends # 0
      BY <1>1, <1>2, <1>3, <1>5, <2>1, <2>3, Facts DEF Inv, Sending, Progress
    <2> QED
      BY <2>2, <2>3
  <1> QED
    BY <1>4, <1>5 DEF Seed

(* What a send of a load account changes for the others, and for the master. *)
LEMMA SendStep ==
  ASSUME Inv, NEW a \in Load, stage = "sends", pc[a] = "send",
         AssignNext(a), Accepts(a) \/ Rejects, UNCHANGED <<runVars, last>>
  PROVE  /\ UNCHANGED <<confirmed, mined, stage, builder, last, sends>>
         /\ nonces' = [nonces EXCEPT ![a] = nonces[a] + 1]
         /\ Accepts(a) => admitted' = [admitted EXCEPT ![a] = nonces[a] + 1]
         /\ \A b \in Load \ {a} : admitted'[b] = admitted[b] /\ nonces'[b] = nonces[b]
         /\ nonces'[Master] = nonces[Master] /\ admitted'[Master] = admitted[Master]
         /\ nonces[a] < sends /\ admitted[a] = nonces[a] /\ nonces[a] \in Nat
         /\ nonces'[a] = nonces[a] + 1
         /\ Accepts(a) => admitted'[a] = nonces[a] + 1
  <1>1. a \in Account /\ Master \in Account /\ a # Master
    BY LoadCount, SetupAssumption DEF SetupAssumption
  <1>2. nonces[a] < sends /\ admitted[a] = nonces[a] /\ nonces[a] \in Nat
    BY <1>1, Facts DEF Inv, Sending, Nonce
  <1>3. nonces[a] < Cardinality(Load) + 3
    BY <1>1, <1>2, Facts, LoadCount DEF Nonce
  <1>4. UNCHANGED <<stage, builder, last>> /\ sends' = sends
    BY DEF runVars, sends
  <1>5. /\ nonces' = [nonces EXCEPT ![a] = nonces[a] + 1]
        /\ UNCHANGED <<confirmed, mined>>
        /\ Accepts(a) => admitted' = [admitted EXCEPT ![a] = nonces[a] + 1]
        /\ Rejects => admitted' = admitted
    BY <1>1, <1>2, <1>3, SendLedger
  <1>6. \A b \in Account \ {a} : admitted'[b] = admitted[b] /\ nonces'[b] = nonces[b]
    BY <1>1, <1>5, Facts
  <1> QED
    BY <1>1, <1>2, <1>4, <1>5, <1>6, LoadCount, Facts

LEMMA SendProgress == ASSUME Inv, NEW a \in Load, Send(a) PROVE Progress'
  <1>1. /\ stage = "sends" /\ pc[a] = "send" /\ Accepts(a) /\ AssignNext(a)
        /\ pc' = [pc EXCEPT ![a] = "note"] /\ UNCHANGED <<runVars, last, errs>>
    BY DEF Send
  <1>2. /\ UNCHANGED <<confirmed, mined, stage, builder, last, sends>>
        /\ nonces' = [nonces EXCEPT ![a] = nonces[a] + 1]
        /\ \A b \in Load \ {a} : admitted'[b] = admitted[b] /\ nonces'[b] = nonces[b]
        /\ nonces'[Master] = nonces[Master] /\ admitted'[Master] = admitted[Master]
        /\ nonces[a] < sends /\ nonces[a] \in Nat
        /\ nonces'[a] = nonces[a] + 1 /\ admitted'[a] = nonces[a] + 1
    BY <1>1, SendStep
  <1>3. pc'[a] = "note" /\ \A b \in Load \ {a} : pc'[b] = pc[b]
    BY <1>1, Facts
  <1>4. RunTyped' /\ FundedFirst' /\ Funding'
    BY <1>1, <1>2, Facts DEF Inv, TypeOK, RunTyped, FundedFirst, Funding
  <1>5. nonces'[a] > 0 /\ nonces'[a] <= sends
    BY <1>2, Facts
  <1>6. Sending'
    BY <1>1, <1>2, <1>3, <1>5 DEF Inv, Sending
  <1> QED
    BY <1>4, <1>6 DEF Progress

LEMMA SendFailsProgress == ASSUME Inv, NEW a \in Load, SendFails(a) PROVE Progress'
  <1>1. /\ stage = "sends" /\ pc[a] = "send" /\ (Accepts(a) \/ Rejects) /\ AssignNext(a)
        /\ pc' = [pc EXCEPT ![a] = "done"] /\ UNCHANGED <<runVars, last>>
        /\ errs < Cardinality(Load) /\ errs' = errs + 1
    BY DEF SendFails, Room
  <1>2. /\ UNCHANGED <<confirmed, mined, stage, builder, last, sends>>
        /\ \A b \in Load \ {a} : admitted'[b] = admitted[b] /\ nonces'[b] = nonces[b]
        /\ nonces'[Master] = nonces[Master] /\ admitted'[Master] = admitted[Master]
        /\ nonces[a] < sends /\ nonces[a] \in Nat
        /\ nonces'[a] = nonces[a] + 1
    BY <1>1, SendStep
  <1>3. pc'[a] = "done" /\ \A b \in Load \ {a} : pc'[b] = pc[b]
    BY <1>1, Facts
  <1>4. errs' \in 0..Cardinality(Load) /\ errs' # 0
    BY <1>1, Facts, LoadCount
  <1>5. RunTyped' /\ FundedFirst' /\ Funding'
    BY <1>1, <1>2, <1>4, Facts DEF Inv, TypeOK, RunTyped, FundedFirst, Funding
  <1>6. nonces'[a] <= sends
    BY <1>2, Facts
  <1>7. Sending'
    BY <1>1, <1>2, <1>3, <1>4, <1>6 DEF Inv, Sending
  <1> QED
    BY <1>5, <1>7 DEF Progress

LEMMA NoteProgress == ASSUME Inv, NEW a \in Load, Note(a) PROVE Progress'
  <1>1. /\ stage = "sends" /\ pc[a] = "note" /\ last' = <<a, nonces[a] - 1>>
        /\ pc' = [pc EXCEPT ![a] = IF nonces[a] = sends THEN "done" ELSE "send"]
        /\ UNCHANGED <<nonces, confirmed, mined, admitted, stage, builder, errs>>
    BY DEF Note, Latest, accountVars, chainVars, runVars
  <1>2. sends' = sends
    BY <1>1 DEF sends
  <1>3. a \in Account /\ nonces[a] \in Nat /\ nonces[a] > 0 /\ nonces[a] <= sends
        /\ admitted[a] = nonces[a]
    BY <1>1, LoadCount, Facts DEF Inv, Sending, Nonce
  <1>4. nonces[a] - 1 \in Nonce /\ nonces[a] - 1 \in Nat
    BY <1>3, Facts, LoadCount DEF Nonce
  <1>5. last' # None /\ last'[1] = a /\ last'[2] = nonces[a] - 1
    BY <1>1, <1>3, <1>4, SetupAssumption DEF SetupAssumption
  <1>6. /\ pc'[a] = IF nonces[a] = sends THEN "done" ELSE "send"
        /\ \A b \in Load \ {a} : pc'[b] = pc[b]
    BY <1>1, Facts
  <1>7. RunTyped'
    BY <1>1, <1>3, <1>4, <1>6, Facts DEF Inv, TypeOK, RunTyped
  <1>8. FundedFirst' /\ Funding'
    BY <1>1 DEF Inv, FundedFirst, Funding
  <1>9. Sending'
    BY <1>1, <1>2, <1>3, <1>5, <1>6, Facts DEF Inv, Sending
  <1> QED
    BY <1>7, <1>8, <1>9 DEF Progress

LEMMA JoinedProgress == Inv /\ Joined => Progress'
  <1> SUFFICES ASSUME Inv, Joined PROVE Progress'
    OBVIOUS
  <1>1. /\ stage = "sends" /\ \A a \in Load : pc[a] = "done"
        /\ stage' = IF errs > 0 THEN "failed" ELSE "wait"
        /\ UNCHANGED <<nonces, confirmed, mined, admitted, builder, pc, last, errs>>
    BY DEF Joined, AnyFailed, accountVars, chainVars
  <1>2. sends' = sends
    BY <1>1 DEF sends
  <1>3. RunTyped' /\ FundedFirst' /\ Funding'
    BY <1>1 DEF Inv, TypeOK, RunTyped, FundedFirst, Funding
  <1>4. CASE errs > 0
    BY <1>1, <1>2, <1>3, <1>4 DEF Inv, Sending, Progress
  <1>5. CASE ~(errs > 0)
    <2>1. errs = 0
      BY <1>5, Facts, LoadCount
    <2>2. \A a \in Load : nonces[a] = sends /\ admitted[a] = sends /\ last # None
      BY <1>1, <2>1 DEF Inv, Sending
    <2>3. last # None
      BY <2>2, SetupAssumption DEF SetupAssumption
    <2>4. last[1] \in Load /\ last[2] = sends - 1
      BY <1>1, <2>1, <2>3 DEF Inv, Sending
    <2>5. last \in Account \X Nonce
      BY <2>3, Facts
    <2>6. last \in Load \X {sends - 1}
      BY <2>4, <2>5
    <2> QED
      BY <1>1, <1>2, <1>3, <1>5, <2>2, <2>6 DEF Inv, Sending, Progress
  <1> QED
    BY <1>4, <1>5

LEMMA SetupMinedProgress == Inv /\ SetupMined => Progress'
  <1> SUFFICES ASSUME Inv, SetupMined PROVE Progress'
    OBVIOUS
  <1>1. /\ stage = "wait" /\ stage' = "ready" /\ Receipt(last)
        /\ UNCHANGED <<nonces, confirmed, mined, admitted, builder, pc, last, errs>>
    BY DEF SetupMined, accountVars, chainVars
  <1>2. sends' = sends
    BY <1>1 DEF sends
  <1>3. PICK a \in Load : mined[a] > sends - 1
    BY <1>1 DEF Inv, Sending, Receipt
  <1>4. mined[a] <= sends
    BY <1>1, LoadCount DEF Inv, Sending, Ledger
  <1>5. mined[a] = sends
    BY <1>3, <1>4, Facts, LoadCount DEF Nonce
  <1> QED
    BY <1>1, <1>2, <1>5 DEF Inv, TypeOK, Progress, RunTyped, FundedFirst, Funding, Sending

LEMMA ChainProgress == ASSUME Inv, NEW a \in Account, ChainStep(a) PROVE Progress'
  <1>1. /\ UNCHANGED <<nonces, confirmed, admitted, stage, builder, pc, last, errs>>
        /\ \A b \in Account : mined[b] = admitted[b] => mined'[b] = mined[b]
    BY ChainLedger DEF ChainStep, runVars
  <1>2. sends' = sends
    BY <1>1 DEF sends
  <1>3. RunTyped' /\ Funding'
    BY <1>1 DEF Inv, TypeOK, RunTyped, Funding
  <1>4. FundedFirst'
    BY <1>1, SetupAssumption DEF SetupAssumption, Inv, FundedFirst, Funding
  <1>5. stage = "ready" => \E b \in Load : mined'[b] = sends
    BY <1>1, LoadCount DEF Inv, Sending
  <1> QED
    BY <1>1, <1>2, <1>3, <1>4, <1>5 DEF Inv, Sending, Progress

LEMMA ProgressNext == Inv /\ [Next]_vars => Progress'
  <1> SUFFICES ASSUME Inv, [Next]_vars PROVE Progress'
    OBVIOUS
  <1>1. CASE FundSend \/ FundMined \/ Seed \/ Joined \/ SetupMined
    BY <1>1, FundSendProgress, FundMinedProgress, SeedProgress, JoinedProgress, SetupMinedProgress
  <1>2. CASE WaitFails
    BY <1>2, FailedProgress DEF WaitFails, accountVars
  <1>3. CASE Cancel \/ GoSilent \/ Over \/ UNCHANGED vars
    BY <1>3, SameProgress DEF Cancel, GoSilent, Over, vars, accountVars, chainVars, runVars
  <1>4. ASSUME NEW a \in Load, Send(a) \/ SendFails(a) \/ Note(a)
        PROVE  Progress'
    BY <1>4, SendProgress, SendFailsProgress, NoteProgress
  <1>5. ASSUME NEW a \in Account, ChainStep(a)
        PROVE  Progress'
    BY <1>5, ChainProgress
  <1> QED
    BY <1>1, <1>2, <1>3, <1>4, <1>5 DEF Next, Steps

-----------------------------------------------------------------------------
(* The contexts, the silence and the builder. *)

LEMMA RestNext == Inv /\ [Next]_vars => ({ctx, silent} \subseteq BOOLEAN /\ builder \in Abilities)'
  <1> SUFFICES ASSUME Inv, [Next]_vars
               PROVE  ctx' \in BOOLEAN /\ silent' \in BOOLEAN /\ builder' \in Abilities
    OBVIOUS
  <1>1. ctx \in BOOLEAN /\ silent \in BOOLEAN /\ builder \in Abilities
    BY DEF Inv, TypeOK, Abilities
  <1>2. ctx' \in {ctx, TRUE} /\ silent' \in {silent, TRUE}
    BY DEF Next, Steps, FundSend, FundMined, WaitFails, Seed, Joined, SetupMined, Send, SendFails, Note,
       Cancel, GoSilent, ChainStep, Over, runVars, vars
  <1> QED
    BY Zenon, <1>1, <1>2, SameJobs

LEMMA InvNext == Inv /\ [Next]_vars => Inv'
  <1>1. ASSUME Inv, [Next]_vars
        PROVE  TypeOK'
    BY <1>1, LedgerNext, ProgressNext, RestNext DEF LedgerTyped, Progress, RunTyped, TypeOK, Abilities
  <1> QED
    BY <1>1, LedgerNext, ProgressNext DEF Inv, Progress

LEMMA InitInv == Init => Inv
  <1> SUFFICES ASSUME Init PROVE Inv
    OBVIOUS
  <1> USE LoadCount, ChainAssumption DEF ChainAssumption, Nonce
  <1>1. PICK file \in Deployments : builder = NewBuilder(file)
    BY SetupAssumption DEF SetupAssumption, Init
  <1>2. builder \in Abilities /\ (builder.sameToken => builder.hasToken)
    BY <1>1, BuilderKnows
  <1>3. sends \in 0..3
    BY <1>2, JobsListed DEF sends
  <1>4. /\ nonces = [a \in Account |-> 0] /\ confirmed = [a \in Account |-> 0]
        /\ mined = [a \in Account |-> 0] /\ admitted = [a \in Account |-> 0]
        /\ pool = [a \in Account |-> {}] /\ wire = [a \in Account |-> {}]
        /\ drops = 0 /\ stage = "fund" /\ last = None /\ errs = 0
        /\ pc = [a \in Load |-> "send"]
    BY DEF Init
  <1>5. ctx \in BOOLEAN /\ silent \in BOOLEAN
    BY Zenon DEF Init
  <1>6. LedgerTyped /\ RunTyped
    BY <1>4 DEF LedgerTyped, RunTyped
  <1>7. TypeOK
    BY <1>2, <1>5, <1>6 DEF TypeOK, LedgerTyped, RunTyped, Abilities
  <1>8. FundedFirst /\ Ledger
    BY <1>4 DEF FundedFirst, Ledger
  <1>9. Funding
    BY <1>4, SetupAssumption DEF SetupAssumption, Funding
  <1>10. Sending
    BY <1>2, <1>3, <1>4 DEF Sending
  <1> QED
    BY <1>7, <1>8, <1>9, <1>10 DEF Inv

-----------------------------------------------------------------------------
(* Inv holds initially and every step keeps it.                              *)
THEOREM Invariance == Spec => []Inv
  BY InitInv, InvNext, PTL DEF Spec

(* Every variable has its type: no nonce passes the number of transactions   *)
(* that are sent, and the channel of errors never holds more than its room.  *)
THEOREM TypeCorrect == Spec => []TypeOK
  <1>1. Inv => TypeOK
    BY DEF Inv
  <1> QED
    BY <1>1, Invariance, PTL

(* No load account is seeded or sends before every funding transaction is    *)
(* executed, for any number of accounts.                                     *)
THEOREM FundedBeforeUse == Spec => []FundedFirst
  <1>1. Inv => FundedFirst
    BY DEF Inv
  <1> QED
    BY <1>1, Invariance, PTL

(* What the setup hands over is an initial state of the load driver.         *)
THEOREM DriverStarts == Spec => []HandsOver
  <1>1. ASSUME Inv, stage = "ready", NEW k \in 0..3, k = sends
        PROVE  Driver(k)!Init
    <2>1. sends \in 0..3 /\ Load \subseteq Account
      BY <1>1, Facts, LoadCount
    <2>2. /\ \A a \in Load : nonces[a] = sends /\ admitted[a] = sends /\ confirmed[a] = 0
          /\ \E a \in Load : mined[a] = sends
      BY <1>1 DEF Inv, Sending
    <2>3. \A a \in Load :
            /\ mined[a] \in 0..sends
            /\ \A n \in Nonce :
                 /\ n \in pool[a] => mined[a] <= n /\ n < sends
                 /\ (drops = 0 /\ mined[a] <= n /\ n < sends) => n \in pool[a]
      <3> TAKE a \in Load
      <3>1. a \in Account /\ admitted[a] = sends /\ mined[a] \in Nat
        BY <1>1, <2>1, <2>2, Facts DEF Nonce
      <3>2. /\ mined[a] <= sends
            /\ \A n \in Nonce :
                 /\ n \in pool[a] => mined[a] <= n /\ n < sends
                 /\ (drops = 0 /\ mined[a] <= n /\ n < sends) => n \in pool[a]
        BY <1>1, <3>1 DEF Inv, Ledger
      <3> QED
        BY <2>1, <3>1, <3>2
    <2>4. 0..sends \subseteq Nonce
      BY <2>1, LoadCount DEF Nonce
    <2>5. [a \in Load |-> mined[a]] \in {m \in [Load -> 0..sends] : \E a \in Load : m[a] = sends}
      BY <2>2, <2>3
    <2>6. [a \in Load |-> pool[a]] \in [Load -> SUBSET (0..sends)]
      <3>1. \A a \in Load : pool[a] \subseteq Nonce
        BY <1>1, <2>1, Facts
      <3>2. \A a \in Load : pool[a] \subseteq 0..sends
        BY <2>1, <2>3, <3>1, Facts, LoadCount DEF Nonce
      <3> QED
        BY <3>2
    <2>7. drops \in 0..MaxDrops
      BY <1>1, Facts
    <2>8. \A a \in Load : \A n \in 0..sends :
            /\ n \in [b \in Load |-> pool[b]][a] => [b \in Load |-> mined[b]][a] <= n /\ n < sends
            /\ (drops = 0 /\ [b \in Load |-> mined[b]][a] <= n /\ n < sends) =>
                 n \in [b \in Load |-> pool[b]][a]
      BY <2>3, <2>4
    <2>9. [a \in Load |-> wire[a]] = [a \in Load |-> {}]
      BY <1>1, <2>1 DEF Inv, Ledger
    <2>10. /\ [a \in Load |-> nonces[a]] = [a \in Load |-> sends]
           /\ [a \in Load |-> confirmed[a]] = [a \in Load |-> 0]
           /\ [a \in Load |-> admitted[a]] = [a \in Load |-> sends]
      BY <2>2
    <2> QED
      BY <1>1, <2>5, <2>6, <2>7, <2>8, <2>9, <2>10 DEF Driver!Init
  <1>2. Inv => HandsOver
    <2> SUFFICES ASSUME Inv, stage = "ready" PROVE \E n \in 0..3 : n = sends /\ Driver(n)!Init
      BY DEF HandsOver
    <2>1. sends \in 0..3
      BY Facts
    <2> QED
      BY <1>1, <2>1
  <1> QED
    BY <1>2, Invariance, PTL

(* A ready pool has every transaction executed or pooled that a kind of the  *)
(* deployment lives on, as long as the node has lost none.                   *)
THEOREM PreparedForEveryKind == Spec => []PreparedForMix
  <1>1. ASSUME Inv, stage = "ready", drops = 0, NEW a \in Load, NEW n \in 0..(sends - 1)
        PROVE  n \in 0..(nonces[a] - 1) /\ (n < mined[a] \/ n \in pool[a])
    <2>1. nonces[a] = sends /\ admitted[a] = sends /\ a \in Account /\ sends \in 0..3
      BY <1>1, Facts, LoadCount DEF Inv, Sending
    <2>2. n \in Nonce /\ mined[a] \in Nat /\ n < admitted[a]
      BY <1>1, <2>1, Facts, LoadCount DEF Nonce
    <2> QED
      BY <1>1, <2>1, <2>2 DEF Inv, Ledger
  <1>2. ASSUME Inv, NEW k \in Kinds, Supports(builder, k), NEW need \in Needs(k)
        PROVE  \E n \in 0..(sends - 1) : Jobs(builder)[n + 1] = need
    <2>1. builder \in Abilities /\ sends = Len(Jobs(builder)) /\ sends \in 0..3
          /\ (builder.sameToken => builder.hasToken)
      BY <1>2, Facts DEF Inv, TypeOK, Sending, Abilities, sends
    <2>2. /\ builder.hasToken => sends > 0 /\ Jobs(builder)[1] = "mint token"
          /\ builder.hasPool /\ builder.hasCallee =>
               sends > 0 /\ Jobs(builder)[sends] = "approve swap token"
      BY Zenon, <2>1, JobsListed
    <2>3. ASSUME NEW i \in Nat, i > 0, i <= sends, Jobs(builder)[i] = need
          PROVE  \E n \in 0..(sends - 1) : Jobs(builder)[n + 1] = need
      <3>1. i - 1 \in 0..(sends - 1) /\ (i - 1) + 1 = i
        BY <2>1, <2>3
      <3> QED
        BY <2>3, <3>1
    <2>4. CASE k = "erc20Transfer"
      <3>1. builder.hasToken /\ need = "mint token"
        BY <1>2, <2>4 DEF Supports, Needs, Destructive
      <3>2. sends > 0 /\ Jobs(builder)[1] = need
        BY Zenon, <2>2, <3>1
      <3> QED
        BY <2>1, <2>3, <3>2
    <2>5. CASE k = "swap" /\ need = "approve swap token"
      <3>1. builder.hasPool /\ builder.hasCallee
        BY <1>2, <2>5 DEF Supports, Needs, Destructive
      <3>2. sends > 0 /\ Jobs(builder)[sends] = need
        BY Zenon, <2>5, <2>2, <3>1
      <3> QED
        BY <2>1, <2>3, <3>2
    <2>6. CASE k = "swap" /\ need # "approve swap token"
      <3>1. builder.hasPool /\ builder.hasCallee
        BY <1>2, <2>6 DEF Supports, Needs, Destructive
      <3>2. need = IF builder.sameToken THEN "mint token" ELSE "mint swap token"
        BY <1>2, <2>6 DEF Needs
      <3>3. CASE builder.sameToken
        <4>1. sends > 0 /\ Jobs(builder)[1] = need
          BY Zenon, <2>1, <2>2, <3>2, <3>3
        <4> QED
          BY <2>1, <2>3, <4>1
      <3>4. CASE ~builder.sameToken
        <4>1. sends > 1 /\ Jobs(builder)[sends - 1] = need
          BY <2>1, <3>1, <3>2, <3>4, JobsListed
        <4>2. sends - 1 \in Nat /\ sends - 1 > 0 /\ sends - 1 <= sends
          BY <2>1, <4>1
        <4> QED
          BY <2>3, <4>1, <4>2
      <3> QED
        BY <3>3, <3>4
    <2>7. CASE k \notin {"erc20Transfer", "swap"}
      BY <1>2, <2>7 DEF Needs
    <2> QED
      BY <2>4, <2>5, <2>6, <2>7
  <1>3. Inv => PreparedForMix
    <2> SUFFICES ASSUME Inv, stage = "ready", drops = 0,
                        NEW a \in Load, NEW k \in Kinds, Supports(builder, k), NEW need \in Needs(k)
                 PROVE  \E n \in 0..(nonces[a] - 1) :
                          Jobs(builder)[n + 1] = need /\ (n < mined[a] \/ n \in pool[a])
      BY DEF PreparedForMix
    <2>1. PICK n \in 0..(sends - 1) : Jobs(builder)[n + 1] = need
      BY <1>2
    <2> QED
      BY <1>1, <2>1
  <1> QED
    BY <1>3, Invariance, PTL
-----------------------------------------------------------------------------
(***************************************************************************)
(* The channel of errors: it is made with room for one error of each       *)
(* account (setup.go:67), is drained after wg.Wait only, and one error in  *)
(* it ends the setup.                                                      *)
(***************************************************************************)

Finished == {a \in Load : pc[a] = "done"}

(* Every error is of a goroutine of its own that is over. *)
OneErrorEach ==
  /\ errs <= Cardinality(Finished)
  /\ stage \in {"wait", "ready"} => errs = 0

LEMMA CountFinished ==
  ASSUME NEW S \in SUBSET Load
  PROVE  /\ IsFiniteSet(S) /\ Cardinality(S) \in Nat /\ Cardinality(S) <= Cardinality(Load)
         /\ \A a \in Load \ S : /\ Cardinality(S \cup {a}) = Cardinality(S) + 1
                               /\ Cardinality(S) < Cardinality(Load)
  <1>1. IsFiniteSet(Load)
    BY SetupAssumption, FS_Subset DEF SetupAssumption, Load
  <1>2. \A T \in SUBSET Load :
          IsFiniteSet(T) /\ Cardinality(T) \in Nat /\ Cardinality(T) <= Cardinality(Load)
    BY <1>1, FS_Subset, FS_CardinalityType
  <1>3. ASSUME NEW a \in Load \ S
        PROVE  Cardinality(S \cup {a}) = Cardinality(S) + 1
    BY <1>2, <1>3, FS_AddElement
  <1>4. ASSUME NEW a \in Load \ S
        PROVE  Cardinality(S) < Cardinality(Load)
    <2>1. S \cup {a} \in SUBSET Load
      OBVIOUS
    <2>2. Cardinality(S \cup {a}) <= Cardinality(Load)
      BY <1>2, <2>1
    <2> QED
      BY <1>2, <1>3, <2>2, LoadCount
  <1> QED
    BY <1>2, <1>3, <1>4

(* Goroutines that are over stay over, and a failing one is one more.        *)
LEMMA OneErrorEachNext == Inv /\ OneErrorEach /\ [Next]_vars => OneErrorEach'
  <1> SUFFICES ASSUME Inv, OneErrorEach, [Next]_vars
               PROVE  OneErrorEach'
    OBVIOUS
  <1>1. errs \in Nat /\ Finished \in SUBSET Load /\ pc \in [Load -> {"send", "note", "done"}]
    BY Facts, LoadCount DEF Finished
  <1>2. CASE /\ UNCHANGED <<pc, errs>>
             /\ stage' \in {"wait", "ready"} => stage' = stage \/ stage = "wait" \/ errs = 0
    <2>1. Finished' = Finished
      BY <1>2 DEF Finished
    <2> QED
      BY <1>2, <2>1 DEF OneErrorEach
  <1>3. CASE FundSend \/ FundMined \/ WaitFails
    BY <1>2, <1>3 DEF FundSend, FundMined, WaitFails
  <1>4. CASE Seed
    <2>1. stage = "seed" /\ UNCHANGED <<pc, errs>>
      BY <1>4 DEF Seed
    <2>2. errs = 0
      BY <2>1 DEF Inv, Funding
    <2> QED
      BY <1>2, <2>1, <2>2
  <1>5. CASE Joined \/ SetupMined
    <2>1. UNCHANGED <<pc, errs>> /\ (stage' = "ready" => stage = "wait") /\ (stage' = "wait" => ~(errs > 0))
      BY <1>5 DEF Joined, SetupMined, AnyFailed
    <2>2. ~(errs > 0) => errs = 0
      BY <1>1
    <2> QED
      BY <1>2, <2>1, <2>2
  <1>6. CASE Cancel \/ GoSilent \/ Over \/ UNCHANGED vars
    BY <1>2, <1>6 DEF Cancel, GoSilent, Over, vars, runVars
  <1>7. ASSUME NEW a \in Account, ChainStep(a) PROVE OneErrorEach'
    BY <1>2, <1>7 DEF ChainStep, runVars
  <1>8. ASSUME NEW a \in Load, Send(a) \/ Note(a) PROVE OneErrorEach'
    <2>1. /\ pc[a] # "done" /\ errs' = errs /\ stage' = stage
          /\ \E p : pc' = [pc EXCEPT ![a] = p]
      BY <1>8 DEF Send, Note, runVars
    <2>2. Finished' \in {Finished, Finished \cup {a}} /\ a \in Load \ Finished
      BY <1>1, <2>1 DEF Finished
    <2>3. Cardinality(Finished) <= Cardinality(Finished')
      BY <1>1, <2>2, CountFinished
    <2>4. Finished' \in SUBSET Load /\ Cardinality(Finished') \in Nat /\ Cardinality(Finished) \in Nat
      BY <1>1, <2>2, CountFinished
    <2> QED
      BY <1>1, <2>1, <2>3, <2>4 DEF OneErrorEach
  <1>9. ASSUME NEW a \in Load, SendFails(a) PROVE OneErrorEach'
    <2>1. /\ pc[a] = "send" /\ errs' = errs + 1 /\ stage = "sends" /\ stage' = stage
          /\ pc' = [pc EXCEPT ![a] = "done"]
      BY <1>9 DEF SendFails, runVars
    <2>2. Finished' = Finished \cup {a} /\ a \in Load \ Finished
      BY <1>1, <2>1 DEF Finished
    <2>3. Cardinality(Finished') = Cardinality(Finished) + 1 /\ Cardinality(Finished) \in Nat
      BY <1>1, <2>2, CountFinished
    <2> QED
      BY <1>1, <2>1, <2>3 DEF OneErrorEach
  <1> QED
    BY <1>3, <1>4, <1>5, <1>6, <1>7, <1>8, <1>9 DEF Next, Steps

LEMMA OneErrorEachKept == Spec => []OneErrorEach
  <1>1. Init => OneErrorEach
    <2> SUFFICES ASSUME Init PROVE OneErrorEach
      OBVIOUS
    <2>1. Finished \in SUBSET Load /\ errs = 0
      BY DEF Init, Finished
    <2>2. Cardinality(Finished) \in Nat
      BY <2>1, CountFinished
    <2> QED
      BY <2>1, <2>2 DEF OneErrorEach
  <1> QED
    BY <1>1, OneErrorEachNext, Invariance, PTL DEF Spec

(* No goroutine that fails ever waits for room in the channel of errors,     *)
(* however many fail and in whatever order: wg.Wait is not held up by them.  *)
THEOREM RoomForEveryError == Spec => [](stage = "sends" => \A a \in Load : pc[a] # "done" => Room)
  <1>1. Inv /\ OneErrorEach => (stage = "sends" => \A a \in Load : pc[a] # "done" => Room)
    <2> SUFFICES ASSUME Inv, OneErrorEach, NEW a \in Load, pc[a] # "done"
                 PROVE  Room
      OBVIOUS
    <2>1. Finished \in SUBSET Load /\ a \in Load \ Finished
      BY DEF Finished
    <2>2. Cardinality(Finished) < Cardinality(Load) /\ Cardinality(Finished) \in Nat
      BY <2>1, CountFinished
    <2>3. errs \in Nat /\ errs <= Cardinality(Finished)
      BY Facts, LoadCount DEF OneErrorEach
    <2> QED
      BY <2>2, <2>3, LoadCount DEF Room
  <1> QED
    BY <1>1, OneErrorEachKept, Invariance, PTL

(* No error is overlooked: where the setup waits for its last transaction,   *)
(* and in the pool it hands over, every goroutine has sent every one of its  *)
(* transactions, none of them has failed, and the node has admitted all.     *)
THEOREM NoErrorOverlooked ==
  Spec => [](stage \in {"wait", "ready"} =>
               errs = 0 /\ \A a \in Load : nonces[a] = sends /\ admitted[a] = sends)
  <1>1. Inv /\ OneErrorEach =>
          (stage \in {"wait", "ready"} =>
             errs = 0 /\ \A a \in Load : nonces[a] = sends /\ admitted[a] = sends)
    BY DEF Inv, Sending, OneErrorEach
  <1> QED
    BY <1>1, OneErrorEachKept, Invariance, PTL
=============================================================================
