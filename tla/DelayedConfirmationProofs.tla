----------------------- MODULE DelayedConfirmationProofs -----------------------
(***************************************************************************)
(* Theorems about DelayedConfirmation, for any number of transfers and of  *)
(* reorganisations, any capacity, number of retries and height of chain.   *)
(*                                                                         *)
(* Three of them hold under conditions on the distances the service is     *)
(* configured with and on how fast blocks come; each says which.           *)
(***************************************************************************)
EXTENDS DelayedConfirmation, FiniteSetTheorems, WellFoundedInduction, TLAPS

-----------------------------------------------------------------------------
(* Entries.                                                                  *)

(* Which finding of its transfer an entry is. *)
Round(e) == e[2]

(* An entry is a transfer and the number of the finding. *)
LEMMA EntryFacts ==
  ASSUME NEW e \in Entry
  PROVE  /\ Hash(e) \in Transfer
         /\ Round(e) \in 1 .. MaxReorgs + 1
         /\ e = <<Hash(e), Round(e)>>
         /\ Round(e) > 1 => Hash(e) \in Moving
BY ConfirmationTypes DEF Entry, Hash, Round

(* The first finding of any transfer, and any finding of one that moves, is an entry. *)
LEMMA EntryOf ==
  ASSUME NEW t \in Transfer, NEW n \in 1 .. MaxReorgs + 1, n = 1 \/ t \in Moving
  PROVE  <<t, n>> \in Entry /\ Hash(<<t, n>>) = t /\ Round(<<t, n>>) = n
BY ConfirmationTypes DEF Entry, Hash, Round

(* There are finitely many entries: findings are bounded by the reorganisations. *)
LEMMA EntriesAreFinite == IsFiniteSet(Entry)
<1>0. IsFiniteSet({1})
  BY FS_Singleton
<1>1. IsFiniteSet({1}) /\ IsFiniteSet(2 .. MaxReorgs + 1)
  <2>1. 2 \in Int /\ MaxReorgs + 1 \in Int
    BY ConfirmationTypes
  <2> QED
    BY <1>0, <2>1, FS_Interval
<1>2. IsFiniteSet(Moving)
  BY ConfirmationTypes, FS_Subset
<1>3. IsFiniteSet(Transfer \X {1}) /\ IsFiniteSet(Moving \X (2 .. MaxReorgs + 1))
  BY <1>1, <1>2, ConfirmationTypes, FS_Product
<1> QED
  BY <1>3, FS_Union DEF Entry

(* Sets of entries can be counted. *)
LEMMA Finite ==
  ASSUME NEW S, S \subseteq Entry
  PROVE  IsFiniteSet(S) /\ Cardinality(S) \in Nat
BY EntriesAreFinite, FS_Subset, FS_CardinalityType

(* dropOldestTransaction finds an oldest entry if there is any. *)
LEMMA HasLeast ==
  ASSUME NEW S, S # {}, NEW f, \A x \in S : f[x] \in Nat
  PROVE  \E x \in S : \A y \in S : f[x] <= f[y]
<1> DEFINE T == {f[x] : x \in S}
<1>1. T \subseteq Nat /\ T # {}
  OBVIOUS
<1>2. PICK n \in T : \A m \in T : ~(<<m, n>> \in OpToRel(<, Nat))
  BY <1>1, NatLessThanWellFounded, WFMin, Zenon
<1>3. \A m \in T : ~(m < n)
  BY <1>1, <1>2 DEF OpToRel
<1>4. PICK x \in S : f[x] = n
  OBVIOUS
<1>5. ASSUME NEW y \in S PROVE f[x] <= f[y]
  <2>1. f[y] \in T
    OBVIOUS
  <2> QED
    BY <1>1, <1>3, <1>4, <2>1
<1> QED
  BY <1>5

-----------------------------------------------------------------------------
(* Types.                                                                    *)

(* A transfer is found again only after a reorganisation that moved it: the number of *)
(* findings is bounded by the number of those.                                        *)
TimesOK ==
  /\ reorgs <= MaxReorgs
  /\ \A t \in Transfer :
       /\ times[t] = 0 <=> found[t] = 0
       /\ times[t] > 0 /\ block[t] # found[t] => times[t] <= reorgs /\ t \in Moving
       /\ times[t] <= reorgs + 1
       /\ times[t] > 1 => t \in Moving

(* The entries that have left "none" are the findings the scanner has reported. *)
FoundAreStaged ==
  \A e \in Entry : stage[e] = "none" <=> times[Hash(e)] < Round(e)

(* Checks, rows to be inserted and retries are of entries that have been put in the map. *)
WorkIsAdded ==
  /\ \A c \in Cycle, e \in Entry : Checking(c, e) => e \in Added
  /\ recording \subseteq Added
  /\ \A e \in Entry \ Added : retries[e] = 0

(* discoveredAt tells apart what has been added, and a new entry is later than all. *)
ArrivalsDiffer ==
  /\ \A e \in Added : discovered[e] < Cardinality(Added)
  /\ \A d, e \in Added : discovered[d] = discovered[e] => d = e

(* The inductive invariant behind TypeOK: that the map keeps to its size needs an oldest *)
(* entry to exist and to be one, and that a finding is an entry needs the bound on them. *)
TypeInv == TypeOK /\ TimesOK /\ FoundAreStaged /\ WorkIsAdded /\ ArrivalsDiffer

(* What the end of a check does to the stages: the checked entry gets the reason, what *)
(* has the same hash is removed with it, and the clean-up touches only what waits.     *)
LEMMA EndFacts ==
  ASSUME TypeOK, NEW c \in Cycle, NEW e \in Entry, NEW why \in Stages,
         NEW S, S \in {{}, Delete(e)}, CheckEnds(c, e, S, why)
  PROVE  /\ stage' \in [Entry -> Stages]
         /\ check' = [check EXCEPT ![c][e] = Idle]
         /\ discovered' = discovered
         /\ \A d \in Entry \ Waits : d # e => stage'[d] = stage[d]
         /\ \A d \in Waits : d # e =>
              stage'[d] \in {stage[d], "timeout", "replaced"}
         /\ S # {} => /\ stage'[e] = why
                      /\ \A d \in SameHash(e) : d # e => stage'[d] = "replaced"
         /\ S = {} => \/ stage'[e] = stage[e]
                      \/ e \in Waits /\ stage'[e] = "timeout"
<1> DEFINE done == [check[c] EXCEPT ![e] = Idle]
           expired == IF \A d \in Entry : done[d] = Idle THEN (Waits \cap old) \ S ELSE {}
           new == [d \in Entry |-> CASE d = e /\ S # {} -> why
                                     [] d \in S \ {e} -> "replaced"
                                     [] d \in expired -> "timeout"
                                     [] OTHER -> stage[d]]
<1>1. /\ check' = [check EXCEPT ![c] = done]
      /\ stage' = new
      /\ discovered' = discovered
  BY DEF CheckEnds, EndsWith
<1>2. check' = [check EXCEPT ![c][e] = Idle]
  BY <1>1 DEF TypeOK
<1>3. /\ S \ {e} \subseteq Waits
      /\ expired \subseteq Waits
      /\ S # {} => S \ {e} = SameHash(e) \ {e}
  BY DEF Delete, SameHash
<1>4. new \in [Entry -> Stages]
  BY DEF TypeOK, Stages, GivenUp
<1>5. \A d \in Entry : d # e => new[d] = IF d \in S THEN "replaced"
                                         ELSE IF d \in expired THEN "timeout" ELSE stage[d]
  OBVIOUS
<1>6. new[e] = IF S # {} THEN why ELSE IF e \in expired THEN "timeout" ELSE stage[e]
  <2>1. new[e] = CASE e = e /\ S # {} -> why
                   [] e \in S \ {e} -> "replaced"
                   [] e \in expired -> "timeout"
                   [] OTHER -> stage[e]
    BY Zenon
  <2>2. e \notin S \ {e} /\ (S # {} => e \notin expired)
    BY DEF Delete
  <2> HIDE DEF new, expired
  <2>3. CASE S # {}
    BY <2>1, <2>2, <2>3
  <2>4. CASE S = {}
    BY <2>1, <2>2, <2>4
  <2> QED
    BY <2>3, <2>4
<1> HIDE DEF new, expired
<1> QED
  BY <1>1, <1>2, <1>3, <1>4, <1>5, <1>6 DEF Waits

(* A step of a check either learns the block or ends the check, and an entry that stays *)
(* in the map has retries left.                                                         *)
LEMMA CheckFacts ==
  ASSUME TypeOK, NEW c \in Cycle, NEW e \in Entry, CheckStep(c, e)
  PROVE  /\ Checking(c, e)
         /\ \/ GetTransactionReceipt(c, e)
            \/ /\ \E S \in {{}, Delete(e)}, why \in {"invalid", "failed", "marking"} :
                    /\ CheckEnds(c, e, S, why)
                    /\ retries'[e] < MaxRetries \/ S # {} \/ e \notin Waits
                    /\ why = "marking" /\ S # {} => GetCurrentBlockNumber(c, e)
               /\ UNCHANGED <<chain, scanner, old, tables, announced>>
               /\ retries' \in {retries, [retries EXCEPT ![e] = @ + 1]}
               /\ errors' \in {errors, errors + 1}
<1>0. /\ \A d \in Waits : retries[d] < MaxRetries
      /\ retries \in [Entry -> Nat] /\ MaxRetries \in Nat
  BY ConfirmationTypes DEF TypeOK
<1>9. Delete(e) # {}
  BY DEF Delete
<1>1. ASSUME NEW why \in {"invalid", "failed"}, Retry(c, e, why)
      PROVE  /\ \E S \in {{}, Delete(e)} :
                  /\ CheckEnds(c, e, S, why)
                  /\ retries'[e] < MaxRetries \/ S # {} \/ e \notin Waits
             /\ retries' = [retries EXCEPT ![e] = @ + 1]
  <2>1. /\ retries' = [retries EXCEPT ![e] = @ + 1]
        /\ CheckEnds(c, e, IF retries[e] + 1 >= MaxRetries THEN Delete(e) ELSE {}, why)
    BY <1>1 DEF Retry, RetryAtMost
  <2>2. retries'[e] = retries[e] + 1 /\ retries[e] \in Nat
    BY <1>0, <2>1
  <2>3. CASE retries[e] + 1 >= MaxRetries
    BY <1>9, <2>1, <2>3
  <2>4. CASE ~(retries[e] + 1 >= MaxRetries)
    BY <1>0, <2>1, <2>2, <2>4
  <2> QED
    BY <2>3, <2>4
<1>2. CASE NoReceipt(c, e)
  <2>1. PICK S \in {{}, Delete(e)} :
            /\ CheckEnds(c, e, S, "invalid")
            /\ retries'[e] < MaxRetries \/ S # {} \/ e \notin Waits
    BY <1>1, <1>2 DEF NoReceipt
  <2> QED
    BY <1>1, <1>2, <2>1 DEF NoReceipt, Checking, CallFails
<1>3. CASE ReceiptOfFailure(c, e)
  BY <1>3, <1>9 DEF ReceiptOfFailure, Checking
<1>4. CASE GetTransactionReceipt(c, e)
  BY <1>4 DEF GetTransactionReceipt, Checking
<1>5. CASE GetCurrentBlockNumber(c, e)
  <2>1. PICK S \in {{}, Delete(e)} : CheckEnds(c, e, S, "marking")
    BY <1>5 DEF GetCurrentBlockNumber
  <2>2. UNCHANGED <<chain, scanner, retries, old, tables, announced, errors>>
    BY <1>5 DEF GetCurrentBlockNumber
  <2>3. Checking(c, e)
    BY <1>5 DEF GetCurrentBlockNumber, Checking
  <2>4. e \in Waits => retries'[e] < MaxRetries
    BY <1>0, <2>2
  <2> QED
    BY <1>5, <2>1, <2>2, <2>3, <2>4
<1>6. CASE CallThrows(c, e)
  <2>1. PICK S \in {{}, Delete(e)} :
            /\ CheckEnds(c, e, S, "failed")
            /\ retries'[e] < MaxRetries \/ S # {} \/ e \notin Waits
    BY <1>1, <1>6 DEF CallThrows
  <2> QED
    BY <1>1, <1>6, <2>1 DEF CallThrows, CallFails
<1> QED
  BY <1>2, <1>3, <1>4, <1>5, <1>6 DEF CheckStep

(* addPendingTransaction: the oldest goes at the size limit, then the one of the same *)
(* hash, and the new entry waits.                                                     *)
LEMMA AddFacts ==
  ASSUME TypeOK, NEW e \in Entry, AddPendingTransaction(e)
  PROVE  /\ stage' \in [Entry -> Stages]
         /\ stage[e] = "resolving" /\ stage'[e] = Waiting
         /\ Waits' = (Waits \ (Oldest \cup SameHash(e))) \cup {e}
         /\ Added' = Added \cup {e} /\ e \notin Added
         /\ \A d \in Entry \ (Waits \cup {e}) : stage'[d] = stage[d]
         /\ \A d \in Waits :
              \/ d \in Oldest /\ stage'[d] = "dropped"
              \/ d \in SameHash(e) \ Oldest /\ stage'[d] = "replaced"
              \/ d \notin Oldest \cup SameHash(e) /\ stage'[d] = stage[d]
         /\ discovered' = [discovered EXCEPT ![e] = Cardinality(Added)]
         /\ recording' = recording \cup {e}
         /\ UNCHANGED <<crossed, chain, scanner, retries, old, check, reads, row,
                        confirmed, announced, errors>>
<1> DEFINE new == [d \in Entry |-> CASE d = e -> Waiting
                                     [] d \in Oldest -> "dropped"
                                     [] d \in SameHash(e) \ Oldest -> "replaced"
                                     [] OTHER -> stage[d]]
<1>1. /\ stage[e] = "resolving" /\ stage' = new
      /\ discovered' = [discovered EXCEPT ![e] = Cardinality(Added)]
      /\ recording' = recording \cup {e}
      /\ UNCHANGED <<crossed, chain, scanner, retries, old, check, reads, row, confirmed,
                     announced, errors>>
  BY DEF AddPendingTransaction, AddTo
<1>2. /\ Oldest \subseteq Waits /\ SameHash(e) \subseteq Waits
      /\ e \notin Waits /\ e \notin Added
  BY <1>1 DEF Oldest, SameHash, Waits, Added, Waiting
<1>3. new \in [Entry -> Stages]
  BY DEF TypeOK, Stages, GivenUp, Waiting
<1>4. new[e] = Waiting
  <2>1. new[e] = CASE e = e -> Waiting
                   [] e \in Oldest -> "dropped"
                   [] e \in SameHash(e) \ Oldest -> "replaced"
                   [] OTHER -> stage[e]
    BY Zenon
  <2>2. e \notin Oldest /\ e \notin SameHash(e)
    BY <1>2
  <2> QED
    BY <2>1, <2>2
<1>5. \A d \in Entry \ {e} : new[d] = IF d \in Oldest THEN "dropped"
                         ELSE IF d \in SameHash(e) THEN "replaced" ELSE stage[d]
  OBVIOUS
<1> HIDE DEF new
<1>6. Waits' = (Waits \ (Oldest \cup SameHash(e))) \cup {e}
  BY <1>1, <1>2, <1>4, <1>5 DEF Waits, Waiting
<1>7. Added' = Added \cup {e}
  BY <1>1, <1>2, <1>4, <1>5 DEF Added, Waits, Waiting
<1> QED
  BY <1>1, <1>2, <1>3, <1>4, <1>5, <1>6, <1>7 DEF Waits

(* A step that only takes entries out of the map, or on from there. *)
Leaving ==
  /\ stage' \in [Entry -> Stages] /\ discovered' = discovered
  /\ \A e \in Entry : \/ stage'[e] = stage[e]
                      \/ e \in Added /\ stage'[e] \notin {"none", "resolving", "unresolved", Waiting}

(* A step that leaves the map and its entries alone. *)
Resting == UNCHANGED <<stage, discovered>>

(* Checks put nothing into the map. *)
LEMMA CheckLeaves ==
  ASSUME TypeInv, NEW c \in Cycle, NEW e \in Entry, CheckStep(c, e)
  PROVE  Leaving
<1> USE DEF TypeInv
<1>1. Checking(c, e) /\ e \in Added
  BY CheckFacts DEF WorkIsAdded
<1>2. CASE GetTransactionReceipt(c, e)
  BY <1>2 DEF GetTransactionReceipt, Leaving, TypeOK
<1>3. ASSUME NEW S \in {{}, Delete(e)}, NEW why \in {"invalid", "failed", "marking"},
             CheckEnds(c, e, S, why)
      PROVE  Leaving
  <2>1. why \in Stages /\ why \notin {"none", "resolving", "unresolved", Waiting}
    BY DEF Stages, Handling, GivenUp, Waiting
  <2>2. Waits \subseteq Added
    BY DEF Waits, Added, Waiting
  <2>3. stage' \in [Entry -> Stages] /\ discovered' = discovered
    BY <1>3, <2>1, EndFacts
  <2>4. ASSUME NEW d \in Entry, d # e
        PROVE  \/ stage'[d] = stage[d]
               \/ d \in Added /\ stage'[d] \notin {"none", "resolving", "unresolved", Waiting}
    BY <1>3, <2>1, <2>2, <2>4, EndFacts DEF Waiting
  <2>5. \/ stage'[e] = stage[e]
        \/ e \in Added /\ stage'[e] \notin {"none", "resolving", "unresolved", Waiting}
    <3>1. CASE S # {}
      BY <1>1, <1>3, <2>1, <3>1, EndFacts
    <3>2. CASE S = {}
      BY <1>1, <1>3, <2>1, <3>2, EndFacts DEF Waiting
    <3> QED
      BY <3>1, <3>2
  <2> QED
    BY <2>3, <2>4, <2>5 DEF Leaving
<1> QED
  BY <1>2, <1>3, CheckFacts

(* What a step can do to the stages: nothing, a finding, its loss, an addition, or a *)
(* departure.                                                                        *)
LEMMA StageSteps ==
  ASSUME TypeInv, [Next]_vars
  PROVE  \/ Resting
         \/ \E t \in Transfer : TransferEvent(t)
         \/ \E e \in Entry : ResolveFails(e)
         \/ \E e \in Entry : AddPendingTransaction(e)
         \/ Leaving
<1>1. ASSUME NEW e \in Entry, MarkAsConfirmed(e) \/ AnnounceDeposit(e) \/ HandlerFails(e)
      PROVE  Leaving
  BY <1>1 DEF Leaving, MarkAsConfirmed, AnnounceDeposit, HandlerFails, TypeInv, TypeOK,
              Stages, Handling, Waiting, Added
<1>2. CASE UNCHANGED vars
  BY <1>2 DEF vars, service, Resting
<1>3. CASE NewBlock \/ \E t \in Transfer : Mine(t) \/ Reorg(t)
  BY <1>3 DEF NewBlock, Mine, Reorg, service, Resting
<1>4. CASE \E e \in Entry : \/ FindTransfer(e) \/ FindAddress(e) \/ InsertTransfer(e)
                            \/ RecordingFails(e) \/ TimePasses(e)
  BY <1>4 DEF FindTransfer, FindAddress, InsertTransfer, RecordingFails, TimePasses,
              service, Resting
<1>5. CASE \E c \in Cycle : CheckPendingTransactions(c)
  BY <1>5 DEF CheckPendingTransactions, Resting
<1> QED
  BY <1>1, <1>2, <1>3, <1>4, <1>5, CheckLeaves DEF Next

(* A departure adds nothing to any of the sets. *)
LEMMA LeavingFacts ==
  ASSUME Leaving
  PROVE  /\ Waits' \subseteq Waits /\ Added' = Added
         /\ \A e \in Entry : stage'[e] = "none" <=> stage[e] = "none"
         /\ \A e \in Entry : stage'[e] = "resolving" <=> stage[e] = "resolving"
BY DEF Leaving, Waits, Added, Waiting

(* A step that leaves the stages alone leaves the sets alone. *)
LEMMA RestingFacts ==
  ASSUME Resting
  PROVE  /\ Waits' = Waits /\ Added' = Added /\ stage' = stage /\ discovered' = discovered
BY DEF Resting, Waits, Added, Waiting

(* handleTransferEvent: a finding is an entry that has not been staged before. *)
LEMMA ArriveFacts ==
  ASSUME TypeInv, NEW t \in Transfer, TransferEvent(t)
  PROVE  LET e == <<t, times[t] + 1>>
         IN  /\ e \in Entry /\ Hash(e) = t /\ Round(e) = times[t] + 1
             /\ stage[e] = "none"
             /\ stage' = [stage EXCEPT ![e] = "resolving"]
             /\ stage' \in [Entry -> Stages]
             /\ found' = [found EXCEPT ![t] = block[t]]
             /\ times' = [times EXCEPT ![t] = times[t] + 1]
             /\ block[t] # 0 /\ t \notin reverted /\ found[t] # block[t]
             /\ Waits' = Waits /\ Added' = Added
             /\ UNCHANGED <<chain, discovered, retries, old, check, tables, announced,
                            errors>>
<1> DEFINE e == <<t, times[t] + 1>>
<1>1. /\ Unseen(t)
      /\ found' = [found EXCEPT ![t] = block[t]]
      /\ times' = [times EXCEPT ![t] = times[t] + 1]
      /\ stage' = [stage EXCEPT ![e] = "resolving"]
      /\ UNCHANGED <<chain, discovered, retries, old, check, tables, announced, errors>>
  BY DEF TransferEvent
<1>2. block[t] # 0 /\ t \notin reverted /\ found[t] # block[t]
  BY <1>1 DEF Unseen
<1>3. times[t] \in Nat /\ reorgs \in Nat /\ MaxReorgs \in Nat
  BY ConfirmationTypes DEF TypeInv, TypeOK
<1>4. times[t] = 0 \/ (t \in Moving /\ times[t] <= reorgs)
  BY <1>2, <1>3 DEF TypeInv, TimesOK
<1>5. times[t] + 1 \in 1 .. MaxReorgs + 1 /\ (times[t] + 1 = 1 \/ t \in Moving)
  BY <1>3, <1>4 DEF TypeInv, TimesOK
<1>6. e \in Entry /\ Hash(e) = t /\ Round(e) = times[t] + 1
  BY <1>5, EntryOf
<1>7. stage[e] = "none"
  BY <1>3, <1>6 DEF TypeInv, FoundAreStaged
<1>8. Waits' = Waits /\ Added' = Added
  BY <1>1, <1>6, <1>7 DEF Waits, Added, Waiting, TypeInv, TypeOK
<1>9. stage' \in [Entry -> Stages]
  BY <1>1, <1>6 DEF TypeInv, TypeOK, Stages
<1> QED
  BY <1>1, <1>2, <1>6, <1>7, <1>8, <1>9

(* handleTransferEvent: a finding whose address cannot be resolved is not put in the map. *)
LEMMA LossFacts ==
  ASSUME TypeInv, NEW e \in Entry, ResolveFails(e)
  PROVE  /\ stage[e] = "resolving" /\ stage'[e] = "unresolved"
         /\ \A d \in Entry : d # e => stage'[d] = stage[d]
         /\ stage' \in [Entry -> Stages]
         /\ Waits' = Waits /\ Added' = Added
         /\ UNCHANGED <<crossed, chain, scanner, discovered, retries, old, check, tables,
                        announced>>
         /\ errors' = errors + 1
<1>1. /\ stage[e] = "resolving" /\ stage' = [stage EXCEPT ![e] = "unresolved"]
      /\ UNCHANGED <<crossed, chain, scanner, discovered, retries, old, check, tables,
                     announced>>
      /\ errors' = errors + 1
  BY DEF ResolveFails, CallFails
<1>2. stage' \in [Entry -> Stages]
  BY <1>1 DEF TypeInv, TypeOK, Stages
<1>3. stage'[e] = "unresolved" /\ \A d \in Entry : d # e => stage'[d] = stage[d]
  BY <1>1 DEF TypeInv, TypeOK
<1>4. Waits' = Waits /\ Added' = Added
  BY <1>1, <1>3 DEF Waits, Added, Waiting
<1> QED
  BY <1>1, <1>2, <1>3, <1>4

(* Dropping the oldest entry makes room for the new one. *)
LEMMA RoomIsMade ==
  ASSUME TypeInv, NEW e \in Entry, AddPendingTransaction(e)
  PROVE  Cardinality(Waits') <= Capacity
<1>1. /\ Waits' = (Waits \ (Oldest \cup SameHash(e))) \cup {e}
      /\ Waits \subseteq Entry
  BY AddFacts DEF TypeInv, Waits
<1>2. IsFiniteSet(Waits) /\ Cardinality(Waits) \in Nat /\ Cardinality(Waits) <= Capacity
  BY <1>1, Finite DEF TypeInv, TypeOK
<1>3. Capacity \in Nat \ {0}
  BY ConfirmationTypes
<1>4. CASE Cardinality(Waits) < Capacity
  <2>1. Waits' \subseteq Waits \cup {e} /\ Waits \cup {e} \subseteq Entry
    BY <1>1
  <2>2. /\ IsFiniteSet(Waits \cup {e})
        /\ Cardinality(Waits \cup {e}) \in {Cardinality(Waits), Cardinality(Waits) + 1}
    BY <1>2, FS_AddElement
  <2>3. Cardinality(Waits') <= Cardinality(Waits \cup {e}) /\ Cardinality(Waits') \in Nat
    BY <2>1, <2>2, FS_Subset, Finite
  <2> QED
    BY <1>2, <1>3, <1>4, <2>2, <2>3
<1>5. CASE Cardinality(Waits) >= Capacity
  <2>1. Waits # {}
    BY <1>3, <1>5, FS_EmptySet
  <2>2. PICK o \in Waits : \A d \in Waits : discovered[o] <= discovered[d]
    BY <1>1, <2>1, HasLeast DEF TypeInv, TypeOK
  <2>3. o \in Oldest
    BY <1>5, <2>2 DEF Oldest
  <2>4. Waits' \subseteq (Waits \ {o}) \cup {e} /\ (Waits \ {o}) \cup {e} \subseteq Entry
    BY <1>1, <2>3
  <2>5. IsFiniteSet(Waits \ {o}) /\ Cardinality(Waits \ {o}) = Cardinality(Waits) - 1
    BY <1>2, <2>2, FS_RemoveElement
  <2>6. /\ IsFiniteSet((Waits \ {o}) \cup {e})
        /\ Cardinality((Waits \ {o}) \cup {e})
             \in {Cardinality(Waits \ {o}), Cardinality(Waits \ {o}) + 1}
    BY <2>5, FS_AddElement
  <2>7. /\ Cardinality(Waits') <= Cardinality((Waits \ {o}) \cup {e})
        /\ Cardinality(Waits') \in Nat
    BY <2>4, <2>6, FS_Subset, Finite
  <2> QED
    BY <1>2, <1>3, <2>5, <2>6, <2>7
<1> QED
  BY <1>2, <1>3, <1>4, <1>5

(* The part of TypeOK about the map: its size, and that its keys differ. *)
QueueOK ==
  /\ Cardinality(Waits) <= Capacity
  /\ \A d, e \in Waits : discovered[d] = discovered[e] \/ Hash(d) = Hash(e) => d = e

(* An addition adds one entry, with a discoveredAt nothing had before. *)
LEMMA AddedGrows ==
  ASSUME TypeInv, NEW e \in Entry, AddPendingTransaction(e)
  PROVE  /\ Cardinality(Added) \in Nat /\ Cardinality(Added') = Cardinality(Added) + 1
         /\ discovered' \in [Entry -> Nat] /\ discovered'[e] = Cardinality(Added)
         /\ \A d \in Entry \ {e} : discovered'[d] = discovered[d]
<1>1. /\ Added' = Added \cup {e} /\ e \notin Added /\ Added \subseteq Entry
      /\ discovered' = [discovered EXCEPT ![e] = Cardinality(Added)]
  BY AddFacts DEF TypeInv, Added
<1>2. IsFiniteSet(Added) /\ Cardinality(Added) \in Nat
  BY <1>1, Finite
<1>3. Cardinality(Added') = Cardinality(Added) + 1
  BY <1>1, <1>2, FS_AddElement
<1> QED
  BY <1>1, <1>2, <1>3 DEF TypeInv, TypeOK

(* Every step keeps the size of the map, its keys and the order of arrival. *)
LEMMA QueueKept ==
  ASSUME TypeInv, [Next]_vars
  PROVE  QueueOK' /\ ArrivalsDiffer' /\ discovered' \in [Entry -> Nat]
<1>1. CASE Resting
  BY <1>1, RestingFacts DEF TypeInv, TypeOK, QueueOK, ArrivalsDiffer
<1>2. CASE \E t \in Transfer : TransferEvent(t)
  BY <1>2, ArriveFacts DEF TypeInv, TypeOK, QueueOK, ArrivalsDiffer
<1>5. CASE \E e \in Entry : ResolveFails(e)
  BY <1>5, LossFacts DEF TypeInv, TypeOK, QueueOK, ArrivalsDiffer
<1>3. CASE Leaving
  <2>1. Waits' \subseteq Waits /\ Added' = Added /\ discovered' = discovered
    BY <1>3, LeavingFacts DEF Leaving
  <2>2. Cardinality(Waits') <= Capacity
    <3>1. Waits \subseteq Entry
      BY DEF Waits
    <3>2. /\ Cardinality(Waits') <= Cardinality(Waits)
          /\ Cardinality(Waits') \in Nat /\ Cardinality(Waits) \in Nat
      BY <2>1, <3>1, Finite, FS_Subset
    <3> QED
      BY <3>2, ConfirmationTypes DEF TypeInv, TypeOK
  <2> QED
    BY <2>1, <2>2 DEF TypeInv, TypeOK, QueueOK, ArrivalsDiffer
<1>4. ASSUME NEW e \in Entry, AddPendingTransaction(e)
      PROVE  QueueOK' /\ ArrivalsDiffer' /\ discovered' \in [Entry -> Nat]
  <2>1. /\ Cardinality(Added) \in Nat /\ Cardinality(Added') = Cardinality(Added) + 1
        /\ discovered' \in [Entry -> Nat] /\ discovered'[e] = Cardinality(Added)
        /\ \A d \in Entry \ {e} : discovered'[d] = discovered[d]
    BY <1>4, AddedGrows
  <2>2. /\ Waits' = (Waits \ (Oldest \cup SameHash(e))) \cup {e}
        /\ Added' = Added \cup {e} /\ e \notin Added
        /\ Waits \subseteq Added /\ Added \subseteq Entry
    BY <1>4, AddFacts DEF TypeInv, Waits, Added, Waiting
  <2>3. \A d \in Added : discovered[d] \in Nat /\ discovered[d] < Cardinality(Added)
    BY <2>2 DEF TypeInv, TypeOK, ArrivalsDiffer
  <2>4. ArrivalsDiffer'
    <3>1. \A d \in Added' : discovered'[d] < Cardinality(Added')
      BY <2>1, <2>2, <2>3
    <3>2. \A d, x \in Added' : discovered'[d] = discovered'[x] => d = x
      BY <2>1, <2>2, <2>3 DEF TypeInv, ArrivalsDiffer
    <3> QED
      BY <3>1, <3>2 DEF ArrivalsDiffer
  <2>5. Waits' \subseteq Added'
    BY <2>2
  <2>6. ASSUME NEW d \in Waits', NEW x \in Waits',
               discovered'[d] = discovered'[x] \/ Hash(d) = Hash(x)
        PROVE  d = x
    <3>1. CASE discovered'[d] = discovered'[x]
      BY <2>4, <2>5, <3>1 DEF ArrivalsDiffer
    <3>2. CASE Hash(d) = Hash(x)
      <4>1. d \in Waits \ SameHash(e) \/ d = e
        BY <2>2
      <4>2. x \in Waits \ SameHash(e) \/ x = e
        BY <2>2
      <4> QED
        BY <4>1, <4>2, <3>2 DEF SameHash, TypeInv, TypeOK
    <3> QED
      BY <2>6, <3>1, <3>2
  <2> QED
    BY <1>4, <2>1, <2>4, <2>6, RoomIsMade DEF QueueOK
<1> QED
  BY <1>1, <1>2, <1>3, <1>4, <1>5, StageSteps

(* A check writes neither the chain nor the tables. *)
LEMMA CheckKeeps ==
  ASSUME NEW c \in Cycle, NEW e \in Entry, CheckStep(c, e)
  PROVE  UNCHANGED <<crossed, chain, scanner, old, tables, announced>>
BY DEF CheckStep, NoReceipt, ReceiptOfFailure, GetTransactionReceipt, GetCurrentBlockNumber,
       CallThrows

(* Only blocks and findings change the chain and what the scanner knows. *)
LEMMA ChainSteps ==
  ASSUME [Next]_vars
  PROVE  \/ UNCHANGED <<chain, scanner>>
         \/ NewBlock
         \/ \E t \in Transfer : Mine(t) \/ Reorg(t) \/ TransferEvent(t)
<1>1. CASE UNCHANGED vars
  BY <1>1 DEF vars
<1>2. ASSUME NEW e \in Entry,
             \/ ResolveFails(e) \/ AddPendingTransaction(e)
             \/ FindTransfer(e) \/ FindAddress(e) \/ InsertTransfer(e)
             \/ RecordingFails(e) \/ TimePasses(e)
             \/ MarkAsConfirmed(e) \/ AnnounceDeposit(e) \/ HandlerFails(e)
      PROVE  UNCHANGED <<chain, scanner>>
  BY <1>2 DEF ResolveFails, AddPendingTransaction, AddTo, FindTransfer, FindAddress,
              InsertTransfer, RecordingFails, TimePasses,
              MarkAsConfirmed, AnnounceDeposit, HandlerFails
<1>3. ASSUME NEW c \in Cycle,
             CheckPendingTransactions(c) \/ \E e \in Entry : CheckStep(c, e)
      PROVE  UNCHANGED <<chain, scanner>>
  BY <1>3, CheckKeeps DEF CheckPendingTransactions
<1> QED
  BY <1>1, <1>2, <1>3 DEF Next

(* Every step keeps the bound on the findings. *)
LEMMA TimesKept ==
  ASSUME TypeInv, [Next]_vars
  PROVE  TimesOK'
<1>1. /\ reorgs \in Nat /\ MaxReorgs \in Nat /\ times \in [Transfer -> 0 .. MaxReorgs + 1]
      /\ block \in [Transfer -> 0 .. MaxHeight] /\ found \in [Transfer -> 0 .. MaxHeight]
      /\ height \in 1 .. MaxHeight
  BY ConfirmationTypes DEF TypeInv, TypeOK
<1>2. CASE UNCHANGED <<chain, scanner>>
  BY <1>2 DEF TypeInv, TimesOK, chain, scanner
<1>3. CASE NewBlock
  BY <1>3 DEF NewBlock, TypeInv, TimesOK, scanner
<1>4. ASSUME NEW t \in Transfer, Mine(t)
      PROVE  TimesOK'
  <2>1. /\ block[t] = 0 /\ block' = [block EXCEPT ![t] = height]
        /\ found' = found /\ times' = times /\ reorgs' = reorgs
    BY <1>4 DEF Mine, scanner
  <2> QED
    BY <1>1, <2>1 DEF TypeInv, TimesOK
<1>5. ASSUME NEW t \in Transfer, Reorg(t)
      PROVE  TimesOK'
  <2>1. /\ block[t] # 0 /\ found[t] = block[t] /\ t \in Moving
        /\ reorgs < MaxReorgs /\ reorgs' = reorgs + 1
        /\ block' = [block EXCEPT ![t] = 0]
        /\ found' = found /\ times' = times
    BY <1>5 DEF Reorg, scanner
  <2>2. \A x \in Transfer : times[x] \in Nat
    BY <1>1
  <2> QED
    BY <1>1, <2>1, <2>2 DEF TypeInv, TimesOK
<1>6. ASSUME NEW t \in Transfer, TransferEvent(t)
      PROVE  TimesOK'
  <2>1. /\ found' = [found EXCEPT ![t] = block[t]]
        /\ times' = [times EXCEPT ![t] = times[t] + 1]
        /\ block[t] # 0 /\ found[t] # block[t]
        /\ block' = block /\ reorgs' = reorgs
    BY <1>6, ArriveFacts DEF chain
  <2>2. \A x \in Transfer : times[x] \in Nat
    BY <1>1
  <2> QED
    BY <1>1, <2>1, <2>2 DEF TypeInv, TimesOK
<1> QED
  BY <1>2, <1>3, <1>4, <1>5, <1>6, ChainSteps

(* Every step keeps the entries in line with the findings. *)
LEMMA FoundKept ==
  ASSUME TypeInv, [Next]_vars
  PROVE  FoundAreStaged'
<1>1. CASE \E t \in Transfer : TransferEvent(t)
  <2>1. PICK t \in Transfer : TransferEvent(t)
    BY <1>1
  <2> DEFINE e == <<t, times[t] + 1>>
  <2>2. /\ e \in Entry /\ Hash(e) = t /\ Round(e) = times[t] + 1
        /\ stage' = [stage EXCEPT ![e] = "resolving"]
        /\ times' = [times EXCEPT ![t] = times[t] + 1]
    BY <2>1, ArriveFacts
  <2> HIDE DEF e
  <2>3. ASSUME NEW d \in Entry
        PROVE  stage'[d] = "none" <=> times'[Hash(d)] < Round(d)
    <3>1. /\ Hash(d) \in Transfer /\ Round(d) \in Nat /\ times[Hash(d)] \in Nat
          /\ (Hash(d) = t /\ Round(d) = times[t] + 1 => d = e)
          /\ (stage[d] = "none" <=> times[Hash(d)] < Round(d))
      <4>1. d = <<Hash(d), Round(d)>> /\ e = <<Hash(e), Round(e)>>
        BY <2>2, EntryFacts
      <4>2. Hash(d) \in Transfer /\ Round(d) \in Nat
        BY EntryFacts, ConfirmationTypes
      <4>3. times[Hash(d)] \in Nat /\ (stage[d] = "none" <=> times[Hash(d)] < Round(d))
        BY <4>2, ConfirmationTypes DEF TypeInv, TypeOK, FoundAreStaged
      <4>4. Hash(d) = t /\ Round(d) = times[t] + 1 => d = e
        BY <2>2, <4>1
      <4> QED
        BY <4>2, <4>3, <4>4
    <3>2. CASE d = e
      BY <2>2, <3>1, <3>2 DEF TypeInv, TypeOK
    <3>3. CASE d # e
      <4>1. stage'[d] = stage[d]
        BY <2>2, <3>3 DEF TypeInv, TypeOK
      <4>2. times'[Hash(d)] = IF Hash(d) = t THEN times[t] + 1 ELSE times[Hash(d)]
        BY <2>2, <3>1 DEF TypeInv, TypeOK
      <4> QED
        BY <3>1, <3>3, <4>1, <4>2
    <3> QED
      BY <3>2, <3>3
  <2> QED
    BY <2>3 DEF FoundAreStaged
<1>2. CASE ~\E t \in Transfer : TransferEvent(t)
  <2>1. times' = times
    <3>1. CASE UNCHANGED <<chain, scanner>>
      BY <3>1 DEF scanner
    <3>2. CASE NewBlock \/ \E t \in Transfer : Mine(t) \/ Reorg(t)
      BY <3>2 DEF NewBlock, Mine, Reorg, scanner
    <3> QED
      BY <1>2, <3>1, <3>2, ChainSteps
  <2>2. \A d \in Entry : stage'[d] = "none" <=> stage[d] = "none"
    <3>1. CASE \E e \in Entry : AddPendingTransaction(e)
      <4>1. PICK e \in Entry : AddPendingTransaction(e)
        BY <3>1
      <4>2. /\ stage[e] # "none" /\ stage'[e] # "none"
            /\ \A d \in Entry \ (Waits \cup {e}) : stage'[d] = stage[d]
        BY <4>1, AddFacts DEF TypeInv, Waiting
      <4>3. \A d \in Waits : stage[d] # "none" /\ stage'[d] # "none"
        BY <4>1, AddFacts DEF TypeInv, Waits, Waiting
      <4> QED
        BY <4>2, <4>3
    <3>2. CASE \E e \in Entry : ResolveFails(e)
      BY <3>2, LossFacts
    <3> QED
      BY <1>2, <3>1, <3>2, StageSteps, RestingFacts, LeavingFacts
  <2> QED
    BY <2>1, <2>2 DEF TypeInv, FoundAreStaged
<1> QED
  BY <1>1, <1>2

(* What has been put in the map once stays known. *)
LEMMA AddedKept ==
  ASSUME TypeInv, [Next]_vars
  PROVE  Added \subseteq Added'
<1>1. CASE Resting
  BY <1>1, RestingFacts
<1>2. CASE \E t \in Transfer : TransferEvent(t)
  BY <1>2, ArriveFacts
<1>3. CASE \E e \in Entry : AddPendingTransaction(e)
  BY <1>3, AddFacts DEF TypeInv
<1>4. CASE Leaving
  BY <1>4, LeavingFacts
<1>5. CASE \E e \in Entry : ResolveFails(e)
  BY <1>5, LossFacts
<1> QED
  BY <1>1, <1>2, <1>3, <1>4, <1>5, StageSteps

(* What a check of an entry can be. *)
CheckType ==
  [wants: {"nothing", "receipt", "height"}, block: 0 .. MaxHeight, since: 0 .. MaxHeight]

(* What a step can do to the checks: nothing, begin a cycle, learn a block, or end one. *)
LEMMA CheckSteps ==
  ASSUME TypeInv, [Next]_vars
  PROVE  \/ check' = check
         \/ \E c \in Cycle : CheckPendingTransactions(c)
         \/ \E c \in Cycle, e \in Entry : GetTransactionReceipt(c, e)
         \/ \E c \in Cycle, e \in Entry : /\ Checking(c, e)
                                          /\ check' = [check EXCEPT ![c][e] = Idle]
<1>1. CASE UNCHANGED vars
  BY <1>1 DEF vars, service
<1>2. CASE NewBlock \/ \E t \in Transfer : Mine(t) \/ Reorg(t) \/ TransferEvent(t)
  BY <1>2 DEF NewBlock, Mine, Reorg, TransferEvent, service
<1>3. ASSUME NEW e \in Entry,
             \/ ResolveFails(e) \/ AddPendingTransaction(e)
             \/ FindTransfer(e) \/ FindAddress(e) \/ InsertTransfer(e)
             \/ RecordingFails(e) \/ TimePasses(e)
             \/ MarkAsConfirmed(e) \/ AnnounceDeposit(e) \/ HandlerFails(e)
      PROVE  check' = check
  BY <1>3 DEF ResolveFails, AddPendingTransaction, AddTo, FindTransfer, FindAddress,
              InsertTransfer, RecordingFails, TimePasses,
              MarkAsConfirmed, AnnounceDeposit, HandlerFails, service
<1>4. ASSUME NEW c \in Cycle, NEW e \in Entry, CheckStep(c, e)
      PROVE  \/ GetTransactionReceipt(c, e)
             \/ Checking(c, e) /\ check' = [check EXCEPT ![c][e] = Idle]
  <2>1. Checking(c, e)
    BY <1>4, CheckFacts DEF TypeInv
  <2>2. CASE ~GetTransactionReceipt(c, e)
    <3>1. PICK S \in {{}, Delete(e)}, why \in {"invalid", "failed", "marking"} :
             CheckEnds(c, e, S, why)
      BY <1>4, <2>2, CheckFacts DEF TypeInv
    <3>2. why \in Stages
      BY DEF Stages, Handling, GivenUp
    <3> QED
      BY <2>1, <3>1, <3>2, EndFacts DEF TypeInv
  <2> QED
    BY <2>1, <2>2
<1> QED
  BY <1>1, <1>2, <1>3, <1>4 DEF Next

(* The checks that handlers make are checks. *)
LEMMA IdleIsTyped == Idle \in CheckType /\ [Idle EXCEPT !.wants = "receipt"] \in CheckType
BY ConfirmationTypes DEF Idle, CheckType

(* Every step keeps the checks typed and about entries of the map. *)
LEMMA CheckKept ==
  ASSUME TypeInv, [Next]_vars
  PROVE  /\ check' \in [Cycle -> [Entry -> CheckType]]
         /\ \A c \in Cycle, e \in Entry : check'[c][e].wants # "nothing" => e \in Added
<1>0. /\ check \in [Cycle -> [Entry -> CheckType]]
      /\ \A c \in Cycle, e \in Entry : check[c][e].wants # "nothing" => e \in Added
  BY DEF TypeInv, TypeOK, WorkIsAdded, Checking, CheckType
<1>1. CASE check' = check
  BY <1>0, <1>1
<1>2. ASSUME NEW c \in Cycle, CheckPendingTransactions(c)
      PROVE  /\ check' \in [Cycle -> [Entry -> CheckType]]
             /\ \A x \in Cycle, e \in Entry : check'[x][e].wants # "nothing" => e \in Added
  <2> DEFINE begun == [e \in Entry |-> IF e \in Waits THEN [Idle EXCEPT !.wants = "receipt"]
                                       ELSE Idle]
  <2>1. check' = [check EXCEPT ![c] = begun]
    BY <1>2 DEF CheckPendingTransactions
  <2>2. begun \in [Entry -> CheckType]
    BY IdleIsTyped
  <2>3. \A e \in Entry : begun[e].wants # "nothing" => e \in Added
    BY DEF Idle, Waits, Added, Waiting
  <2> HIDE DEF begun
  <2> QED
    BY <1>0, <2>1, <2>2, <2>3
<1>3. ASSUME NEW c \in Cycle, NEW e \in Entry, GetTransactionReceipt(c, e)
      PROVE  /\ check' \in [Cycle -> [Entry -> CheckType]]
             /\ \A x \in Cycle, d \in Entry : check'[x][d].wants # "nothing" => d \in Added
  <2> DEFINE answered == [wants |-> "height", block |-> block[Hash(e)], since |-> height]
  <2>1. /\ check[c][e].wants = "receipt"
        /\ check' = [check EXCEPT ![c][e] = answered]
    BY <1>3 DEF GetTransactionReceipt
  <2>2. answered \in CheckType
    BY EntryFacts, ConfirmationTypes DEF TypeInv, TypeOK, CheckType
  <2> HIDE DEF answered
  <2>3. e \in Added
    BY <1>0, <2>1
  <2> QED
    BY <1>0, <2>1, <2>2, <2>3
<1>4. ASSUME NEW c \in Cycle, NEW e \in Entry, check' = [check EXCEPT ![c][e] = Idle]
      PROVE  /\ check' \in [Cycle -> [Entry -> CheckType]]
             /\ \A x \in Cycle, d \in Entry : check'[x][d].wants # "nothing" => d \in Added
  <2>1. Idle.wants = "nothing"
    BY DEF Idle
  <2> QED
    BY <1>0, <1>4, <2>1, IdleIsTyped
<1> QED
  BY <1>1, <1>2, <1>3, <1>4, CheckSteps

(* The part of TypeOK about retries, with what has none yet. *)
RetriesOK ==
  /\ retries \in [Entry -> Nat]
  /\ \A e \in Waits : retries[e] < MaxRetries
  /\ \A e \in Entry \ Added : retries[e] = 0

(* An entry that still waits has failed fewer times than maxRetries: the check that *)
(* fails once more takes it out.                                                    *)
LEMMA RetriesKept ==
  ASSUME TypeInv, [Next]_vars
  PROVE  RetriesOK'
<1>0. /\ RetriesOK /\ MaxRetries \in Nat \ {0}
      /\ Waits \subseteq Added
  BY ConfirmationTypes DEF TypeInv, TypeOK, WorkIsAdded, RetriesOK, Waits, Added, Waiting
<1>1. ASSUME NEW c \in Cycle, NEW e \in Entry, CheckStep(c, e)
      PROVE  RetriesOK'
  <2>1. Waits' \subseteq Waits /\ Added' = Added
    BY <1>1, CheckLeaves, LeavingFacts
  <2>2. Checking(c, e) /\ e \in Added
    BY <1>1, CheckFacts DEF TypeInv, WorkIsAdded
  <2>3. CASE GetTransactionReceipt(c, e)
    BY <1>0, <2>1, <2>3 DEF GetTransactionReceipt, RetriesOK
  <2>4. CASE ~GetTransactionReceipt(c, e)
    <3>1. PICK S \in {{}, Delete(e)}, why \in {"invalid", "failed", "marking"} :
             /\ CheckEnds(c, e, S, why)
             /\ retries'[e] < MaxRetries \/ S # {} \/ e \notin Waits
      BY <1>1, <2>4, CheckFacts DEF TypeInv
    <3>2. why \in Stages /\ why # Waiting
      BY DEF Stages, Handling, GivenUp, Waiting
    <3>3. S # {} => e \notin Waits'
      BY <3>1, <3>2, EndFacts DEF TypeInv, Waits
    <3>4. retries' \in {retries, [retries EXCEPT ![e] = @ + 1]}
      BY <1>1, <2>4, CheckFacts DEF TypeInv
    <3>5. retries' \in [Entry -> Nat] /\ \A d \in Entry \ {e} : retries'[d] = retries[d]
      BY <1>0, <3>4 DEF RetriesOK
    <3>6. \A d \in Waits' : retries'[d] < MaxRetries
      BY <1>0, <2>1, <3>1, <3>3, <3>5 DEF RetriesOK, Waits
    <3>7. \A d \in Entry \ Added' : retries'[d] = 0
      BY <1>0, <2>1, <2>2, <3>5 DEF RetriesOK
    <3> QED
      BY <3>5, <3>6, <3>7 DEF RetriesOK
  <2> QED
    BY <2>3, <2>4
<1>2. CASE ~\E c \in Cycle, e \in Entry : CheckStep(c, e)
  <2>1. retries' = retries
    <3>1. CASE UNCHANGED vars
      BY <3>1 DEF vars, service
    <3>2. CASE NewBlock \/ \E t \in Transfer : Mine(t) \/ Reorg(t) \/ TransferEvent(t)
      BY <3>2 DEF NewBlock, Mine, Reorg, TransferEvent, service
    <3>3. CASE \E e \in Entry : AddPendingTransaction(e)
      BY <3>3 DEF AddPendingTransaction, AddTo
    <3>4. ASSUME NEW e \in Entry,
                 \/ ResolveFails(e) \/ FindTransfer(e) \/ FindAddress(e)
                 \/ InsertTransfer(e) \/ RecordingFails(e) \/ TimePasses(e)
                 \/ MarkAsConfirmed(e) \/ AnnounceDeposit(e) \/ HandlerFails(e)
          PROVE  retries' = retries
      BY <3>4 DEF ResolveFails, FindTransfer, FindAddress, InsertTransfer,
                  RecordingFails, TimePasses, MarkAsConfirmed, AnnounceDeposit, HandlerFails, service
    <3>5. CASE \E c \in Cycle : CheckPendingTransactions(c)
      BY <3>5 DEF CheckPendingTransactions
    <3> QED
      BY <1>2, <3>1, <3>2, <3>3, <3>4, <3>5 DEF Next
  <2>2. \A d \in Waits' : retries[d] < MaxRetries
    <3>1. CASE Resting
      BY <1>0, <3>1, RestingFacts DEF RetriesOK
    <3>2. CASE \E t \in Transfer : TransferEvent(t)
      BY <1>0, <3>2, ArriveFacts DEF RetriesOK
    <3>3. CASE Leaving
      BY <1>0, <3>3, LeavingFacts DEF RetriesOK
    <3>4. CASE \E e \in Entry : AddPendingTransaction(e)
      <4>1. PICK e \in Entry : AddPendingTransaction(e)
        BY <3>4
      <4>2. e \notin Added /\ Waits' \subseteq Waits \cup {e}
        BY <4>1, AddFacts DEF TypeInv
      <4> QED
        BY <1>0, <4>2 DEF RetriesOK
    <3>5. CASE \E e \in Entry : ResolveFails(e)
      BY <1>0, <3>5, LossFacts DEF RetriesOK
    <3> QED
      BY <3>1, <3>2, <3>3, <3>4, <3>5, StageSteps
  <2>3. Added \subseteq Added'
    BY AddedKept
  <2> QED
    BY <1>0, <2>1, <2>2, <2>3 DEF RetriesOK
<1> QED
  BY <1>1, <1>2

(* The part of TypeOK about the chain and the scanner. *)
ChainOK ==
  /\ height \in 1 .. MaxHeight
  /\ block \in [Transfer -> 0 .. MaxHeight]
  /\ reverted \subseteq Transfer
  /\ found \in [Transfer -> 0 .. MaxHeight]
  /\ times \in [Transfer -> 0 .. MaxReorgs + 1]
  /\ reorgs \in Nat

(* Every step keeps the chain and the findings in their ranges. *)
LEMMA ChainKept ==
  ASSUME TypeInv, [Next]_vars
  PROVE  ChainOK'
<1>0. ChainOK /\ MaxHeight \in Nat /\ MaxReorgs \in Nat
  BY ConfirmationTypes DEF TypeInv, TypeOK, ChainOK
<1>1. CASE UNCHANGED <<chain, scanner>>
  BY <1>0, <1>1 DEF ChainOK, chain, scanner
<1>2. CASE NewBlock
  BY <1>0, <1>2 DEF ChainOK, NewBlock, scanner
<1>3. CASE \E t \in Transfer : Mine(t)
  BY <1>0, <1>3 DEF ChainOK, Mine, scanner
<1>4. CASE \E t \in Transfer : Reorg(t)
  BY <1>0, <1>4 DEF ChainOK, Reorg, scanner
<1>5. ASSUME NEW t \in Transfer, TransferEvent(t)
      PROVE  ChainOK'
  <2>1. /\ found' = [found EXCEPT ![t] = block[t]]
        /\ times' = [times EXCEPT ![t] = times[t] + 1]
        /\ UNCHANGED chain
        /\ <<t, times[t] + 1>> \in Entry /\ Round(<<t, times[t] + 1>>) = times[t] + 1
    BY <1>5, ArriveFacts
  <2>2. times[t] + 1 \in 0 .. MaxReorgs + 1
    BY <1>0, <2>1, EntryFacts
  <2> QED
    BY <1>0, <2>1, <2>2 DEF ChainOK, chain
<1> QED
  BY <1>1, <1>2, <1>3, <1>4, <1>5, ChainSteps

(* The part of TypeOK about the tables, the announcements and the failures. *)
TablesOK ==
  /\ old \subseteq Entry
  /\ recording \subseteq Added /\ reads \in [Entry -> 0 .. 2]
  /\ crossed \subseteq Transfer
  /\ confirmed \subseteq row /\ row \subseteq Transfer
  /\ announced \in [Transfer -> Nat]
  /\ errors \in Nat

(* Every step keeps the tables typed. *)
LEMMA TablesKept ==
  ASSUME TypeInv, [Next]_vars
  PROVE  TablesOK'
<1>0. /\ TablesOK /\ Added \subseteq Added' /\ Added \subseteq Entry
      /\ \A e \in Entry : Hash(e) \in Transfer
  BY AddedKept, EntryFacts DEF TypeInv, TypeOK, WorkIsAdded, TablesOK, Added
<1>1. CASE UNCHANGED <<old, tables, announced, errors, crossed>>
  BY <1>0, <1>1 DEF TablesOK, tables
<1>2. ASSUME NEW e \in Entry, AddPendingTransaction(e)
      PROVE  TablesOK'
  <2>1. /\ Added' = Added \cup {e} /\ recording' = recording \cup {e}
        /\ UNCHANGED <<old, reads, row, confirmed, announced, errors, crossed>>
    BY <1>2, AddFacts DEF TypeInv
  <2> QED
    BY <1>0, <2>1 DEF TablesOK
<1>3. CASE \E e \in Entry : \/ FindTransfer(e) \/ FindAddress(e) \/ InsertTransfer(e)
                            \/ RecordingFails(e)
  BY <1>0, <1>3 DEF TablesOK, FindTransfer, FindAddress, InsertTransfer, RecordingFails,
                    Recorded, CallFails, service
<1>9. CASE \E e \in Entry : ResolveFails(e)
  BY <1>0, <1>9, LossFacts DEF TablesOK, tables
<1>4. CASE \E e \in Entry : TimePasses(e)
  BY <1>0, <1>4 DEF TablesOK, TimePasses, Waits, tables
<1>5. CASE \E e \in Entry : MarkAsConfirmed(e) \/ HandlerFails(e)
  BY <1>0, <1>5 DEF TablesOK, MarkAsConfirmed, HandlerFails, CallFails, tables
<1>6. CASE \E e \in Entry : AnnounceDeposit(e)
  BY <1>0, <1>6 DEF TablesOK, AnnounceDeposit, tables
<1>7. ASSUME NEW c \in Cycle, NEW e \in Entry, CheckStep(c, e)
      PROVE  TablesOK'
  <2>1. UNCHANGED <<crossed, chain, scanner, old, tables, announced>>
    BY <1>7, CheckKeeps
  <2>2. errors' \in {errors, errors + 1}
    BY <1>7 DEF CheckStep, NoReceipt, ReceiptOfFailure, GetTransactionReceipt,
                GetCurrentBlockNumber, CallThrows, CallFails
  <2> QED
    BY <1>0, <2>1, <2>2 DEF TablesOK, tables
<1>8. CASE \/ UNCHANGED vars
           \/ NewBlock \/ \E t \in Transfer : Mine(t) \/ Reorg(t) \/ TransferEvent(t)
  <2>1. UNCHANGED <<old, tables, announced, errors, crossed>>
    BY <1>8 DEF vars, NewBlock, Mine, Reorg, TransferEvent, service
  <2> QED
    BY <1>1, <2>1
<1>10. ASSUME NEW c \in Cycle, CheckPendingTransactions(c)
       PROVE  TablesOK'
  <2>1. /\ crossed' = crossed \cup {Hash(e) : e \in {d \in Waits : HasCheck(Hash(d))}}
        /\ UNCHANGED <<old, tables, announced, errors>>
    BY <1>10 DEF CheckPendingTransactions
  <2>2. crossed' \subseteq Transfer
    BY <1>0, <2>1 DEF TablesOK, Waits
  <2> QED
    BY <1>0, <2>1, <2>2 DEF TablesOK, tables
<1> QED
  BY <1>2, <1>3, <1>4, <1>5, <1>6, <1>7, <1>8, <1>9, <1>10 DEF Next

(* Every step keeps the stages typed. *)
LEMMA StageKept ==
  ASSUME TypeInv, [Next]_vars
  PROVE  stage' \in [Entry -> Stages]
<1>1. CASE Resting
  BY <1>1, RestingFacts DEF TypeInv, TypeOK
<1>2. CASE \E t \in Transfer : TransferEvent(t)
  BY <1>2, ArriveFacts
<1>3. CASE \E e \in Entry : AddPendingTransaction(e)
  BY <1>3, AddFacts DEF TypeInv
<1>4. CASE Leaving
  BY <1>4 DEF Leaving
<1>5. CASE \E e \in Entry : ResolveFails(e)
  BY <1>5, LossFacts
<1> QED
  BY <1>1, <1>2, <1>3, <1>4, <1>5, StageSteps

(* TypeInv is preserved by every step. *)
LEMMA TypeInvariant ==
  ASSUME TypeInv, [Next]_vars
  PROVE  TypeInv'
<1>1. ChainOK' /\ TablesOK' /\ RetriesOK' /\ QueueOK' /\ stage' \in [Entry -> Stages]
  BY ChainKept, TablesKept, RetriesKept, QueueKept, StageKept
<1>2. /\ check' \in [Cycle -> [Entry -> CheckType]]
      /\ \A c \in Cycle, e \in Entry : check'[c][e].wants # "nothing" => e \in Added
      /\ Added \subseteq Added'
  BY CheckKept, AddedKept
<1>3. recording' \subseteq Entry
  BY <1>1 DEF TablesOK, Added
<1>4. TypeOK'
  BY <1>1, <1>2, <1>3, QueueKept
     DEF ChainOK, TablesOK, RetriesOK, QueueOK, TypeOK, CheckType
<1>5. WorkIsAdded'
  <2>1. \A c \in Cycle, e \in Entry : check'[c][e].wants # "nothing" => e \in Added'
    BY <1>2
  <2> QED
    BY <1>1, <2>1 DEF TablesOK, RetriesOK, WorkIsAdded, Checking
<1> QED
  BY <1>4, <1>5, TimesKept, FoundKept, QueueKept DEF TypeInv

(* TypeInv holds at the start. *)
LEMMA TypeInit == Init => TypeInv
<1> SUFFICES ASSUME Init PROVE TypeInv
  OBVIOUS
<1>1. /\ stage = [e \in Entry |-> "none"] /\ times = [t \in Transfer |-> 0]
      /\ found = [t \in Transfer |-> 0] /\ block = [t \in Transfer |-> 0]
      /\ check = [c \in Cycle |-> [e \in Entry |-> Idle]]
      /\ discovered = [e \in Entry |-> 0] /\ retries = [e \in Entry |-> 0]
      /\ announced = [t \in Transfer |-> 0] /\ reads = [e \in Entry |-> 0]
      /\ crossed = {} /\ height = 1 /\ reorgs = 0 /\ errors = 0
      /\ reverted = {} /\ old = {} /\ recording = {} /\ row = {} /\ confirmed = {}
  BY DEF Init
<1>2. Waits = {} /\ Added = {}
  BY <1>1 DEF Waits, Added, Waiting
<1>3. Idle \in CheckType /\ Idle.wants = "nothing"
  BY IdleIsTyped DEF Idle
<1>4. Cardinality(Waits) = 0
  BY <1>2, FS_EmptySet
<1>5. MaxHeight \in Nat \ {0} /\ MaxReorgs \in Nat /\ Capacity \in Nat
  BY ConfirmationTypes
<1>6. TypeOK
  BY <1>1, <1>2, <1>3, <1>4, <1>5 DEF TypeOK, CheckType, Stages
<1>7. TimesOK
  BY <1>1, <1>5 DEF TimesOK
<1>8. FoundAreStaged
  BY <1>1, EntryFacts DEF FoundAreStaged
<1>9. WorkIsAdded
  BY <1>1, <1>2, <1>3 DEF WorkIsAdded, Checking
<1>10. ArrivalsDiffer
  BY <1>2 DEF ArrivalsDiffer
<1> QED
  BY <1>6, <1>7, <1>8, <1>9, <1>10 DEF TypeInv

(* TypeInv always holds. *)
LEMMA TypeAlways == Spec => []TypeInv
BY TypeInit, TypeInvariant, PTL DEF Spec

(* Every reachable state is typed: the map never holds more than                        *)
(* maxPendingTransactions entries nor two of one hash, and nothing waits in it that has *)
(* used up its retries.                                                                 *)
THEOREM TypeCorrect == Spec => []TypeOK
BY TypeAlways, PTL DEF TypeInv

-----------------------------------------------------------------------------
(* ConfirmedIsDeep.                                                          *)

(* No check spans more than one new block, and the confirmations asked for exceed the *)
(* blocks that may be replaced, by the new block and the last one.                    *)
DepthCoversReorgs == BlocksAreSlow /\ ReorgDepth + 2 <= Confirmations

(* What a check remembers while it waits for the height: the block is the one of the *)
(* transaction, unless it was so young that it could be replaced.                    *)
LooksBack ==
  \A c \in Cycle, e \in Entry : check[c][e].wants = "height" =>
    /\ 1 <= check[c][e].block /\ check[c][e].block <= check[c][e].since
    /\ height \in {check[c][e].since, check[c][e].since + 1}
    /\ \/ block[Hash(e)] = check[c][e].block /\ Hash(e) \notin reverted
       \/ check[c][e].block > check[c][e].since - ReorgDepth

(* The inductive invariant behind ConfirmedIsDeep. *)
LookInv ==
  /\ \A t \in Transfer : block[t] <= height
  /\ LooksBack

(* LookInv is preserved by every step: only young blocks are replaced, and a check that *)
(* has seen an older one still sees the right one.                                      *)
LEMMA LookInvariant ==
  ASSUME DepthCoversReorgs, TypeInv, LookInv, [Next]_vars
  PROVE  LookInv'
<1>0. /\ height \in Nat \ {0} /\ ReorgDepth \in Nat /\ BlocksAreSlow
      /\ block \in [Transfer -> Nat] /\ \A e \in Entry : Hash(e) \in Transfer
      /\ check \in [Cycle -> [Entry -> CheckType]]
  BY ConfirmationTypes, EntryFacts
     DEF TypeInv, TypeOK, CheckType, DepthCoversReorgs
<1>1. \A x \in CheckType : x.block \in Nat /\ x.since \in Nat
  BY ConfirmationTypes DEF CheckType
<1>2. \A c \in Cycle, e \in Entry : check[c][e].block \in Nat /\ check[c][e].since \in Nat
  BY <1>0, <1>1
<1>3. CASE UNCHANGED <<chain, check>>
  BY <1>3 DEF LookInv, LooksBack, chain
<1>4. CASE NewBlock
  <2>1. /\ height' = height + 1 /\ UNCHANGED <<block, reverted, check>>
        /\ \A c \in Cycle, e \in Entry :
             check[c][e].wants = "height" => height = check[c][e].since
    BY <1>0, <1>4 DEF NewBlock, service
  <2> QED
    BY <1>0, <1>2, <2>1 DEF LookInv, LooksBack
<1>5. ASSUME NEW t \in Transfer, Mine(t) PROVE LookInv'
  <2>1. /\ block[t] = 0 /\ block' = [block EXCEPT ![t] = height]
        /\ reverted' \in {reverted, reverted \cup {t}}
        /\ UNCHANGED <<height, check>>
    BY <1>5 DEF Mine, service
  <2> QED
    BY <1>0, <1>2, <2>1 DEF LookInv, LooksBack
<1>6. ASSUME NEW t \in Transfer, Reorg(t) PROVE LookInv'
  <2>1. /\ block[t] > height - ReorgDepth /\ block' = [block EXCEPT ![t] = 0]
        /\ UNCHANGED <<height, check, reverted>>
    BY <1>6 DEF Reorg, service
  <2> QED
    BY <1>0, <1>2, <2>1 DEF LookInv, LooksBack
<1>7. ASSUME NEW c \in Cycle, CheckPendingTransactions(c) PROVE LookInv'
  <2> DEFINE begun == [e \in Entry |-> IF e \in Waits THEN [Idle EXCEPT !.wants = "receipt"]
                                       ELSE Idle]
  <2>1. check' = [check EXCEPT ![c] = begun] /\ UNCHANGED chain
    BY <1>7 DEF CheckPendingTransactions
  <2>2. \A e \in Entry : begun[e].wants # "height"
    BY DEF Idle
  <2> HIDE DEF begun
  <2> QED
    BY <1>0, <2>1, <2>2 DEF LookInv, LooksBack, chain
<1>8. ASSUME NEW c \in Cycle, NEW e \in Entry, GetTransactionReceipt(c, e) PROVE LookInv'
  <2> DEFINE answered == [wants |-> "height", block |-> block[Hash(e)], since |-> height]
  <2>1. /\ block[Hash(e)] # 0 /\ Hash(e) \notin reverted
        /\ check' = [check EXCEPT ![c][e] = answered] /\ UNCHANGED chain
    BY <1>8 DEF GetTransactionReceipt
  <2>2. block[Hash(e)] <= height
    BY <1>0 DEF LookInv
  <2> QED
    BY <1>0, <2>1, <2>2 DEF LookInv, LooksBack, chain
<1>9. ASSUME NEW c \in Cycle, NEW e \in Entry, check' = [check EXCEPT ![c][e] = Idle],
             UNCHANGED chain
      PROVE  LookInv'
  <2>1. Idle.wants # "height"
    BY DEF Idle
  <2> QED
    BY <1>0, <1>9, <2>1 DEF LookInv, LooksBack, chain
<1> QED
  <2>1. CASE UNCHANGED chain
    BY <1>3, <1>7, <1>8, <1>9, <2>1, CheckSteps
  <2>2. CASE NewBlock \/ \E t \in Transfer : Mine(t) \/ Reorg(t)
    BY <1>4, <1>5, <1>6, <2>2
  <2>3. CASE \E t \in Transfer : TransferEvent(t)
    BY <1>3, <2>3, ArriveFacts
  <2> QED
    BY <2>1, <2>2, <2>3, ChainSteps

(* What the end of a check makes of any entry. *)
LEMMA EndStages ==
  ASSUME TypeOK, NEW c \in Cycle, NEW e \in Entry, NEW why \in Stages,
         NEW S, S \in {{}, Delete(e)}, CheckEnds(c, e, S, why),
         NEW d \in Entry
  PROVE  \/ stage'[d] = stage[d]
         \/ d \in Waits /\ stage'[d] \in {"timeout", "replaced"}
         \/ d = e /\ S # {} /\ stage'[d] = why
<1>1. CASE d = e
  BY <1>1, EndFacts
<1>2. CASE d # e /\ d \in Waits
  BY <1>2, EndFacts
<1>3. CASE d # e /\ d \notin Waits
  BY <1>3, EndFacts
<1> QED
  BY <1>1, <1>2, <1>3

(* An entry is confirmed only by its own check, on a height that makes its block deep. *)
LEMMA MarkFacts ==
  ASSUME TypeInv, [Next]_vars, NEW d \in Entry, stage[d] # "marking", stage'[d] = "marking"
  PROVE  \E c \in Cycle, h \in Int :
           /\ check[c][d].wants = "height"
           /\ h <= height /\ h - check[c][d].block + 1 >= Confirmations
           /\ CheckEnds(c, d, Delete(d), "marking")
           /\ UNCHANGED <<crossed, chain, scanner, tables, announced>>
<1>1. CASE Resting
  BY <1>1 DEF Resting
<1>2. CASE \E t \in Transfer : TransferEvent(t)
  BY <1>2, ArriveFacts DEF TypeInv, TypeOK
<1>3. CASE \E e \in Entry : AddPendingTransaction(e)
  <2>1. PICK e \in Entry : AddPendingTransaction(e)
    BY <1>3
  <2> QED
    BY <2>1, AddFacts DEF TypeInv, Waiting
<1>4. CASE \E e \in Entry : MarkAsConfirmed(e) \/ AnnounceDeposit(e) \/ HandlerFails(e)
  BY <1>4 DEF MarkAsConfirmed, AnnounceDeposit, HandlerFails, TypeInv, TypeOK
<1>5. ASSUME NEW c \in Cycle, NEW e \in Entry, CheckStep(c, e)
      PROVE  /\ GetCurrentBlockNumber(c, e) /\ d = e
             /\ \E h \in Int :
                  /\ h <= height /\ h - check[c][d].block + 1 >= Confirmations
                  /\ CheckEnds(c, d, Delete(d), "marking")
  <2>1. ~GetTransactionReceipt(c, e)
    BY DEF GetTransactionReceipt
  <2>2. PICK S \in {{}, Delete(e)}, why \in {"invalid", "failed", "marking"} :
           /\ CheckEnds(c, e, S, why)
           /\ why = "marking" /\ S # {} => GetCurrentBlockNumber(c, e)
    BY <1>5, <2>1, CheckFacts DEF TypeInv
  <2>3. /\ why \in Stages /\ "marking" \in Stages
    BY DEF Stages, Handling, GivenUp
  <2>4. d = e /\ S # {} /\ why = "marking"
    BY <2>2, <2>3, EndStages DEF TypeInv
  <2>5. GetCurrentBlockNumber(c, e)
    BY <2>2, <2>4
  <2>6. PICK h \in (height - HeightLag) .. height :
          CheckEnds(c, e, IF h - check[c][e].block + 1 >= Confirmations
                          THEN Delete(e) ELSE {}, "marking")
    BY <2>5 DEF GetCurrentBlockNumber
  <2>7. h - check[c][e].block + 1 >= Confirmations
    <3>1. CASE ~(h - check[c][e].block + 1 >= Confirmations)
      <4>1. CheckEnds(c, e, {}, "marking")
        BY <2>6, <3>1
      <4> QED
        BY <2>3, <4>1, EndStages DEF TypeInv
    <3> QED
      BY <3>1
  <2>8. h \in Int /\ h <= height
    BY ConfirmationTypes DEF TypeInv, TypeOK
  <2> QED
    BY <2>4, <2>5, <2>6, <2>7, <2>8
<1>6. CASE \/ UNCHANGED vars
           \/ NewBlock \/ \E t \in Transfer : Mine(t) \/ Reorg(t)
           \/ \E e \in Entry : \/ FindTransfer(e) \/ FindAddress(e) \/ InsertTransfer(e)
                              \/ RecordingFails(e) \/ TimePasses(e)
           \/ \E c \in Cycle : CheckPendingTransactions(c)
  BY <1>6 DEF vars, service, NewBlock, Mine, Reorg, FindTransfer, FindAddress,
              InsertTransfer, RecordingFails, TimePasses, CheckPendingTransactions
<1>8. CASE \E e \in Entry : ResolveFails(e)
  BY <1>8, LossFacts DEF Handling
<1>7. CASE \E c \in Cycle, e \in Entry : CheckStep(c, e)
  <2>1. PICK c \in Cycle, e \in Entry : CheckStep(c, e)
    BY <1>7
  <2>2. check[c][d].wants = "height"
    BY <1>5, <2>1 DEF GetCurrentBlockNumber
  <2>3. UNCHANGED <<crossed, chain, scanner, tables, announced>>
    BY <2>1, CheckKeeps
  <2> QED
    BY <1>5, <2>1, <2>2, <2>3
<1> QED
  BY <1>2, <1>3, <1>4, <1>6, <1>7, <1>8 DEF Next

(* The block that a check compares when it confirms is the one of the transaction, and *)
(* as deep as required.                                                                *)
LEMMA MarkedIsDeep ==
  ASSUME DepthCoversReorgs, TypeInv, LookInv, [Next]_vars,
         NEW e \in Entry, stage[e] # "marking", stage'[e] = "marking"
  PROVE  /\ block[Hash(e)] # 0 /\ Hash(e) \notin reverted
         /\ height - block[Hash(e)] + 1 >= Confirmations
<1>1. PICK c \in Cycle, h \in Int :
        /\ check[c][e].wants = "height"
        /\ h <= height /\ h - check[c][e].block + 1 >= Confirmations
  BY MarkFacts
<1>2. check[c][e] \in CheckType
  BY DEF TypeInv, TypeOK, CheckType
<1>3. check[c][e].block \in Nat /\ check[c][e].since \in Nat
  BY <1>2, ConfirmationTypes DEF CheckType
<1>4. height \in Nat /\ ReorgDepth \in Nat /\ Confirmations \in Nat
  BY ConfirmationTypes DEF TypeInv, TypeOK
<1>5. /\ 1 <= check[c][e].block
      /\ height \in {check[c][e].since, check[c][e].since + 1}
      /\ \/ block[Hash(e)] = check[c][e].block /\ Hash(e) \notin reverted
         \/ check[c][e].block > check[c][e].since - ReorgDepth
  BY <1>1 DEF LookInv, LooksBack
<1>6. ~(check[c][e].block > check[c][e].since - ReorgDepth)
  BY <1>1, <1>3, <1>4, <1>5 DEF DepthCoversReorgs
<1> QED
  BY <1>1, <1>3, <1>4, <1>5, <1>6

(* LookInv holds at the start. *)
LEMMA LookInit == Init => LookInv
BY DEF Init, LookInv, LooksBack, Idle

(* ConfirmedIsDeep: processPendingTransaction confirms a transaction only when it has    *)
(* succeeded and is deep enough in the chain as it is then, although the receipt and the *)
(* height are asked for one after the other and blocks are replaced in between.          *)
THEOREM DeepWhenConfirmed ==
  ASSUME DepthCoversReorgs
  PROVE  Spec => ConfirmedIsDeep
<1>1. Init => TypeInv /\ LookInv
  BY TypeInit, LookInit
<1>2. TypeInv /\ LookInv /\ [Next]_vars => TypeInv' /\ LookInv'
  BY TypeInvariant, LookInvariant
<1>3. TypeInv /\ LookInv /\ [Next]_vars =>
        [\A e \in Entry : stage[e] # "marking" /\ stage'[e] = "marking" =>
           /\ block[Hash(e)] # 0 /\ Hash(e) \notin reverted
           /\ height - block[Hash(e)] + 1 >= Confirmations]_vars
  BY MarkedIsDeep
<1> QED
  BY <1>1, <1>2, <1>3, PTL DEF Spec, ConfirmedIsDeep

-----------------------------------------------------------------------------
(* ConfirmedIsAnnounced.                                                     *)

(* The inductive invariant behind ConfirmedIsAnnounced: what has been added has a row or *)
(* will have one, unless a call has failed.                                              *)
RecordInv ==
  /\ \A e \in Added : e \in recording \/ Hash(e) \in row \/ errors > 0
  /\ \A e \in Entry : stage[e] = "announcing" => e \notin recording
  /\ ConfirmedIsAnnounced

(* A check gives an entry up, confirms it, or leaves it. *)
LEMMA CheckStages ==
  ASSUME TypeInv, NEW c \in Cycle, NEW e \in Entry, CheckStep(c, e), NEW d \in Entry
  PROVE  \/ stage'[d] = stage[d]
         \/ stage'[d] \in GivenUp \cup {"marking"} /\ (d \in Waits \/ Checking(c, d))
<1>1. CASE GetTransactionReceipt(c, e)
  BY <1>1 DEF GetTransactionReceipt
<1>2. CASE ~GetTransactionReceipt(c, e)
  <2>1. PICK S \in {{}, Delete(e)}, why \in {"invalid", "failed", "marking"} :
           CheckEnds(c, e, S, why)
    BY <1>2, CheckFacts DEF TypeInv
  <2>2. why \in Stages
    BY DEF Stages, Handling, GivenUp
  <2>3. Checking(c, e)
    BY CheckFacts DEF TypeInv
  <2> QED
    BY <2>1, <2>2, <2>3, EndStages DEF TypeInv, GivenUp
<1> QED
  BY <1>1, <1>2

(* What an addition makes of any entry. *)
LEMMA AddStages ==
  ASSUME TypeInv, NEW e \in Entry, AddPendingTransaction(e), NEW d \in Entry
  PROVE  \/ d = e /\ stage[d] = "resolving" /\ stage'[d] = Waiting
         \/ d # e /\ stage'[d] = stage[d]
         \/ d # e /\ d \in Waits /\ stage'[d] \in {"dropped", "replaced"}
<1>1. stage[e] = "resolving" /\ stage'[e] = Waiting
  BY AddFacts DEF TypeInv
<1>2. e \notin Waits
  BY <1>1 DEF Waits, Waiting
<1>3. CASE d \in Waits
  BY <1>2, <1>3, AddFacts DEF TypeInv
<1>4. CASE d \notin Waits
  BY <1>1, <1>4, AddFacts DEF TypeInv
<1> QED
  BY <1>3, <1>4

(* RecordInv is preserved by every step. *)
LEMMA RecordInvariant ==
  ASSUME RecordingIsQuick, TypeInv, RecordInv, [Next]_vars
  PROVE  RecordInv'
<1>0. errors \in Nat /\ Added \subseteq Entry
  BY DEF TypeInv, TypeOK, Added
<1>1. ASSUME NEW e \in Entry, AddPendingTransaction(e) PROVE RecordInv'
  <2>1. /\ Added' = Added \cup {e} /\ recording' = recording \cup {e}
        /\ UNCHANGED <<row, errors>>
    BY <1>1, AddFacts DEF TypeInv
  <2>2. \A d \in Entry : \/ stage'[d] = stage[d] /\ d # e
                         \/ stage'[d] \in {Waiting, "dropped", "replaced"}
    BY <1>1, AddStages
  <2> QED
    BY <2>1, <2>2 DEF RecordInv, ConfirmedIsAnnounced, Waiting
<1>2. ASSUME NEW c \in Cycle, NEW e \in Entry, CheckStep(c, e) PROVE RecordInv'
  <2>1. \A d \in Entry : stage'[d] = stage[d] \/ stage'[d] \in GivenUp \cup {"marking"}
    BY <1>2, CheckStages
  <2>2. UNCHANGED <<recording, row>>
    BY <1>2, CheckKeeps DEF tables
  <2>3. errors' \in {errors, errors + 1}
    BY <1>2 DEF CheckStep, NoReceipt, ReceiptOfFailure, GetTransactionReceipt,
                GetCurrentBlockNumber, CallThrows, CallFails
  <2>4. errors > 0 => errors' > 0
    BY <1>0, <2>3
  <2>5. Added' = Added
    BY <1>2, CheckLeaves, LeavingFacts
  <2> QED
    BY <2>1, <2>2, <2>4, <2>5 DEF RecordInv, ConfirmedIsAnnounced, GivenUp
<1>3. ASSUME NEW e \in Entry, FindTransfer(e) \/ FindAddress(e) \/ InsertTransfer(e)
      PROVE  RecordInv'
  <2>1. /\ \/ UNCHANGED <<recording, row>>
           \/ Hash(e) \in row /\ recording' = recording \ {e} /\ row' = row
           \/ recording' = recording \ {e} /\ row' = row \cup {Hash(e)}
        /\ UNCHANGED <<stage, errors>>
    BY <1>3 DEF FindTransfer, FindAddress, InsertTransfer, Recorded, service
  <2> QED
    BY <2>1 DEF RecordInv, ConfirmedIsAnnounced, Added
<1>4. ASSUME NEW e \in Entry, RecordingFails(e) PROVE RecordInv'
  <2>1. /\ recording' = recording \ {e} /\ errors' > 0
        /\ UNCHANGED <<stage, row>>
    BY <1>0, <1>4 DEF RecordingFails, Recorded, CallFails, service
  <2> QED
    BY <2>1 DEF RecordInv, ConfirmedIsAnnounced, Added
<1>5. ASSUME NEW e \in Entry, MarkAsConfirmed(e) PROVE RecordInv'
  <2>1. /\ stage[e] = "marking" /\ e \notin recording
        /\ stage' = [stage EXCEPT ![e] = "announcing"]
        /\ UNCHANGED <<recording, row, errors>>
    BY <1>5 DEF MarkAsConfirmed
  <2> QED
    BY <2>1 DEF RecordInv, ConfirmedIsAnnounced, Added, TypeInv, TypeOK
<1>6. ASSUME NEW e \in Entry, AnnounceDeposit(e) PROVE RecordInv'
  <2>1. /\ stage[e] = "announcing"
        /\ UNCHANGED <<recording, row, errors>>
        /\ \/ stage' = [stage EXCEPT ![e] = "announced"]
           \/ Hash(e) \notin row /\ stage' = [stage EXCEPT ![e] = "unrecorded"]
    BY <1>6 DEF AnnounceDeposit, tables
  <2>2. e \in Added /\ e \notin recording
    BY <2>1 DEF RecordInv, Added
  <2>3. Hash(e) \notin row => errors > 0
    BY <2>2 DEF RecordInv
  <2> QED
    BY <2>1, <2>3 DEF RecordInv, ConfirmedIsAnnounced, Added, TypeInv, TypeOK
<1>7. ASSUME NEW e \in Entry, HandlerFails(e) PROVE RecordInv'
  <2>1. /\ stage[e] \in Handling /\ errors' > 0
        /\ stage' = [stage EXCEPT ![e] = "error"]
        /\ UNCHANGED <<recording, row>>
    BY <1>0, <1>7 DEF HandlerFails, CallFails, tables
  <2> QED
    BY <2>1 DEF RecordInv, ConfirmedIsAnnounced, TypeInv, TypeOK
<1>8. ASSUME NEW t \in Transfer, TransferEvent(t) PROVE RecordInv'
  <2>1. /\ Added' = Added /\ UNCHANGED <<recording, row, errors>>
        /\ \A d \in Entry : stage'[d] \in {stage[d], "resolving"}
    BY <1>8, ArriveFacts DEF tables, TypeInv, TypeOK
  <2> QED
    BY <2>1 DEF RecordInv, ConfirmedIsAnnounced
<1>10. ASSUME NEW e \in Entry, ResolveFails(e) PROVE RecordInv'
  <2>1. /\ Added' = Added /\ UNCHANGED <<recording, row>> /\ errors' > 0
        /\ \A d \in Entry : stage'[d] \in {stage[d], "unresolved"}
    BY <1>0, <1>10, LossFacts DEF tables
  <2> QED
    BY <2>1 DEF RecordInv, ConfirmedIsAnnounced
<1>9. CASE \/ UNCHANGED vars
           \/ NewBlock \/ \E t \in Transfer : Mine(t) \/ Reorg(t)
           \/ \E e \in Entry : TimePasses(e)
           \/ \E c \in Cycle : CheckPendingTransactions(c)
  <2>1. UNCHANGED <<stage, recording, row, errors>>
    BY <1>9 DEF vars, NewBlock, Mine, Reorg, TimePasses, CheckPendingTransactions, service,
                tables
  <2> QED
    BY <2>1 DEF RecordInv, ConfirmedIsAnnounced, Added
<1> QED
  BY <1>1, <1>2, <1>3, <1>4, <1>5, <1>6, <1>7, <1>8, <1>9, <1>10 DEF Next

(* ConfirmedIsAnnounced: when a row is inserted before its transfer is confirmed, no *)
(* confirmed deposit goes unannounced unless a statement or a call has failed.       *)
THEOREM DeepIsAnnounced ==
  ASSUME RecordingIsQuick
  PROVE  Spec => []ConfirmedIsAnnounced
<1>1. Init => TypeInv /\ RecordInv
  <2>1. Init => RecordInv
    BY DEF Init, RecordInv, ConfirmedIsAnnounced, Added
  <2> QED
    BY <2>1, TypeInit
<1>2. TypeInv /\ RecordInv /\ [Next]_vars => TypeInv' /\ RecordInv'
  BY TypeInvariant, RecordInvariant
<1> QED
  BY <1>1, <1>2, PTL DEF Spec, RecordInv

-----------------------------------------------------------------------------
(* The abstract queue.                                                       *)

(* The entries a check has confirmed. *)
Confirmed == {e \in Entry : stage[e] \in Handling \cup {"announced", "unrecorded", "error"}}
(* The entries some cycle has a check of. *)
Checked == {e \in Entry : \E c \in Cycle : check[c][e].wants # "nothing"}

(* A transfer that is not crossed has one check at a time: the map is keyed by the hash, *)
(* and no two cycles have looked at it.                                                  *)
OneCheck ==
  \A c, d \in Cycle : \A e, x \in Entry :
    check[c][e].wants # "nothing" /\ check[d][x].wants # "nothing" /\ Hash(e) = Hash(x)
      => Hash(e) \in crossed \/ (c = d /\ e = x)

(* Nothing that is confirmed is still being checked, unless its transfer is crossed. *)
CheckedRest == \A e \in Checked \cap Confirmed : Hash(e) \in crossed

(* The stages are disjoint. *)
LEMMA StageSets ==
  ASSUME TypeInv, NEW e \in Entry
  PROVE  /\ e \in Confirmed => e \in Added /\ e \notin Waits /\ stage[e] \notin GivenUp
         /\ stage[e] = "resolving" => e \notin Waits /\ e \notin Added
         /\ \/ stage[e] \in {"none", "resolving", "unresolved"} \/ e \in Waits
            \/ stage[e] \in GivenUp \/ e \in Confirmed
BY DEF TypeInv, TypeOK, Stages, Confirmed, Added, Waits, Handling, GivenUp, Waiting

(* A transfer that two cycles have checked at once stays marked as such. *)
LEMMA CrossedGrows ==
  ASSUME [Next]_vars
  PROVE  crossed \subseteq crossed'
<1>1. CASE UNCHANGED vars
  BY <1>1 DEF vars
<1>2. CASE NewBlock \/ \E t \in Transfer : Mine(t) \/ Reorg(t) \/ TransferEvent(t)
  BY <1>2 DEF NewBlock, Mine, Reorg, TransferEvent
<1>3. ASSUME NEW e \in Entry,
             \/ ResolveFails(e) \/ AddPendingTransaction(e)
             \/ FindTransfer(e) \/ FindAddress(e) \/ InsertTransfer(e)
             \/ RecordingFails(e) \/ TimePasses(e)
             \/ MarkAsConfirmed(e) \/ AnnounceDeposit(e) \/ HandlerFails(e)
      PROVE  crossed' = crossed
  BY <1>3 DEF ResolveFails, AddPendingTransaction, AddTo, FindTransfer, FindAddress,
              InsertTransfer, RecordingFails, TimePasses, MarkAsConfirmed,
              AnnounceDeposit, HandlerFails
<1>4. ASSUME NEW c \in Cycle, CheckPendingTransactions(c) PROVE crossed \subseteq crossed'
  BY <1>4 DEF CheckPendingTransactions
<1>5. ASSUME NEW c \in Cycle, NEW e \in Entry, CheckStep(c, e) PROVE crossed' = crossed
  BY <1>5, CheckKeeps
<1> QED
  BY <1>1, <1>2, <1>3, <1>4, <1>5 DEF Next

(* OneCheck is preserved by every step: a cycle that begins checks what waits, and marks *)
(* as crossed what another cycle is still checking.                                      *)
LEMMA ChecksDiffer ==
  ASSUME TypeInv, OneCheck, [Next]_vars
  PROVE  OneCheck'
<1>0. check \in [Cycle -> [Entry -> CheckType]] /\ crossed \subseteq crossed'
  BY CrossedGrows DEF TypeInv, TypeOK, CheckType
<1>1. CASE check' = check
  BY <1>0, <1>1 DEF OneCheck
<1>2. ASSUME NEW c \in Cycle, CheckPendingTransactions(c) PROVE OneCheck'
  <2> DEFINE begun == [e \in Entry |-> IF e \in Waits THEN [Idle EXCEPT !.wants = "receipt"]
                                       ELSE Idle]
  <2>1. /\ check' = [check EXCEPT ![c] = begun]
        /\ crossed' = crossed \cup {Hash(e) : e \in {d \in Waits : HasCheck(Hash(d))}}
    BY <1>2 DEF CheckPendingTransactions
  <2>2. \A e \in Entry : begun[e].wants # "nothing" => e \in Waits
    BY DEF Idle
  <2>3. \A d, e \in Waits : Hash(d) = Hash(e) => d = e
    BY DEF TypeInv, TypeOK
  <2>4. \A b \in Cycle, e \in Entry :
          /\ b = c /\ check'[b][e].wants # "nothing" => e \in Waits
          /\ b # c => check'[b][e] = check[b][e]
    <3> HIDE DEF begun
    <3> QED
      BY <1>0, <2>1, <2>2
  <2>5. ASSUME NEW b \in Cycle, NEW x \in Entry, NEW e \in Waits, Hash(e) = Hash(x),
               check[b][x].wants # "nothing"
        PROVE  Hash(e) \in crossed'
    BY <2>1, <2>5 DEF HasCheck, Checking
  <2> HIDE DEF begun
  <2> SUFFICES ASSUME NEW a \in Cycle, NEW b \in Cycle, NEW e \in Entry, NEW x \in Entry,
                      check'[a][e].wants # "nothing", check'[b][x].wants # "nothing",
                      Hash(e) = Hash(x)
               PROVE  Hash(e) \in crossed' \/ (a = b /\ e = x)
    BY DEF OneCheck
  <2>6. CASE a = c /\ b = c
    BY <2>3, <2>4, <2>6
  <2>7. CASE a = c /\ b # c
    BY <2>4, <2>5, <2>7
  <2>8. CASE a # c /\ b = c
    <3>1. x \in Waits /\ check[a][e].wants # "nothing"
      BY <2>4, <2>8
    <3> QED
      BY <2>5, <3>1
  <2>9. CASE a # c /\ b # c
    BY <1>0, <2>4, <2>9 DEF OneCheck
  <2> QED
    BY <2>6, <2>7, <2>8, <2>9
<1>3. ASSUME NEW c \in Cycle, NEW e \in Entry, NEW x, check[c][e].wants # "nothing",
             check' = [check EXCEPT ![c][e] = x]
      PROVE  OneCheck'
  <2>1. \A b \in Cycle, d \in Entry :
          check'[b][d].wants # "nothing" => check[b][d].wants # "nothing"
    BY <1>0, <1>3
  <2> QED
    BY <1>0, <2>1 DEF OneCheck
<1> QED
  BY <1>1, <1>2, <1>3, CheckSteps DEF Checking, GetTransactionReceipt

(* Only what waits comes under a check. *)
LEMMA CheckedSteps ==
  ASSUME TypeInv, [Next]_vars
  PROVE  Checked' \subseteq Checked \cup Waits
<1>0. check \in [Cycle -> [Entry -> CheckType]]
  BY DEF TypeInv, TypeOK, CheckType
<1>1. CASE check' = check
  BY <1>1 DEF Checked
<1>2. ASSUME NEW c \in Cycle, CheckPendingTransactions(c)
      PROVE  Checked' \subseteq Checked \cup Waits
  <2> DEFINE begun == [e \in Entry |-> IF e \in Waits THEN [Idle EXCEPT !.wants = "receipt"]
                                       ELSE Idle]
  <2>1. check' = [check EXCEPT ![c] = begun]
    BY <1>2 DEF CheckPendingTransactions
  <2>2. \A e \in Entry : begun[e].wants # "nothing" => e \in Waits
    BY DEF Idle
  <2> HIDE DEF begun
  <2> QED
    BY <1>0, <2>1, <2>2 DEF Checked
<1>3. ASSUME NEW c \in Cycle, NEW e \in Entry, NEW x, check[c][e].wants # "nothing",
             check' = [check EXCEPT ![c][e] = x]
      PROVE  Checked' \subseteq Checked \cup Waits
  <2>1. \A d \in Entry, b \in Cycle : d # e => check'[b][d] = check[b][d]
    BY <1>0, <1>3
  <2> QED
    BY <1>3, <2>1 DEF Checked
<1> QED
  BY <1>1, <1>2, <1>3, CheckSteps DEF Checking, GetTransactionReceipt

(* An entry becomes confirmed by being marked, and stays so unless it is under a check. *)
LEMMA ConfirmedSteps ==
  ASSUME TypeInv, [Next]_vars, NEW d \in Entry
  PROVE  /\ d \in Confirmed' =>
              d \in Confirmed \/ (stage[d] # "marking" /\ stage'[d] = "marking")
         /\ d \in Confirmed \ Checked =>
              /\ d \in Confirmed'
              /\ stage[d] \notin Handling => stage'[d] = stage[d]
<1> USE DEF Confirmed
<1>1. CASE Resting
  BY <1>1 DEF Resting
<1>2. CASE \E t \in Transfer : TransferEvent(t)
  BY <1>2, ArriveFacts DEF TypeInv, TypeOK, Handling
<1>3. CASE \E e \in Entry : AddPendingTransaction(e)
  <2>1. \/ stage'[d] = stage[d]
        \/ stage[d] = "resolving" /\ stage'[d] = Waiting
        \/ d \in Waits /\ stage'[d] \in {"dropped", "replaced"}
    BY <1>3, AddStages
  <2> QED
    BY <2>1 DEF Waits, Handling, Waiting
<1>4. CASE \E e \in Entry : MarkAsConfirmed(e) \/ AnnounceDeposit(e) \/ HandlerFails(e)
  BY <1>4 DEF MarkAsConfirmed, AnnounceDeposit, HandlerFails, TypeInv, TypeOK, Handling
<1>5. CASE \E c \in Cycle, e \in Entry : CheckStep(c, e)
  BY <1>5, CheckStages, StageSets DEF GivenUp, Handling, Checked, Checking
<1>6. CASE \/ UNCHANGED vars
           \/ NewBlock \/ \E t \in Transfer : Mine(t) \/ Reorg(t)
           \/ \E e \in Entry : \/ FindTransfer(e) \/ FindAddress(e) \/ InsertTransfer(e)
                              \/ RecordingFails(e) \/ TimePasses(e)
           \/ \E c \in Cycle : CheckPendingTransactions(c)
  BY <1>6 DEF vars, service, NewBlock, Mine, Reorg, FindTransfer, FindAddress,
              InsertTransfer, RecordingFails, TimePasses, CheckPendingTransactions
<1>8. CASE \E e \in Entry : ResolveFails(e)
  BY <1>8, LossFacts DEF Handling
<1> QED
  BY <1>2, <1>3, <1>4, <1>5, <1>6, <1>8 DEF Next

(* The check that confirms an entry ends with it, and takes its hash out of the map. *)
LEMMA MarkedRests ==
  ASSUME OneCheck, TypeInv, [Next]_vars, NEW d \in Entry, Hash(d) \notin crossed,
         stage[d] # "marking", stage'[d] = "marking"
  PROVE  /\ d \in Checked /\ d \notin Checked' /\ UNCHANGED <<chain, scanner>>
         /\ \A x \in Entry : Hash(x) = Hash(d) => x \notin Waits'
         /\ \A c \in Cycle, x \in Entry : x # d => check'[c][x] = check[c][x]
<1>1. PICK c \in Cycle :
        /\ check[c][d].wants = "height"
        /\ CheckEnds(c, d, Delete(d), "marking")
        /\ UNCHANGED <<chain, scanner>>
  BY MarkFacts
<1>2. "marking" \in Stages /\ Delete(d) # {}
  BY DEF Stages, Handling, Delete
<1>3. /\ check' = [check EXCEPT ![c][d] = Idle]
      /\ stage'[d] = "marking"
      /\ \A x \in SameHash(d) : x # d => stage'[x] = "replaced"
      /\ \A x \in Entry \ Waits : x # d => stage'[x] = stage[x]
  BY <1>1, <1>2, EndFacts DEF TypeInv
<1>4. /\ check'[c][d] = Idle
      /\ \A b \in Cycle, x \in Entry : x # d => check'[b][x] = check[b][x]
  BY <1>3 DEF TypeInv, TypeOK
<1>5. d \in Checked /\ d \notin Checked'
  <2>1. \A b \in Cycle : b # c => check[b][d].wants = "nothing"
    BY <1>1 DEF OneCheck
  <2>2. \A b \in Cycle : b # c => check'[b][d] = check[b][d]
    BY <1>3 DEF TypeInv, TypeOK
  <2> QED
    BY <1>1, <1>4, <2>1, <2>2 DEF Checked, Idle
<1>6. ASSUME NEW x \in Entry, Hash(x) = Hash(d) PROVE x \notin Waits'
  BY <1>3, <1>6 DEF Waits, SameHash, Waiting
<1> QED
  BY <1>1, <1>4, <1>5, <1>6

(* CheckedRest is preserved by every step. *)
LEMMA RestInvariant ==
  ASSUME OneCheck, TypeInv, CheckedRest, [Next]_vars
  PROVE  CheckedRest'
<1> SUFFICES ASSUME NEW d \in Entry, d \in Checked', d \in Confirmed',
                    Hash(d) \notin crossed
             PROVE  FALSE
  BY CrossedGrows DEF CheckedRest, Checked
<1>1. CASE d \in Confirmed
  BY <1>1, CheckedSteps, StageSets DEF CheckedRest
<1>2. CASE d \notin Confirmed
  BY <1>2, ConfirmedSteps, MarkedRests
<1> QED
  BY <1>1, <1>2

(* Both hold at the start. *)
LEMMA RestInit == Init => OneCheck /\ CheckedRest
BY DEF Init, OneCheck, CheckedRest, Checked, Idle

(* The mapping of the stages, without the choice that CASE makes. *)
LEMMA PlaceFacts ==
  ASSUME NEW s \in Stages
  PROVE  /\ Place(s) = IF s \in {"none", "resolving", "unresolved"} THEN "unseen"
                       ELSE IF s = Waiting THEN "waiting"
                       ELSE IF s \in GivenUp THEN "abandoned" ELSE "confirmed"
<1>1. CASE s \in {"none", "resolving", "unresolved"}
  BY <1>1 DEF Place, Waiting, GivenUp
<1>2. CASE s = Waiting
  BY <1>2 DEF Place, Waiting, GivenUp
<1>3. CASE s \in GivenUp
  BY <1>3 DEF Place, Waiting, GivenUp
<1>4. CASE s \notin {"none", "resolving", "unresolved", Waiting} \cup GivenUp
  BY <1>4 DEF Place, Waiting, GivenUp
<1> QED
  BY <1>1, <1>2, <1>3, <1>4 DEF Waiting, GivenUp

(* The mapping is of each entry alone. *)
LEMMA PlacesOf ==
  ASSUME TypeInv, [Next]_vars, NEW d \in Entry
  PROVE  /\ stage[d] \in Stages /\ stage'[d] \in Stages
         /\ Places[d] = Place(stage[d]) /\ Places'[d] = Place(stage'[d])
         /\ stage[d] = stage'[d] => Places'[d] = Places[d]
BY StageKept DEF TypeInv, TypeOK, Places

(* Every step makes of an entry what the abstract queue allows, or leaves it alone. *)
LEMMA LeavesStep ==
  ASSUME TypeInv, CheckedRest, [Next]_vars, NEW d \in Entry, Hash(d) \notin crossed
  PROVE  Places'[d] = Places[d] \/ <<Places[d], Places'[d]>> \in Abstract!Moves
<1>0. /\ stage[d] \in Stages /\ stage'[d] \in Stages
      /\ Places[d] = Place(stage[d]) /\ Places'[d] = Place(stage'[d])
      /\ stage[d] = stage'[d] => Places'[d] = Places[d]
  BY PlacesOf
<1>1. d \in Waits => Places[d] = "waiting"
  BY <1>0, PlaceFacts DEF Waits, Waiting
<1>2. stage'[d] \in GivenUp => Places'[d] = "abandoned"
  BY <1>0, PlaceFacts DEF GivenUp, Waiting
<1>3. CASE Resting
  BY <1>0, <1>3 DEF Resting
<1>4. CASE \E t \in Transfer : TransferEvent(t)
  <2>1. stage'[d] = stage[d] \/ (stage[d] = "none" /\ stage'[d] = "resolving")
    BY <1>4, ArriveFacts DEF TypeInv, TypeOK
  <2> QED
    BY <1>0, <2>1, PlaceFacts
<1>5. CASE \E e \in Entry : ResolveFails(e)
  <2>1. stage'[d] = stage[d] \/ (stage[d] = "resolving" /\ stage'[d] = "unresolved")
    BY <1>5, LossFacts
  <2> QED
    BY <1>0, <2>1, PlaceFacts
<1>6. CASE \E e \in Entry : AddPendingTransaction(e)
  <2>1. \/ stage'[d] = stage[d]
        \/ stage[d] = "resolving" /\ stage'[d] = Waiting
        \/ d \in Waits /\ stage'[d] \in {"dropped", "replaced"}
    BY <1>6, AddStages
  <2>2. stage[d] = "resolving" /\ stage'[d] = Waiting =>
          Places[d] = "unseen" /\ Places'[d] = "waiting"
    BY <1>0, PlaceFacts DEF Waiting
  <2> QED
    BY <1>0, <1>1, <1>2, <2>1, <2>2 DEF GivenUp, Abstract!Moves
<1>7. CASE \E c \in Cycle, e \in Entry : CheckStep(c, e)
  <2>1. \/ stage'[d] = stage[d]
        \/ stage'[d] \in GivenUp \cup {"marking"} /\ (d \in Waits \/ d \in Checked)
    BY <1>7, CheckStages DEF Checked, Checking
  <2>2. stage'[d] = "marking" => Places'[d] = "confirmed"
    BY <1>0, PlaceFacts DEF GivenUp, Waiting
  <2>3. d \in Checked => d \in Waits \/ stage[d] \in GivenUp
    <3>1. d \in Checked => d \notin Confirmed /\ d \in Added
      BY DEF CheckedRest, Checked, TypeInv, WorkIsAdded, Checking
    <3> QED
      BY <3>1, StageSets DEF Added
  <2>4. stage[d] \in GivenUp => Places[d] = "abandoned"
    BY <1>0, PlaceFacts DEF GivenUp, Waiting
  <2> QED
    BY <1>0, <1>1, <1>2, <2>1, <2>2, <2>3, <2>4 DEF Abstract!Moves
<1>8. CASE \E e \in Entry : MarkAsConfirmed(e) \/ AnnounceDeposit(e) \/ HandlerFails(e)
  <2>1. \/ stage'[d] = stage[d]
        \/ {stage[d], stage'[d]} \subseteq Handling \cup {"announced", "unrecorded", "error"}
    BY <1>8 DEF MarkAsConfirmed, AnnounceDeposit, HandlerFails, TypeInv, TypeOK, Handling
  <2> QED
    BY <1>0, <2>1, PlaceFacts DEF Handling, GivenUp, Waiting
<1>9. CASE \/ UNCHANGED vars
           \/ NewBlock \/ \E t \in Transfer : Mine(t) \/ Reorg(t)
           \/ \E e \in Entry : \/ FindTransfer(e) \/ FindAddress(e) \/ InsertTransfer(e)
                              \/ RecordingFails(e) \/ TimePasses(e)
           \/ \E c \in Cycle : CheckPendingTransactions(c)
  BY <1>3, <1>9 DEF vars, service, NewBlock, Mine, Reorg, FindTransfer, FindAddress,
                    InsertTransfer, RecordingFails, TimePasses, CheckPendingTransactions,
                    Resting
<1> QED
  BY <1>4, <1>5, <1>6, <1>7, <1>8, <1>9 DEF Next

(* LeavesOnce: cycles may overlap, and still no entry is confirmed twice, comes back or  *)
(* is given up once it is confirmed, unless two of them have checked its transfer at once. *)
THEOREM QueueIsKept == Spec => LeavesOnce
<1>1. Init => TypeInv /\ OneCheck /\ CheckedRest
  BY TypeInit, RestInit
<1>2. TypeInv /\ OneCheck /\ CheckedRest /\ [Next]_vars =>
        TypeInv' /\ OneCheck' /\ CheckedRest'
  BY TypeInvariant, ChecksDiffer, RestInvariant
<1>3. TypeInv /\ OneCheck /\ CheckedRest /\ [Next]_vars =>
        [\A e \in Entry : Hash(e) \notin crossed' =>
           Places'[e] = Places[e] \/ <<Places[e], Places'[e]>> \in Abstract!Moves]_vars
  BY LeavesStep, CrossedGrows
<1> QED
  BY <1>1, <1>2, <1>3, PTL DEF Spec, LeavesOnce

-----------------------------------------------------------------------------
(* AnnouncedOnce.                                                            *)

(* What AnnouncedOnce speaks of. *)
Claimed(t) == t \notin crossed /\ ~FoundLate(t)

(* What the scanner has not found, or the handler not yet added, is young. *)
FreshInv ==
  /\ \A t \in Transfer : block[t] # 0 /\ t \notin reverted /\ found[t] # block[t] =>
       height - block[t] <= Safe
  /\ \A e \in Entry : stage[e] = "resolving" =>
       block[Hash(e)] = 0 \/ height - block[Hash(e)] <= Safe

(* The entries from which a confirmation may still come. *)
Unsettled == Checked \cup Waits \cup {e \in Entry : stage[e] = "resolving"}

(* Where the confirmed transaction is: deep in the block it was found in. *)
Deep(t) ==
  /\ block[t] # 0 /\ t \notin reverted /\ found[t] = block[t]
  /\ height - block[t] + 1 >= Confirmations

(* No entry of the same hash but e is confirmed or may get confirmed. *)
Alone(e) ==
  \A d \in Entry : Hash(d) = Hash(e) => d \notin Unsettled /\ (d \in Confirmed => d = e)

(* The heart of AnnouncedOnce: a confirmed entry is the only one of its hash, and stays  *)
(* so, either because its transaction is too deep to move or because it has not moved.   *)
Settled ==
  \A e \in Confirmed :
    Claimed(Hash(e)) => /\ Safe + 2 <= Confirmations => Deep(Hash(e))
                        /\ Alone(e)

(* A deposit that has been announced has an entry that says so. *)
AnnounceInv ==
  \A t \in Transfer : Claimed(t) =>
    \/ announced[t] = 0
    \/ announced[t] = 1 /\ \E e \in Entry : Hash(e) = t /\ stage[e] = "announced"

(* The inductive invariant behind AnnouncedOnce. *)
SettledInv ==
  TypeInv /\ LookInv /\ FreshInv /\ OneCheck /\ CheckedRest /\ Settled /\ AnnounceInv

(* A transfer is never claimed again; a claimed one that a step finds had not been found, *)
(* unless the scanner is fast.                                                            *)
LEMMA ClaimedSteps ==
  ASSUME TypeInv, [Next]_vars, NEW t \in Transfer, Claimed(t)'
  PROVE  /\ Claimed(t)
         /\ Safe + 2 <= Confirmations \/ times'[t] <= 1
<1>1. t \notin crossed
  BY CrossedGrows DEF Claimed
<1>2. times[t] \in Nat /\ times'[t] \in Nat /\ Safe \in Nat /\ Confirmations \in Nat
  BY TypeInvariant, ConfirmationTypes DEF TypeInv, TypeOK
<1>3. Safe + 2 <= Confirmations \/ times'[t] <= 1
  BY <1>2 DEF Claimed, FoundLate
<1>4. times[t] <= times'[t]
  <2>1. CASE UNCHANGED <<chain, scanner>> \/ NewBlock \/ \E x \in Transfer : Mine(x) \/ Reorg(x)
    BY <1>2, <2>1 DEF scanner, NewBlock, Mine, Reorg
  <2>2. ASSUME NEW x \in Transfer, TransferEvent(x) PROVE times[t] <= times'[t]
    <3>1. times' = [times EXCEPT ![x] = times[x] + 1]
      BY <2>2, ArriveFacts
    <3> QED
      BY <1>2, <3>1 DEF TypeInv, TypeOK
  <2> QED
    BY <2>1, <2>2, ChainSteps
<1> QED
  BY <1>1, <1>2, <1>3, <1>4 DEF Claimed, FoundLate

(* An entry is being resolved because the scanner has found it. *)
LEMMA ResolvingSteps ==
  ASSUME TypeInv, [Next]_vars, NEW e \in Entry, stage'[e] = "resolving"
  PROVE  \/ stage[e] = "resolving"
         \/ TransferEvent(Hash(e))
<1>1. ASSUME NEW t \in Transfer, TransferEvent(t), stage[e] # "resolving"
      PROVE  Hash(e) = t
  <2> DEFINE x == <<t, times[t] + 1>>
  <2>1. Hash(x) = t /\ stage' = [stage EXCEPT ![x] = "resolving"]
    BY <1>1, ArriveFacts
  <2> HIDE DEF x
  <2> QED
    BY <1>1, <2>1 DEF TypeInv, TypeOK
<1>2. CASE \E a \in Entry : AddPendingTransaction(a)
  BY <1>2, AddStages DEF Waiting
<1>3. CASE Resting \/ Leaving
  BY <1>3, RestingFacts, LeavingFacts
<1>4. CASE \E a \in Entry : ResolveFails(a)
  BY <1>4, LossFacts
<1> QED
  BY <1>1, <1>2, <1>3, <1>4, StageSteps

(* FreshInv is preserved by every step: no block is mined before the scanner and the *)
(* handler have caught up.                                                           *)
LEMMA FreshInvariant ==
  ASSUME DepthCoversReorgs, TypeInv, FreshInv, [Next]_vars
  PROVE  FreshInv'
<1>0. /\ height \in Nat \ {0} /\ Safe \in Nat /\ BlocksAreSlow
      /\ block \in [Transfer -> Nat] /\ found \in [Transfer -> Nat]
      /\ \A e \in Entry : Hash(e) \in Transfer
  BY ConfirmationTypes, EntryFacts DEF TypeInv, TypeOK, DepthCoversReorgs
<1>1. CASE UNCHANGED <<chain, scanner>>
  <2>1. \A e \in Entry : stage'[e] = "resolving" => stage[e] = "resolving"
    <3>1. ASSUME NEW t \in Transfer, TransferEvent(t) PROVE FALSE
      <4>1. found' = [found EXCEPT ![t] = block[t]] /\ found[t] # block[t]
        BY <3>1, ArriveFacts
      <4>2. found' = found
        BY <1>1 DEF scanner
      <4> QED
        BY <1>0, <4>1, <4>2
    <3> QED
      BY <1>0, <3>1, ResolvingSteps
  <2> QED
    BY <1>1, <2>1 DEF FreshInv, chain, scanner
<1>2. CASE NewBlock
  <2>1. /\ height' = height + 1 /\ UNCHANGED <<block, reverted, found, stage>>
        /\ \A t \in Transfer : ~Unseen(t)
        /\ \A e \in Entry : stage[e] # "resolving"
    BY <1>0, <1>2 DEF NewBlock, scanner, service
  <2>2. \A t \in Transfer : block[t] # 0 /\ t \notin reverted /\ found[t] # block[t] =>
          height + 1 - block[t] <= Safe
    BY <1>0, <2>1 DEF Unseen
  <2>3. \A e \in Entry : stage'[e] # "resolving"
    BY <2>1
  <2>4. \A t \in Transfer : block'[t] # 0 /\ t \notin reverted' /\ found'[t] # block'[t] =>
          height' - block'[t] <= Safe
    <3>1. height' = height + 1 /\ block' = block /\ reverted' = reverted /\ found' = found
      BY <2>1
    <3>2. ASSUME NEW t \in Transfer, block'[t] # 0, t \notin reverted',
                 found'[t] # block'[t]
          PROVE  height' - block'[t] <= Safe
      <4>1. block[t] # 0 /\ t \notin reverted /\ found[t] # block[t]
        BY <3>1, <3>2
      <4>2. height + 1 - block[t] <= Safe
        BY <2>2, <4>1
      <4>3. height' - block'[t] = height + 1 - block[t]
        BY <1>0, <3>1
      <4> QED
        BY <4>2, <4>3
    <3> QED
      BY <3>2
  <2> QED
    BY <2>3, <2>4 DEF FreshInv
<1>3. ASSUME NEW t \in Transfer, Mine(t) PROVE FreshInv'
  <2>1. /\ block' = [block EXCEPT ![t] = height] /\ UNCHANGED <<height, found, stage>>
        /\ reverted \subseteq reverted'
    BY <1>3 DEF Mine, scanner, service
  <2> QED
    BY <1>0, <2>1 DEF FreshInv
<1>4. ASSUME NEW t \in Transfer, Reorg(t) PROVE FreshInv'
  <2>1. block' = [block EXCEPT ![t] = 0] /\ UNCHANGED <<height, reverted, found, stage>>
    BY <1>4 DEF Reorg, scanner, service
  <2> QED
    BY <1>0, <2>1 DEF FreshInv
<1>5. ASSUME NEW t \in Transfer, TransferEvent(t) PROVE FreshInv'
  <2> DEFINE e == <<t, times[t] + 1>>
  <2>1. /\ e \in Entry /\ Hash(e) = t
        /\ stage' = [stage EXCEPT ![e] = "resolving"]
        /\ found' = [found EXCEPT ![t] = block[t]]
        /\ block[t] # 0 /\ t \notin reverted /\ found[t] # block[t]
        /\ UNCHANGED <<height, block, reverted>>
    BY <1>5, ArriveFacts DEF chain
  <2> HIDE DEF e
  <2>2. height - block[t] <= Safe
    BY <2>1 DEF FreshInv
  <2>3. \A d \in Entry : stage'[d] = "resolving" =>
          block[Hash(d)] = 0 \/ height - block[Hash(d)] <= Safe
    BY <2>1, <2>2 DEF FreshInv, TypeInv, TypeOK
  <2>4. \A x \in Transfer : block[x] # 0 /\ x \notin reverted /\ found'[x] # block[x] =>
          height - block[x] <= Safe
    BY <1>0, <2>1 DEF FreshInv
  <2> QED
    BY <2>1, <2>3, <2>4 DEF FreshInv
<1> QED
  BY <1>1, <1>2, <1>3, <1>4, <1>5, ChainSteps

(* Only a finding makes an entry unsettled. *)
LEMMA UnsettledSteps ==
  ASSUME TypeInv, [Next]_vars, NEW d \in Entry, d \in Unsettled', d \notin Unsettled
  PROVE  TransferEvent(Hash(d))
<1>1. d \notin Checked'
  BY CheckedSteps DEF Unsettled
<1>2. CASE stage'[d] = "resolving"
  BY <1>2, ResolvingSteps DEF Unsettled
<1>3. CASE d \in Waits'
  <2>1. stage'[d] = Waiting /\ stage[d] \notin {Waiting, "resolving"}
    BY <1>3 DEF Waits, Unsettled
  <2>2. CASE \E t \in Transfer : TransferEvent(t)
    BY <1>3, <2>2, ArriveFacts DEF Unsettled
  <2>3. CASE \E e \in Entry : AddPendingTransaction(e)
    BY <2>1, <2>3, AddStages DEF Waiting
  <2>4. CASE \E e \in Entry : ResolveFails(e)
    BY <1>3, <2>4, LossFacts DEF Unsettled
  <2> QED
    BY <1>3, <2>1, <2>2, <2>3, <2>4, StageSteps, RestingFacts, LeavingFacts DEF Unsettled
<1> QED
  BY <1>1, <1>2, <1>3 DEF Unsettled

(* What is confirmed is too deep to be replaced, and is not found again. *)
LEMMA SettledChain ==
  ASSUME DepthCoversReorgs, SettledInv, [Next]_vars, NEW e \in Confirmed,
         Claimed(Hash(e)), Safe + 2 <= Confirmations
  PROVE  /\ ~TransferEvent(Hash(e))
         /\ block'[Hash(e)] = block[Hash(e)] /\ found'[Hash(e)] = found[Hash(e)]
         /\ Hash(e) \notin reverted' /\ height' >= height
<1> DEFINE t == Hash(e)
<1>0. /\ height \in Nat /\ ReorgDepth \in Nat /\ Confirmations \in Nat
      /\ block \in [Transfer -> Nat] /\ found \in [Transfer -> Nat]
      /\ t \in Transfer /\ ReorgDepth + 2 <= Confirmations
      /\ block[t] # 0 /\ t \notin reverted /\ found[t] = block[t]
      /\ height - block[t] + 1 >= Confirmations
  BY ConfirmationTypes, EntryFacts
     DEF SettledInv, TypeInv, TypeOK, Settled, Deep, DepthCoversReorgs, Confirmed
<1> HIDE DEF t
<1>1. ~TransferEvent(t)
  BY <1>0 DEF TransferEvent, Unseen
<1>2. /\ block'[t] = block[t] /\ found'[t] = found[t]
      /\ t \notin reverted' /\ height' >= height
  <2>1. CASE UNCHANGED <<chain, scanner>>
    BY <1>0, <2>1 DEF chain, scanner
  <2>2. CASE NewBlock
    BY <1>0, <2>2 DEF NewBlock, scanner
  <2>3. ASSUME NEW x \in Transfer, Mine(x)
        PROVE  /\ block'[t] = block[t] /\ found'[t] = found[t]
               /\ t \notin reverted' /\ height' >= height
    BY <1>0, <2>3 DEF Mine, scanner
  <2>4. ASSUME NEW x \in Transfer, Reorg(x)
        PROVE  /\ block'[t] = block[t] /\ found'[t] = found[t]
               /\ t \notin reverted' /\ height' >= height
    <3>1. /\ block[x] > height - ReorgDepth /\ block' = [block EXCEPT ![x] = 0]
          /\ UNCHANGED <<height, reverted, found>>
      BY <2>4 DEF Reorg, scanner
    <3>2. x # t
      BY <1>0, <3>1
    <3> QED
      BY <1>0, <3>1, <3>2
  <2>5. ASSUME NEW x \in Transfer, TransferEvent(x)
        PROVE  /\ block'[t] = block[t] /\ found'[t] = found[t]
               /\ t \notin reverted' /\ height' >= height
    <3>1. /\ found' = [found EXCEPT ![x] = block[x]] /\ x # t
          /\ UNCHANGED <<height, block, reverted>>
      BY <1>1, <2>5 DEF TransferEvent, chain
    <3> QED
      BY <1>0, <3>1
  <2> QED
    BY <2>1, <2>2, <2>3, <2>4, <2>5, ChainSteps
<1> QED
  BY <1>1, <1>2 DEF t

(* A settled entry is not found again. *)
LEMMA SettledUnfound ==
  ASSUME DepthCoversReorgs, SettledInv, [Next]_vars, NEW e \in Confirmed,
         Claimed(Hash(e))'
  PROVE  ~TransferEvent(Hash(e))
<1>1. TypeInv /\ e \in Entry /\ Hash(e) \in Transfer
  BY EntryFacts DEF SettledInv, Confirmed
<1>2. Claimed(Hash(e)) /\ (Safe + 2 <= Confirmations \/ times'[Hash(e)] <= 1)
  BY <1>1, ClaimedSteps
<1>3. CASE Safe + 2 <= Confirmations
  BY <1>2, <1>3, SettledChain
<1>4. CASE times'[Hash(e)] <= 1
  <2>1. stage[e] # "none"
    BY DEF Confirmed, Handling
  <2>2. times[Hash(e)] \in Nat /\ times[Hash(e)] >= 1
    BY <1>1, <2>1, EntryFacts, ConfirmationTypes DEF TypeInv, TypeOK, FoundAreStaged
  <2>3. ASSUME TransferEvent(Hash(e)) PROVE FALSE
    <3>1. times' = [times EXCEPT ![Hash(e)] = times[Hash(e)] + 1]
      BY <1>1, <2>3, ArriveFacts
    <3>2. times'[Hash(e)] = times[Hash(e)] + 1
      BY <1>1, <3>1 DEF TypeInv, TypeOK
    <3> QED
      BY <1>4, <2>2, <3>2
  <2> QED
    BY <2>3
<1> QED
  BY <1>2, <1>3, <1>4

(* A settled entry stays settled. *)
LEMMA SettledStays ==
  ASSUME DepthCoversReorgs, SettledInv, [Next]_vars, NEW e \in Confirmed,
         Claimed(Hash(e))'
  PROVE  /\ Safe + 2 <= Confirmations => Deep(Hash(e))'
         /\ Alone(e)'
<1>0. /\ TypeInv /\ TypeInv' /\ Confirmed \subseteq Entry /\ e \in Entry
      /\ OneCheck /\ Hash(e) \in Transfer
  BY TypeInvariant, EntryFacts DEF SettledInv, Confirmed
<1>1. Claimed(Hash(e)) /\ Hash(e) \notin crossed
  BY <1>0, ClaimedSteps DEF Claimed
<1>2. /\ Safe + 2 <= Confirmations => Deep(Hash(e))
      /\ Alone(e)
  BY <1>1 DEF SettledInv, Settled
<1>3. ASSUME Safe + 2 <= Confirmations PROVE Deep(Hash(e))'
  <2>1. /\ height \in Nat /\ height' \in Nat /\ Confirmations \in Nat
        /\ block[Hash(e)] \in Nat
    BY <1>0, ConfirmationTypes DEF TypeInv, TypeOK
  <2>2. /\ block'[Hash(e)] = block[Hash(e)] /\ found'[Hash(e)] = found[Hash(e)]
        /\ Hash(e) \notin reverted' /\ height' >= height
    BY <1>1, <1>3, SettledChain
  <2>3. /\ block[Hash(e)] # 0 /\ found[Hash(e)] = block[Hash(e)]
        /\ height - block[Hash(e)] + 1 >= Confirmations
    BY <1>2, <1>3 DEF Deep
  <2>4. height' - block'[Hash(e)] + 1 >= Confirmations
    BY <2>1, <2>2, <2>3
  <2> QED
    BY <2>2, <2>3, <2>4 DEF Deep
<1>4. ASSUME NEW d \in Entry, Hash(d) = Hash(e)
      PROVE  d \notin Unsettled' /\ (d \in Confirmed' => d = e)
  <2>1. d \notin Unsettled /\ (d \in Confirmed => d = e)
    BY <1>2, <1>4 DEF Alone
  <2>2. d \notin Unsettled'
    BY <1>0, <1>4, <2>1, UnsettledSteps, SettledUnfound
  <2>3. ASSUME d \in Confirmed' PROVE d = e
    <3>1. d \in Confirmed \/ (stage[d] # "marking" /\ stage'[d] = "marking")
      BY <1>0, <2>3, ConfirmedSteps
    <3>2. d \notin Checked
      BY <2>1 DEF Unsettled
    <3> QED
      BY <1>0, <1>1, <1>4, <2>1, <3>1, <3>2, MarkedRests
  <2> QED
    BY <2>2, <2>3
<1> QED
  BY <1>3, <1>4 DEF Alone

(* The scanner has found, in the block it is in, what a check confirms. *)
LEMMA MarkedIsFound ==
  ASSUME DepthCoversReorgs, SettledInv, [Next]_vars, Safe + 2 <= Confirmations,
         NEW e \in Entry, stage[e] # "marking", stage'[e] = "marking"
  PROVE  /\ Deep(Hash(e))
         /\ \A d \in Entry : Hash(d) = Hash(e) => stage[d] # "resolving"
<1> DEFINE t == Hash(e)
<1>0. TypeInv /\ LookInv /\ FreshInv
  BY DEF SettledInv
<1>1. /\ height \in Nat /\ Safe \in Nat /\ Confirmations \in Nat
      /\ t \in Transfer /\ block[t] \in Nat
  BY <1>0, ConfirmationTypes, EntryFacts DEF TypeInv, TypeOK
<1>2. /\ block[t] # 0 /\ t \notin reverted /\ height - block[t] + 1 >= Confirmations
  BY <1>0, MarkedIsDeep
<1> HIDE DEF t
<1>3. ~(height - block[t] <= Safe)
  BY <1>1, <1>2
<1>4. found[t] = block[t]
  BY <1>0, <1>1, <1>2, <1>3 DEF FreshInv
<1>5. \A d \in Entry : Hash(d) = t => stage[d] # "resolving"
  BY <1>0, <1>2, <1>3 DEF FreshInv
<1> QED
  BY <1>2, <1>4, <1>5 DEF t, Deep

(* An entry is settled when its check confirms it. *)
LEMMA SettledBegins ==
  ASSUME DepthCoversReorgs, SettledInv, [Next]_vars, NEW e \in Entry,
         Claimed(Hash(e))', stage[e] # "marking", stage'[e] = "marking"
  PROVE  /\ Safe + 2 <= Confirmations => Deep(Hash(e))'
         /\ Alone(e)'
<1> DEFINE t == Hash(e)
<1>0. /\ TypeInv /\ TypeInv' /\ OneCheck /\ Settled /\ t \in Transfer
  BY TypeInvariant, EntryFacts DEF SettledInv
<1>1. Claimed(t) /\ t \notin crossed /\ (Safe + 2 <= Confirmations \/ times'[t] <= 1)
  BY <1>0, ClaimedSteps DEF Claimed
<1>3. /\ e \in Checked /\ e \notin Checked' /\ UNCHANGED <<chain, scanner>>
      /\ \A x \in Entry : Hash(x) = t => x \notin Waits'
      /\ \A c \in Cycle, x \in Entry : x # e => check'[c][x] = check[c][x]
  BY <1>0, <1>1, MarkedRests
<1>4. ASSUME Safe + 2 <= Confirmations PROVE Deep(t)'
  <2>1. Deep(t)
    BY <1>4, MarkedIsFound
  <2> QED
    BY <1>3, <2>1 DEF Deep, chain, scanner
<1> HIDE DEF t
<1>5. ASSUME NEW d \in Entry, Hash(d) = t
      PROVE  d \notin Unsettled' /\ (d \in Confirmed' => d = e)
  <2>1. stage'[d] # "resolving"
    <3>1. CASE Safe + 2 <= Confirmations
      <4>1. stage[d] # "resolving" /\ found[t] = block[t]
        BY <1>5, <3>1, MarkedIsFound DEF Deep, t
      <4>2. ~TransferEvent(t)
        BY <4>1 DEF TransferEvent, Unseen
      <4> QED
        BY <1>0, <1>5, <4>1, <4>2, ResolvingSteps
    <3>2. CASE times'[t] <= 1
      <4>1. stage'[e] # "none" /\ stage'[e] # "resolving"
        OBVIOUS
      <4>2. \A x \in Entry : Hash(x) = Hash(e) /\ stage'[x] # "none" => x = e
        <5>1. ASSUME NEW x \in Entry, Hash(x) = Hash(e), stage'[x] # "none" PROVE x = e
          <6>1. /\ times'[t] \in Nat /\ Round(x) \in Nat /\ Round(x) >= 1
                /\ Round(e) \in Nat /\ Round(e) >= 1
            BY <1>0, EntryFacts, ConfirmationTypes DEF TypeInv, TypeOK
          <6>2. ~(times'[t] < Round(x)) /\ ~(times'[t] < Round(e))
            BY <1>0, <4>1, <5>1 DEF TypeInv, FoundAreStaged, t
          <6>3. Round(x) = 1 /\ Round(e) = 1
            BY <3>2, <6>1, <6>2
          <6> QED
            BY <5>1, <6>3, EntryFacts
        <5> QED
          BY <5>1
      <4> QED
        BY <1>5, <4>1, <4>2 DEF t
    <3> QED
      BY <1>1, <3>1, <3>2
  <2>2. d \notin Checked'
    <3>1. CASE d = e
      BY <1>3, <3>1
    <3>2. CASE d # e
      <4>1. PICK c \in Cycle : check[c][e].wants # "nothing"
        BY <1>3 DEF Checked
      <4>2. \A b \in Cycle : check[b][d].wants = "nothing"
        BY <1>0, <1>1, <1>5, <3>2, <4>1 DEF OneCheck, t
      <4> QED
        BY <1>3, <3>2, <4>2 DEF Checked
    <3> QED
      BY <3>1, <3>2
  <2>3. d \notin Unsettled'
    BY <1>3, <1>5, <2>1, <2>2 DEF Unsettled
  <2>4. ASSUME d \in Confirmed' PROVE d = e
    <3>1. d \notin Confirmed
      BY <1>0, <1>1, <1>3, <1>5 DEF Settled, Alone, Unsettled, t
    <3>2. stage[d] # "marking" /\ stage'[d] = "marking"
      BY <1>0, <2>4, <3>1, ConfirmedSteps
    <3>3. d \in Checked /\ d \notin Checked'
      BY <1>0, <1>1, <1>5, <3>2, MarkedRests
    <3>4. CASE d # e
      BY <1>3, <3>3, <3>4 DEF Checked
    <3> QED
      BY <3>4
  <2> QED
    BY <2>3, <2>4
<1> QED
  BY <1>4, <1>5 DEF Alone, t

(* Settled is preserved by every step. *)
LEMMA SettledInvariant ==
  ASSUME DepthCoversReorgs, SettledInv, [Next]_vars
  PROVE  Settled'
<1>1. TypeInv
  BY DEF SettledInv
<1>2. \A e \in Confirmed' : e \in Entry /\
        (e \in Confirmed \/ (stage[e] # "marking" /\ stage'[e] = "marking"))
  <2>1. Confirmed' \subseteq Entry
    BY DEF Confirmed
  <2> QED
    BY <1>1, <2>1, ConfirmedSteps
<1>3. ASSUME NEW e \in Confirmed', Claimed(Hash(e))'
      PROVE  (Safe + 2 <= Confirmations => Deep(Hash(e))') /\ Alone(e)'
  <2>1. CASE e \in Confirmed
    BY <1>3, <2>1, SettledStays
  <2>2. CASE e \in Entry /\ stage[e] # "marking" /\ stage'[e] = "marking"
    BY <1>3, <2>2, SettledBegins
  <2> QED
    BY <1>2, <2>1, <2>2
<1> QED
  BY <1>3 DEF Settled

(* AnnounceInv is preserved by every step: a second announcement would need a second *)
(* confirmed entry.                                                                  *)
LEMMA AnnounceInvariant ==
  ASSUME DepthCoversReorgs, SettledInv, [Next]_vars
  PROVE  AnnounceInv'
<1>0. TypeInv /\ CheckedRest /\ Settled /\ AnnounceInv
  BY DEF SettledInv
<1>5. \A t \in Transfer : Claimed(t)' => Claimed(t) /\ t \notin crossed
  BY <1>0, ClaimedSteps DEF Claimed
<1>1. ASSUME NEW d \in Entry, stage[d] = "announced", Hash(d) \notin crossed
      PROVE  stage'[d] = "announced"
  <2>1. d \in Confirmed /\ stage[d] \notin Handling
    BY <1>1 DEF Confirmed, Handling
  <2>2. d \notin Checked
    BY <1>0, <1>1, <2>1 DEF CheckedRest
  <2> QED
    BY <1>0, <1>1, <2>1, <2>2, ConfirmedSteps
<1>2. CASE announced' = announced
  <2>1. ASSUME NEW t \in Transfer, Claimed(t)'
        PROVE  \/ announced'[t] = 0
               \/ announced'[t] = 1 /\ \E e \in Entry : Hash(e) = t /\ stage'[e] = "announced"
    <3>1. Claimed(t) /\ t \notin crossed
      BY <1>5, <2>1
    <3> QED
      BY <1>0, <1>1, <1>2, <3>1 DEF AnnounceInv
  <2> QED
    BY <2>1 DEF AnnounceInv
<1>3. ASSUME NEW e \in Entry, AnnounceDeposit(e), announced' # announced PROVE AnnounceInv'
  <2>1. /\ stage[e] = "announcing"
        /\ announced' = [announced EXCEPT ![Hash(e)] = @ + 1]
        /\ stage' = [stage EXCEPT ![e] = "announced"]
    BY <1>3 DEF AnnounceDeposit
  <2>2. e \in Confirmed /\ Hash(e) \in Transfer
    BY <2>1, EntryFacts DEF Confirmed, Handling
  <2>3. \A d \in Entry : stage[d] = "announced" => d \in Confirmed
    BY DEF Confirmed
  <2>4. Claimed(Hash(e)) => announced[Hash(e)] = 0
    <3>1. Claimed(Hash(e)) => Alone(e)
      BY <1>0, <2>2 DEF Settled
    <3> QED
      BY <1>0, <2>1, <2>2, <2>3, <3>1 DEF AnnounceInv, Alone
  <2>5. announced \in [Transfer -> Nat] /\ stage'[e] = "announced"
    BY <1>0, <2>1 DEF TypeInv, TypeOK
  <2>6. ASSUME NEW t \in Transfer, Claimed(t)'
        PROVE  \/ announced'[t] = 0
               \/ announced'[t] = 1 /\ \E x \in Entry : Hash(x) = t /\ stage'[x] = "announced"
    <3>1. Claimed(t) /\ t \notin crossed
      BY <1>5, <2>6
    <3>2. CASE t = Hash(e)
      BY <2>1, <2>2, <2>4, <2>5, <3>1, <3>2
    <3>3. CASE t # Hash(e)
      <4>1. announced'[t] = announced[t]
        BY <2>1, <2>5, <3>3
      <4> QED
        BY <1>0, <1>1, <3>1, <4>1 DEF AnnounceInv
    <3> QED
      BY <3>2, <3>3
  <2> QED
    BY <2>6 DEF AnnounceInv
<1>4. CASE ~\E e \in Entry : AnnounceDeposit(e)
  <2>1. announced' = announced
    <3>1. CASE UNCHANGED vars
      BY <3>1 DEF vars
    <3>2. CASE NewBlock \/ \E t \in Transfer : Mine(t) \/ Reorg(t) \/ TransferEvent(t)
      BY <3>2 DEF NewBlock, Mine, Reorg, TransferEvent
    <3>3. ASSUME NEW e \in Entry,
                 \/ ResolveFails(e) \/ AddPendingTransaction(e) \/ FindTransfer(e)
                 \/ FindAddress(e) \/ InsertTransfer(e) \/ RecordingFails(e)
                 \/ TimePasses(e) \/ MarkAsConfirmed(e) \/ HandlerFails(e)
          PROVE  announced' = announced
      BY <3>3 DEF ResolveFails, AddPendingTransaction, AddTo, FindTransfer, FindAddress,
                  InsertTransfer, RecordingFails, TimePasses, MarkAsConfirmed, HandlerFails
    <3>4. ASSUME NEW c \in Cycle,
                 CheckPendingTransactions(c) \/ \E e \in Entry : CheckStep(c, e)
          PROVE  announced' = announced
      BY <3>4, CheckKeeps DEF CheckPendingTransactions
    <3> QED
      BY <1>4, <3>1, <3>2, <3>3, <3>4 DEF Next
  <2> QED
    BY <1>2, <2>1
<1> QED
  BY <1>2, <1>3, <1>4

(* SettledInv holds at the start. *)
LEMMA SettledInit == Init => SettledInv
<1> SUFFICES ASSUME Init PROVE SettledInv
  OBVIOUS
<1>1. TypeInv /\ LookInv /\ OneCheck /\ CheckedRest
  BY TypeInit, LookInit, RestInit
<1>2. FreshInv /\ AnnounceInv
  BY EntryFacts DEF Init, FreshInv, AnnounceInv
<1>3. Confirmed = {}
  BY DEF Init, Confirmed, Handling
<1>4. Settled
  BY <1>3 DEF Settled
<1> QED
  BY <1>1, <1>2, <1>4 DEF SettledInv

(* AnnouncedOnce: a deposit is announced once, although its transfer may be found again *)
(* in another block, be replaced in the map, be confirmed by a check that began before,  *)
(* and cycles may overlap. What it excepts is in AnnouncedOnce itself.                   *)
THEOREM OneAnnouncement ==
  ASSUME DepthCoversReorgs
  PROVE  Spec => []AnnouncedOnce
<1>1. SettledInv /\ [Next]_vars => SettledInv'
  <2> SUFFICES ASSUME SettledInv, [Next]_vars PROVE SettledInv'
    OBVIOUS
  <2>1. TypeInv /\ LookInv /\ FreshInv /\ OneCheck /\ CheckedRest
    BY DEF SettledInv
  <2>2. TypeInv' /\ LookInv' /\ FreshInv' /\ OneCheck' /\ CheckedRest'
    BY <2>1, TypeInvariant, LookInvariant, FreshInvariant, ChecksDiffer, RestInvariant
  <2>3. Settled' /\ AnnounceInv'
    BY SettledInvariant, AnnounceInvariant
  <2> QED
    BY <2>2, <2>3 DEF SettledInv
<1>2. SettledInv => AnnouncedOnce
  <2> SUFFICES ASSUME SettledInv, NEW t \in Transfer, Claimed(t) PROVE announced[t] <= 1
    BY DEF AnnouncedOnce, Claimed
  <2>1. announced[t] = 0 \/ announced[t] = 1
    BY DEF SettledInv, AnnounceInv
  <2> QED
    BY <2>1
<1> QED
  BY <1>1, <1>2, SettledInit, PTL DEF Spec

================================================================================
