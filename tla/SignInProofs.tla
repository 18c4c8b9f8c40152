----------------------------- MODULE SignInProofs -----------------------------
(***************************************************************************)
(* Theorems about PhoneCodes and Accounts, for every number of phones,     *)
(* codes, links, browsers, pages and requests in flight.                   *)
(***************************************************************************)
EXTENDS Accounts, PhoneCodes, FiniteSetTheorems, TLAPS

-----------------------------------------------------------------------------
(* Counting.  Rows and the requests about to insert one are bounded        *)
(* together; the three ways in which a step changes them.                  *)

LEMMA BoundShrinks ==
  ASSUME NEW rows, NEW calls, NEW rows2, NEW calls2, NEW n \in Nat,
         IsFiniteSet(rows), IsFiniteSet(calls), rows2 \subseteq rows, calls2 \subseteq calls,
         Cardinality(rows) + Cardinality(calls) <= n
  PROVE  Cardinality(rows2) + Cardinality(calls2) <= n
<1>1. /\ IsFiniteSet(rows2) /\ Cardinality(rows2) <= Cardinality(rows)
      /\ IsFiniteSet(calls2) /\ Cardinality(calls2) <= Cardinality(calls)
  BY FS_Subset
<1>2. /\ Cardinality(rows) \in Nat /\ Cardinality(rows2) \in Nat
      /\ Cardinality(calls) \in Nat /\ Cardinality(calls2) \in Nat
  BY <1>1, FS_CardinalityType
<1> QED BY <1>1, <1>2

(* All rows are gone. *)
LEMMA BoundAfterDelete ==
  ASSUME NEW rows2, NEW calls2, NEW all, IsFiniteSet(all), rows2 = {}, calls2 \subseteq all
  PROVE  Cardinality(rows2) + Cardinality(calls2) <= Cardinality(all)
<1>1. Cardinality(rows2) = 0
  BY FS_EmptySet
<1>2. IsFiniteSet(calls2) /\ Cardinality(calls2) <= Cardinality(all)
  BY FS_Subset
<1>3. Cardinality(calls2) \in Nat /\ Cardinality(all) \in Nat
  BY <1>2, FS_CardinalityType
<1> QED BY <1>1, <1>2, <1>3

(* A request becomes a row. *)
LEMMA BoundMoves ==
  ASSUME NEW rows, NEW calls, NEW rows2, NEW calls2, NEW n \in Nat, NEW row, NEW c \in calls,
         IsFiniteSet(rows), IsFiniteSet(calls),
         rows2 \subseteq rows \cup {row}, calls2 \subseteq calls \ {c},
         Cardinality(rows) + Cardinality(calls) <= n
  PROVE  Cardinality(rows2) + Cardinality(calls2) <= n
<1>1. /\ IsFiniteSet(calls \ {c})
      /\ Cardinality(calls \ {c}) = Cardinality(calls) - 1
  BY FS_RemoveElement
<1>2. /\ IsFiniteSet(rows \cup {row})
      /\ Cardinality(rows \cup {row}) \in {Cardinality(rows), Cardinality(rows) + 1}
  BY FS_AddElement
<1>3. /\ IsFiniteSet(rows2) /\ Cardinality(rows2) <= Cardinality(rows \cup {row})
      /\ IsFiniteSet(calls2) /\ Cardinality(calls2) <= Cardinality(calls \ {c})
  BY <1>1, <1>2, FS_Subset
<1>4. /\ Cardinality(rows) \in Nat /\ Cardinality(rows2) \in Nat
      /\ Cardinality(calls) \in Nat /\ Cardinality(calls2) \in Nat
  BY <1>3, FS_CardinalityType
<1> QED BY <1>1, <1>2, <1>3, <1>4

-----------------------------------------------------------------------------
(* PhoneCodes: types. *)

LEMMA CodesInitTypes == CodesInit => CodesTypeOK
BY PhoneCodesAssumption
   DEF CodesInit, At, CodesTypeOK, NoCode, NoCodeCall, Code, CodeCall, Types

CodesTyped == codes \in [Codes -> Code]
CodeCallsTyped ==
  /\ codeCall \in [CodeCalls -> CodeCall]
  /\ \A c \in CodeCalls :
       /\ ~At(c, "idle") => codeCall[c].phone \in Numbers
       /\ codeCall[c].pc \in {"send", "delete_code", "increment", "mark"} => codeCall[c].code \in Codes

(* A call goes on, with a row if it needs one, or ends. *)
LEMMA CodeCallSteps ==
  ASSUME CodeCallsTyped, NEW c \in CodeCalls, ~At(c, "idle")
  PROVE  /\ EndCode(c) => CodeCallsTyped'
         /\ \A pc \in {"delete_old", "create"} : GotoCode(c, pc) => CodeCallsTyped'
         /\ \A pc \in {"send", "delete_code", "increment", "mark"}, k \in Codes :
              GotoWith(c, pc, k) => CodeCallsTyped'
<1>1. EndCode(c) => CodeCallsTyped'
  BY DEF EndCode, NoCodeCall, At, CodeCallsTyped, CodeCall, Types
<1>2. \A pc \in {"delete_old", "create"} : GotoCode(c, pc) => CodeCallsTyped'
  BY DEF GotoCode, At, CodeCallsTyped, CodeCall
<1>3. ASSUME NEW pc \in {"send", "delete_code", "increment", "mark"}, NEW k \in Codes, GotoWith(c, pc, k)
      PROVE  CodeCallsTyped'
  <2>1. /\ codeCall' \in [CodeCalls -> CodeCall]
        /\ codeCall'[c].pc = pc /\ codeCall'[c].code = k /\ codeCall'[c].phone = codeCall[c].phone
    BY <1>3 DEF GotoWith, CodeCallsTyped, CodeCall
  <2>2. \A d \in CodeCalls \ {c} : codeCall'[d] = codeCall[d]
    BY <1>3 DEF GotoWith, CodeCallsTyped
  <2> QED BY <2>1, <2>2 DEF At, CodeCallsTyped
<1> QED BY <1>1, <1>2, <1>3

LEMMA DeletedIsCode == DeletedCode \in Code /\ DeletedCode.state = "deleted" /\ DeletedCode.attempts = 0
BY DEF DeletedCode, NoCode, Code, Types

(* A row is changed. *)
LEMMA CodeChanges ==
  ASSUME CodesTyped, NEW k \in Codes, codes[k].state = "stored"
  PROVE  /\ codes' = [codes EXCEPT ![k].attempts = @ + 1] => CodesTyped'
         /\ codes' = [codes EXCEPT ![k].verified = TRUE] => CodesTyped'
<1>1. codes[k] \in Code /\ codes[k].attempts \in Nat
  BY DEF CodesTyped, Code
<1>2. PICK n \in Nat : n = codes[k].attempts + 1
  BY <1>1
<1>3. [codes[k] EXCEPT !.attempts = n] \in Code /\ [codes[k] EXCEPT !.verified = TRUE] \in Code
  BY <1>1 DEF Code
<1>4. codes' = [codes EXCEPT ![k].attempts = @ + 1] => CodesTyped'
  BY <1>2, <1>3 DEF CodesTyped
<1>5. codes' = [codes EXCEPT ![k].verified = TRUE] => CodesTyped'
  BY <1>3 DEF CodesTyped
<1> QED BY <1>4, <1>5

LEMMA CodesNextTypes ==
  ASSUME CodesTypeOK, [CodesNext]_codesVars
  PROVE  CodesTypeOK'
<1>0. /\ CodesTyped /\ CodeCallsTyped
      /\ now \in Nat /\ accounts \subseteq Numbers /\ sms \subseteq Codes
  BY DEF CodesTypeOK, CodesTyped, CodeCallsTyped
<1>a. UNCHANGED codes => CodesTyped'
  BY <1>0 DEF CodesTyped
<1>b. UNCHANGED codeCall => CodeCallsTyped'
  BY <1>0 DEF CodeCallsTyped, At
<1>c. ASSUME CodesTyped', CodeCallsTyped',
             now' \in Nat, accounts' \subseteq Numbers, sms' \subseteq Codes
      PROVE  CodesTypeOK'
  BY <1>c DEF CodesTypeOK, CodesTyped, CodeCallsTyped
<1>1. ASSUME NEW c \in CodeCalls, NEW p \in Numbers, NEW t \in Types, SendOtp(c, p, t)
      PROVE  CodesTypeOK'
  <2>1. CodeCallsTyped'
    BY <1>0, <1>1 DEF SendOtp, At, CodeCallsTyped, CodeCall, NoCodeCall
  <2> QED BY <1>0, <1>1, <1>a, <1>c, <2>1 DEF SendOtp
<1>2. ASSUME NEW c \in CodeCalls, NEW p \in Numbers, NEW t \in Types, NEW typed \in Typeable,
             VerifyOtp(c, p, t, typed)
      PROVE  CodesTypeOK'
  <2>1. typed \in Codes \cup {Unknown}
    BY <1>0 DEF Typeable
  <2>2. CodeCallsTyped'
    BY <1>0, <1>2, <2>1 DEF VerifyOtp, At, CodeCallsTyped, CodeCall, NoCodeCall
  <2> QED BY <1>0, <1>2, <1>a, <1>c, <2>2 DEF VerifyOtp
<1>3. ASSUME NEW c \in CodeCalls, FindRecent(c)
      PROVE  CodesTypeOK'
  BY <1>0, <1>3, <1>a, <1>c, CodeCallSteps DEF FindRecent, At
<1>4. ASSUME NEW c \in CodeCalls, DeleteOld(c)
      PROVE  CodesTypeOK'
  <2>1. CodesTyped'
    BY <1>0, <1>4, DeletedIsCode DEF DeleteOld, CodesTyped
  <2> QED BY <1>0, <1>4, <1>c, <2>1, CodeCallSteps DEF DeleteOld, At
<1>5. ASSUME NEW c \in CodeCalls, CreateCode(c)
      PROVE  CodesTypeOK'
  <2>1. codeCall[c].phone \in Numbers \cup {Unknown} /\ codeCall[c].type \in Types
    BY <1>0 DEF CodeCallsTyped, CodeCall
  <2>2. PICK k \in Codes :
          /\ codes' = [codes EXCEPT ![k] =
               [state |-> "stored", phone |-> codeCall[c].phone, type |-> codeCall[c].type, attempts |-> 0,
                verified |-> FALSE, created |-> now, expires |-> now + Expiry]]
          /\ GotoWith(c, "send", k)
    BY <1>5 DEF CreateCode
  <2>3. now + Expiry \in Nat
    BY <1>0, PhoneCodesAssumption
  <2>4. CodesTyped'
    BY <1>0, <2>1, <2>2, <2>3 DEF CodesTyped, Code
  <2> QED BY <1>0, <1>5, <1>c, <2>2, <2>4, CodeCallSteps DEF CreateCode, At
<1>6. ASSUME NEW c \in CodeCalls, SendSms(c)
      PROVE  CodesTypeOK'
  <2>1. codeCall[c].code \in Codes
    BY <1>0, <1>6 DEF SendSms, At, CodeCallsTyped
  <2> QED BY <1>0, <1>6, <1>a, <1>c, <2>1, CodeCallSteps DEF SendSms, At
<1>7. ASSUME NEW c \in CodeCalls, FindCode(c)
      PROVE  CodesTypeOK'
  <2>1. CodeCallsTyped'
    BY <1>0, <1>7, CodeCallSteps DEF FindCode, StoredCodes, At
  <2> QED BY <1>0, <1>7, <1>a, <1>c, <2>1 DEF FindCode
<1>8. ASSUME NEW c \in CodeCalls, DeleteCode(c)
      PROVE  CodesTypeOK'
  <2>1. CodesTyped'
    BY <1>0, <1>8, DeletedIsCode DEF DeleteCode, CodesTyped
  <2> QED BY <1>0, <1>8, <1>c, <2>1, CodeCallSteps DEF DeleteCode, At
<1>9. ASSUME NEW c \in CodeCalls, Increment(c)
      PROVE  CodesTypeOK'
  <2>1. codeCall[c].code \in Codes
    BY <1>0, <1>9 DEF Increment, At, CodeCallsTyped
  <2>2. CASE codes[codeCall[c].code].state = "stored"
    <3>1. CodesTyped'
      BY <1>0, <1>9, <2>1, <2>2, CodeChanges DEF Increment
    <3> QED BY <1>0, <1>9, <1>c, <3>1, CodeCallSteps DEF Increment, At
  <2>3. CASE codes[codeCall[c].code].state # "stored"
    BY <1>0, <1>9, <1>a, <1>c, <2>3, CodeCallSteps DEF Increment, At
  <2> QED BY <2>2, <2>3
<1>10. ASSUME NEW c \in CodeCalls, MarkVerified(c)
       PROVE  CodesTypeOK'
  <2>1. codeCall[c].code \in Codes
    BY <1>0, <1>10 DEF MarkVerified, At, CodeCallsTyped
  <2>2. CASE codes[codeCall[c].code].state = "stored"
    <3>1. CodesTyped'
      BY <1>0, <1>10, <2>1, <2>2, CodeChanges DEF MarkVerified
    <3> QED BY <1>0, <1>10, <1>c, <3>1, CodeCallSteps DEF MarkVerified, At
  <2>3. CASE codes[codeCall[c].code].state # "stored"
    BY <1>0, <1>10, <1>a, <1>c, <2>3, CodeCallSteps DEF MarkVerified, At
  <2> QED BY <2>2, <2>3
<1>12. ASSUME NEW c \in CodeCalls, CodeCallFails(c)
       PROVE  CodesTypeOK'
  BY <1>0, <1>12, <1>a, <1>c, CodeCallSteps DEF CodeCallFails, At
<1>13. ASSUME NEW p \in Numbers, AccountChanges(p)
       PROVE  CodesTypeOK'
  BY <1>0, <1>13, <1>a, <1>b, <1>c DEF AccountChanges
<1>14. CASE Tick
  BY <1>0, <1>14, <1>a, <1>b, <1>c DEF Tick
<1>15. CASE UNCHANGED codesVars
  BY <1>0, <1>15, <1>a, <1>b, <1>c DEF codesVars
<1> QED BY <1>1, <1>2, <1>3, <1>4, <1>5, <1>6, <1>7, <1>8, <1>9, <1>10, <1>12, <1>13, <1>14, <1>15
        DEF CodesNext

(* Codes, messages and requests keep their shape. *)
THEOREM CodesTypeCorrect == CodesSpec => []CodesTypeOK
BY CodesInitTypes, CodesNextTypes, PTL DEF CodesSpec

-----------------------------------------------------------------------------
(* PhoneCodes: how many codes there are, and how often one may be tried.   *)
(* What the steps change, as far as counting goes.                         *)
Creates(c, p, t) == At(c, "create") /\ codeCall[c].phone = p /\ codeCall[c].type = t
Tries(c, k) == At(c, "increment") /\ codeCall[c].code = k

CodesInv == CodesTypeOK /\ CodesBounded /\ AttemptsBounded

LEMMA SetsOfCalls ==
  /\ IsFiniteSet(CodeCalls) /\ IsFiniteSet(Codes) /\ Cardinality(CodeCalls) \in Nat /\ Cardinality(CodeCalls) >= 1
  /\ \A p, t : IsFiniteSet(StoredCodes(p, t)) /\ IsFiniteSet(Creating(p, t))
  /\ \A p, t : IsFiniteSet(StoredCodes(p, t)') /\ IsFiniteSet(Creating(p, t)')
  /\ \A k : /\ IsFiniteSet(Incrementing(k)) /\ Cardinality(Incrementing(k)) \in Nat
            /\ IsFiniteSet(Incrementing(k)') /\ Cardinality(Incrementing(k)') \in Nat
            /\ Cardinality(Incrementing(k)') <= Cardinality(CodeCalls)
<1>1. IsFiniteSet(CodeCalls) /\ IsFiniteSet(Codes) /\ CodeCalls # {}
  BY PhoneCodesAssumption
<1>2. Cardinality(CodeCalls) \in Nat /\ Cardinality(CodeCalls) # 0
  BY <1>1, FS_CardinalityType, FS_EmptySet
<1>3. \A p, t : /\ StoredCodes(p, t) \subseteq Codes /\ Creating(p, t) \subseteq CodeCalls
                /\ StoredCodes(p, t)' \subseteq Codes /\ Creating(p, t)' \subseteq CodeCalls
  BY DEF StoredCodes, Creating
<1>4. \A k : Incrementing(k) \subseteq CodeCalls /\ Incrementing(k)' \subseteq CodeCalls
  BY DEF Incrementing
<1>5. \A p, t : IsFiniteSet(StoredCodes(p, t)) /\ IsFiniteSet(Creating(p, t))
  BY <1>1, <1>3, FS_Subset
<1>6. \A p, t : IsFiniteSet(StoredCodes(p, t)') /\ IsFiniteSet(Creating(p, t)')
  BY <1>1, <1>3, FS_Subset
<1>7. \A k : IsFiniteSet(Incrementing(k)) /\ IsFiniteSet(Incrementing(k)')
             /\ Cardinality(Incrementing(k)') <= Cardinality(CodeCalls)
  BY <1>1, <1>4, FS_Subset
<1>8. \A k : Cardinality(Incrementing(k)) \in Nat /\ Cardinality(Incrementing(k)') \in Nat
  BY <1>7, FS_CardinalityType
<1> QED BY <1>1, <1>2, <1>5, <1>6, <1>7, <1>8

(* The attempts of a code do not grow and nobody begins to count another.  *)
LEMMA AttemptsShrink ==
  ASSUME CodesInv, NEW k \in Codes, codes'[k].attempts \in {0, codes[k].attempts},
         \A c \in CodeCalls : Tries(c, k)' => Tries(c, k)
  PROVE  codes'[k].attempts + Cardinality(Incrementing(k)') <= MaxAttempts + Cardinality(CodeCalls) - 1
<1>1. PICK n \in Nat : n = codes[k].attempts
  BY DEF CodesInv, CodesTypeOK, Code
<1>2. n + Cardinality(Incrementing(k)) <= MaxAttempts + Cardinality(CodeCalls) - 1
  BY <1>1 DEF CodesInv, AttemptsBounded
<1>3. Incrementing(k)' \subseteq Incrementing(k)
  BY DEF Incrementing, Tries
<1>4. Cardinality(Incrementing(k)') <= Cardinality(Incrementing(k))
  BY <1>3, SetsOfCalls, FS_Subset
<1>5. MaxAttempts \in Nat
  BY PhoneCodesAssumption
<1>6. PICK m \in Nat : m = codes'[k].attempts /\ m <= n
  BY <1>1
<1> QED BY <1>2, <1>4, <1>5, <1>6, SetsOfCalls

(* No code is stored and nobody goes on to store one.                      *)
LEMMA CountsShrink ==
  ASSUME CodesInv,
         \A k \in Codes : /\ codes'[k].attempts \in {0, codes[k].attempts}
                          /\ codes'[k].state = "stored" =>
                               /\ codes[k].state = "stored" /\ codes'[k].phone = codes[k].phone
                               /\ codes'[k].type = codes[k].type,
         \A c \in CodeCalls : At(c, "create")' \/ At(c, "increment")' => codeCall'[c] = codeCall[c]
  PROVE  CodesBounded' /\ AttemptsBounded'
<1>1. ASSUME NEW p \in Numbers, NEW t \in Types
      PROVE  Cardinality(StoredCodes(p, t)') + Cardinality(Creating(p, t)') <= Cardinality(CodeCalls)
  <2>1. StoredCodes(p, t)' \subseteq StoredCodes(p, t)
    BY DEF StoredCodes
  <2>2. Creating(p, t)' \subseteq Creating(p, t)
    BY DEF Creating, At
  <2>3. Cardinality(StoredCodes(p, t)) + Cardinality(Creating(p, t)) <= Cardinality(CodeCalls)
    BY DEF CodesInv, CodesBounded
  <2> QED BY <2>1, <2>2, <2>3, SetsOfCalls, BoundShrinks
<1>2. \A k \in Codes : codes'[k].attempts + Cardinality(Incrementing(k)') <= MaxAttempts + Cardinality(CodeCalls) - 1
  BY AttemptsShrink DEF Tries, At
<1> QED BY <1>1, <1>2 DEF CodesBounded, AttemptsBounded

LEMMA CodesInitial == CodesInit => CodesInv
<1> SUFFICES ASSUME CodesInit PROVE CodesInv
  OBVIOUS
<1>1. /\ \A k \in Codes : codes[k].state = "none" /\ codes[k].attempts = 0
      /\ \A c \in CodeCalls : codeCall[c].pc = "idle"
  BY DEF CodesInit, NoCode, NoCodeCall
<1>2. \A p, t : StoredCodes(p, t) = {} /\ Creating(p, t) = {}
  BY <1>1 DEF StoredCodes, Creating, At
<1>3. \A k : Incrementing(k) = {}
  BY <1>1 DEF Incrementing, At
<1>4. Cardinality({}) = 0 /\ MaxAttempts \in Nat
  BY FS_EmptySet, PhoneCodesAssumption
<1>5. CodesBounded
  BY <1>2, <1>4, SetsOfCalls DEF CodesBounded
<1>6. AttemptsBounded
  <2>1. 0 + Cardinality({}) <= MaxAttempts + Cardinality(CodeCalls) - 1
    BY <1>4, SetsOfCalls
  <2>2. \A k \in Codes : codes[k].attempts = 0 /\ Incrementing(k) = {}
    BY <1>1, <1>3
  <2> QED BY <2>1, <2>2 DEF AttemptsBounded
<1> QED BY <1>5, <1>6, CodesInitTypes DEF CodesInv

(* How a call leaves its step. *)
LEMMA CallsMove ==
  ASSUME CodesTypeOK, NEW c \in CodeCalls
  PROVE  /\ EndCode(c) => codeCall'[c].pc = "idle" /\ \A d \in CodeCalls \ {c} : codeCall'[d] = codeCall[d]
         /\ \A pc : GotoCode(c, pc) =>
              /\ codeCall'[c].pc = pc /\ codeCall'[c].phone = codeCall[c].phone /\ codeCall'[c].type = codeCall[c].type
              /\ \A d \in CodeCalls \ {c} : codeCall'[d] = codeCall[d]
         /\ \A pc, k : GotoWith(c, pc, k) =>
              /\ codeCall'[c].pc = pc /\ codeCall'[c].code = k
              /\ \A d \in CodeCalls \ {c} : codeCall'[d] = codeCall[d]
BY DEF EndCode, GotoCode, GotoWith, NoCodeCall, CodesTypeOK, CodeCall

LEMMA QuietCalls ==
  ASSUME CodesInv, NEW c \in CodeCalls,
         \/ \E p \in Numbers, t \in Types : SendOtp(c, p, t)
         \/ \E p \in Numbers, t \in Types, typed \in Typeable : VerifyOtp(c, p, t, typed)
         \/ FindRecent(c) \/ SendSms(c) \/ DeleteCode(c) \/ MarkVerified(c) \/ CodeCallFails(c)
  PROVE  CodesBounded' /\ AttemptsBounded'
<1>0. /\ CodesTypeOK /\ codes \in [Codes -> Code] /\ codeCall \in [CodeCalls -> CodeCall]
  BY DEF CodesInv, CodesTypeOK
<1>1. ASSUME NEW pc \in {"idle", "find_recent", "find_code", "delete_old"}, codeCall'[c].pc = pc,
             \A d \in CodeCalls \ {c} : codeCall'[d] = codeCall[d],
             \A k \in Codes : /\ codes'[k].attempts \in {0, codes[k].attempts}
                              /\ codes'[k].state = "stored" =>
                                   /\ codes[k].state = "stored" /\ codes'[k].phone = codes[k].phone
                                   /\ codes'[k].type = codes[k].type
      PROVE  CodesBounded' /\ AttemptsBounded'
  BY <1>1, CountsShrink DEF At
<1>2. CASE (\E p \in Numbers, t \in Types : SendOtp(c, p, t))
           \/ \E p \in Numbers, t \in Types, typed \in Typeable : VerifyOtp(c, p, t, typed)
  <2>1. /\ codeCall'[c].pc \in {"find_recent", "find_code"} /\ codes' = codes
        /\ \A d \in CodeCalls \ {c} : codeCall'[d] = codeCall[d]
    BY <1>0, <1>2 DEF SendOtp, VerifyOtp, NoCodeCall
  <2> QED BY <1>1, <2>1
<1>3. CASE FindRecent(c) \/ SendSms(c) \/ CodeCallFails(c)
  <2>1. codes' = codes /\ (EndCode(c) \/ GotoCode(c, "delete_old"))
    BY <1>3 DEF FindRecent, SendSms, CodeCallFails
  <2> QED BY <1>0, <1>1, <2>1, CallsMove
<1>4. CASE DeleteCode(c)
  <2>1. /\ EndCode(c)
        /\ \A k \in Codes : codes'[k] = codes[k] \/ codes'[k] = DeletedCode
    BY <1>0, <1>4 DEF DeleteCode
  <2> QED BY <1>0, <1>1, <2>1, CallsMove, DeletedIsCode
<1>5. CASE MarkVerified(c)
  <2>1. /\ EndCode(c)
        /\ \A k \in Codes : /\ codes'[k].state = codes[k].state /\ codes'[k].phone = codes[k].phone
                            /\ codes'[k].type = codes[k].type /\ codes'[k].attempts = codes[k].attempts
    BY <1>0, <1>5 DEF MarkVerified, Code
  <2> QED BY <1>0, <1>1, <2>1, CallsMove
<1> QED BY <1>2, <1>3, <1>4, <1>5

LEMMA DeleteOldCounts ==
  ASSUME CodesInv, NEW c \in CodeCalls, DeleteOld(c) PROVE CodesBounded' /\ AttemptsBounded'
<1>0. /\ CodesTypeOK /\ codes \in [Codes -> Code] /\ codeCall \in [CodeCalls -> CodeCall]
  BY DEF CodesInv, CodesTypeOK
<1>1. \A k \in Codes : codes'[k] = IF k \in StoredCodes(codeCall[c].phone, codeCall[c].type)
                                     THEN DeletedCode ELSE codes[k]
  BY <1>0 DEF DeleteOld
<1>2. /\ codeCall'[c].pc = "create" /\ codeCall'[c].phone = codeCall[c].phone /\ codeCall'[c].type = codeCall[c].type
      /\ \A d \in CodeCalls \ {c} : codeCall'[d] = codeCall[d]
  BY <1>0, CallsMove DEF DeleteOld
<1>3. ASSUME NEW p \in Numbers, NEW t \in Types
      PROVE  Cardinality(StoredCodes(p, t)') + Cardinality(Creating(p, t)') <= Cardinality(CodeCalls)
  <2>1. CASE p = codeCall[c].phone /\ t = codeCall[c].type
    <3>1. StoredCodes(p, t)' = {}
      BY <1>1, <2>1, DeletedIsCode DEF StoredCodes
    <3>2. Creating(p, t)' \subseteq CodeCalls
      BY DEF Creating
    <3> QED BY <3>1, <3>2, SetsOfCalls, BoundAfterDelete
  <2>2. CASE ~(p = codeCall[c].phone /\ t = codeCall[c].type)
    <3>1. StoredCodes(p, t)' \subseteq StoredCodes(p, t)
      BY <1>1, DeletedIsCode DEF StoredCodes
    <3>2. Creating(p, t)' \subseteq Creating(p, t)
      BY <1>2, <2>2 DEF Creating, At
    <3>3. Cardinality(StoredCodes(p, t)) + Cardinality(Creating(p, t)) <= Cardinality(CodeCalls)
      BY DEF CodesInv, CodesBounded
    <3> QED BY <3>1, <3>2, <3>3, SetsOfCalls, BoundShrinks
  <2> QED BY <2>1, <2>2
<1>4. \A k \in Codes : codes'[k].attempts \in {0, codes[k].attempts}
  BY <1>1, DeletedIsCode
<1>5. \A k \in Codes, d \in CodeCalls : Tries(d, k)' => Tries(d, k)
  BY <1>2 DEF Tries, At
<1>6. \A k \in Codes : codes'[k].attempts + Cardinality(Incrementing(k)') <= MaxAttempts + Cardinality(CodeCalls) - 1
  BY <1>4, <1>5, AttemptsShrink
<1> QED BY <1>3, <1>6 DEF CodesBounded, AttemptsBounded

LEMMA CreateCodeCounts ==
  ASSUME CodesInv, NEW c \in CodeCalls, CreateCode(c) PROVE CodesBounded' /\ AttemptsBounded'
<1>0. /\ CodesTypeOK /\ codes \in [Codes -> Code] /\ codeCall \in [CodeCalls -> CodeCall] /\ At(c, "create")
  BY DEF CodesInv, CodesTypeOK, CreateCode
<1>1. PICK k \in Codes :
        /\ codes' = [codes EXCEPT ![k] =
             [state |-> "stored", phone |-> codeCall[c].phone, type |-> codeCall[c].type, attempts |-> 0,
              verified |-> FALSE, created |-> now, expires |-> now + Expiry]]
        /\ GotoWith(c, "send", k)
  BY DEF CreateCode
<1>2. /\ codeCall'[c].pc = "send" /\ \A d \in CodeCalls \ {c} : codeCall'[d] = codeCall[d]
  BY <1>0, <1>1, CallsMove
<1>3. /\ codes'[k].attempts = 0 /\ codes'[k].phone = codeCall[c].phone /\ codes'[k].type = codeCall[c].type
      /\ \A j \in Codes \ {k} : codes'[j] = codes[j]
  BY <1>0, <1>1
<1>4. ASSUME NEW p \in Numbers, NEW t \in Types
      PROVE  Cardinality(StoredCodes(p, t)') + Cardinality(Creating(p, t)') <= Cardinality(CodeCalls)
  <2>0. Cardinality(StoredCodes(p, t)) + Cardinality(Creating(p, t)) <= Cardinality(CodeCalls)
    BY DEF CodesInv, CodesBounded
  <2>1. CASE p = codeCall[c].phone /\ t = codeCall[c].type
    <3>1. StoredCodes(p, t)' \subseteq StoredCodes(p, t) \cup {k}
      BY <1>3 DEF StoredCodes
    <3>2. c \in Creating(p, t) /\ Creating(p, t)' \subseteq Creating(p, t) \ {c}
      BY <1>0, <1>2, <2>1 DEF Creating, At
    <3> QED BY <2>0, <3>1, <3>2, SetsOfCalls, BoundMoves
  <2>2. CASE ~(p = codeCall[c].phone /\ t = codeCall[c].type)
    <3>1. StoredCodes(p, t)' \subseteq StoredCodes(p, t)
      BY <1>3, <2>2 DEF StoredCodes
    <3>2. Creating(p, t)' \subseteq Creating(p, t)
      BY <1>2 DEF Creating, At
    <3> QED BY <2>0, <3>1, <3>2, SetsOfCalls, BoundShrinks
  <2> QED BY <2>1, <2>2
<1>5. \A j \in Codes : codes'[j].attempts \in {0, codes[j].attempts}
  BY <1>3
<1>6. \A j \in Codes, d \in CodeCalls : Tries(d, j)' => Tries(d, j)
  BY <1>2 DEF Tries, At
<1>7. \A j \in Codes : codes'[j].attempts + Cardinality(Incrementing(j)') <= MaxAttempts + Cardinality(CodeCalls) - 1
  BY <1>5, <1>6, AttemptsShrink
<1> QED BY <1>4, <1>7 DEF CodesBounded, AttemptsBounded

(* Who finds a code with attempts left goes on to count one.               *)
LEMMA FindCodeCounts ==
  ASSUME CodesInv, NEW c \in CodeCalls, FindCode(c) PROVE CodesBounded' /\ AttemptsBounded'
<1>0. /\ CodesTypeOK /\ codes \in [Codes -> Code] /\ codeCall \in [CodeCalls -> CodeCall]
      /\ MaxAttempts \in Nat /\ codes' = codes
  BY PhoneCodesAssumption DEF CodesInv, CodesTypeOK, FindCode
<1>1. CASE EndCode(c)
  BY <1>0, <1>1, CallsMove, CountsShrink DEF At
<1>2. ASSUME NEW k \in Codes, GotoWith(c, IF Exhausted(k) THEN "delete_code"
                                     ELSE IF codeCall[c].typed = k THEN "mark" ELSE "increment", k)
      PROVE  CodesBounded' /\ AttemptsBounded'
  <2>1. /\ codeCall'[c].pc \in {"delete_code", "mark", "increment"} /\ codeCall'[c].code = k
        /\ codeCall'[c].pc = "increment" => ~Exhausted(k)
        /\ \A d \in CodeCalls \ {c} : codeCall'[d] = codeCall[d]
    BY <1>0, <1>2, CallsMove
  <2>2. CodesBounded'
    <3>1. ASSUME NEW p \in Numbers, NEW t \in Types
          PROVE  Cardinality(StoredCodes(p, t)') + Cardinality(Creating(p, t)') <= Cardinality(CodeCalls)
      <4>1. StoredCodes(p, t)' \subseteq StoredCodes(p, t)
        BY <1>0 DEF StoredCodes
      <4>2. Creating(p, t)' \subseteq Creating(p, t)
        BY <2>1 DEF Creating, At
      <4>3. Cardinality(StoredCodes(p, t)) + Cardinality(Creating(p, t)) <= Cardinality(CodeCalls)
        BY DEF CodesInv, CodesBounded
      <4> QED BY <4>1, <4>2, <4>3, SetsOfCalls, BoundShrinks
    <3> QED BY <3>1 DEF CodesBounded
  <2>3. ASSUME NEW j \in Codes
        PROVE  codes'[j].attempts + Cardinality(Incrementing(j)') <= MaxAttempts + Cardinality(CodeCalls) - 1
    <3>1. CASE j = k /\ codeCall'[c].pc = "increment"
      <4>1. PICK n \in Nat : n = codes[j].attempts
        BY <1>0 DEF Code
      <4>2. n < MaxAttempts
        BY <1>0, <2>1, <3>1, <4>1 DEF Exhausted
      <4> QED BY <1>0, <4>1, <4>2, SetsOfCalls
    <3>2. CASE ~(j = k /\ codeCall'[c].pc = "increment")
      <4>1. \A d \in CodeCalls : Tries(d, j)' => Tries(d, j)
        BY <2>1, <3>2 DEF Tries, At
      <4> QED BY <1>0, <4>1, AttemptsShrink
    <3> QED BY <3>1, <3>2
  <2> QED BY <2>2, <2>3 DEF AttemptsBounded
<1> QED BY <1>1, <1>2 DEF FindCode, StoredCodes

LEMMA IncrementCounts ==
  ASSUME CodesInv, NEW c \in CodeCalls, Increment(c) PROVE CodesBounded' /\ AttemptsBounded'
<1>0. /\ CodesTypeOK /\ codes \in [Codes -> Code] /\ codeCall \in [CodeCalls -> CodeCall] /\ MaxAttempts \in Nat
  BY PhoneCodesAssumption DEF CodesInv, CodesTypeOK
<1>1. PICK k \in Codes : k = codeCall[c].code
  BY DEF Increment, At, CodesInv, CodesTypeOK
<1>2. /\ codeCall'[c].pc = "idle" /\ \A d \in CodeCalls \ {c} : codeCall'[d] = codeCall[d]
  BY <1>0, CallsMove DEF Increment
<1>3. PICK n \in Nat : n = codes[k].attempts
  BY <1>0 DEF Code
<1>4. /\ \A j \in Codes \ {k} : codes'[j] = codes[j]
      /\ codes'[k].state = codes[k].state /\ codes'[k].phone = codes[k].phone /\ codes'[k].type = codes[k].type
      /\ codes'[k].attempts \in {n, n + 1}
  BY <1>0, <1>1, <1>3 DEF Increment, Code
<1>5. CodesBounded'
  <2>1. ASSUME NEW p \in Numbers, NEW t \in Types
        PROVE  Cardinality(StoredCodes(p, t)') + Cardinality(Creating(p, t)') <= Cardinality(CodeCalls)
    <3>1. StoredCodes(p, t)' \subseteq StoredCodes(p, t)
      BY <1>4 DEF StoredCodes
    <3>2. Creating(p, t)' \subseteq Creating(p, t)
      BY <1>2 DEF Creating, At
    <3>3. Cardinality(StoredCodes(p, t)) + Cardinality(Creating(p, t)) <= Cardinality(CodeCalls)
      BY DEF CodesInv, CodesBounded
    <3> QED BY <3>1, <3>2, <3>3, SetsOfCalls, BoundShrinks
  <2> QED BY <2>1 DEF CodesBounded
<1>6. ASSUME NEW j \in Codes
      PROVE  codes'[j].attempts + Cardinality(Incrementing(j)') <= MaxAttempts + Cardinality(CodeCalls) - 1
  <2>1. CASE j = k
    <3>1. c \in Incrementing(k) /\ Incrementing(k)' \subseteq Incrementing(k) \ {c}
      BY <1>1, <1>2 DEF Incrementing, At, Increment
    <3>2. /\ IsFiniteSet(Incrementing(k) \ {c})
          /\ Cardinality(Incrementing(k) \ {c}) = Cardinality(Incrementing(k)) - 1
      BY <3>1, SetsOfCalls, FS_RemoveElement
    <3>3. Cardinality(Incrementing(k)') <= Cardinality(Incrementing(k) \ {c})
      BY <3>1, <3>2, FS_Subset
    <3>4. n + Cardinality(Incrementing(k)) <= MaxAttempts + Cardinality(CodeCalls) - 1
      BY <1>3 DEF CodesInv, AttemptsBounded
    <3>5. PICK m \in Nat : m = codes'[k].attempts /\ m <= n + 1
      BY <1>3, <1>4
    <3> QED BY <1>0, <2>1, <3>2, <3>3, <3>4, <3>5, SetsOfCalls
  <2>2. CASE j # k
    <3>1. \A d \in CodeCalls : Tries(d, j)' => Tries(d, j)
      BY <1>2 DEF Tries, At
    <3> QED BY <1>4, <2>2, <3>1, AttemptsShrink
  <2> QED BY <2>1, <2>2
<1> QED BY <1>5, <1>6 DEF AttemptsBounded

LEMMA CodesStep == ASSUME CodesInv, [CodesNext]_codesVars PROVE CodesInv'
<1>1. CodesTypeOK'
  BY CodesNextTypes DEF CodesInv
<1>2. ASSUME UNCHANGED <<codes, codeCall>> PROVE CodesBounded' /\ AttemptsBounded'
  BY <1>2, CountsShrink
<1>3. CASE UNCHANGED codesVars \/ Tick \/ \E p \in Numbers : AccountChanges(p)
  BY <1>1, <1>2, <1>3 DEF codesVars, Tick, AccountChanges, CodesInv
<1>4. CASE CodesNext
  BY <1>1, <1>3, <1>4, QuietCalls, DeleteOldCounts, CreateCodeCounts, FindCodeCounts, IncrementCounts
     DEF CodesNext, CodesInv
<1> QED BY <1>3, <1>4

LEMMA CodesInvariant == CodesSpec => []CodesInv
BY CodesInitial, CodesStep, PTL DEF CodesSpec

(* However requests for a phone overlap, it has no more codes than they    *)
(* are (PhoneAuthService.sendOtp, sendVerificationCode).                   *)
THEOREM CodesBoundedCorrect == CodesSpec => []CodesBounded
<1>1. CodesInv => CodesBounded
  BY DEF CodesInv
<1> QED BY <1>1, CodesInvariant, PTL

(* A code is tried less often than maxAttempts and the requests that may   *)
(* overlap (verifyOtpAndLogin, verifyCode).                                *)
THEOREM AttemptsBoundedCorrect == CodesSpec => []AttemptsBounded
<1>1. CodesInv => AttemptsBounded
  BY DEF CodesInv
<1> QED BY <1>1, CodesInvariant, PTL

-----------------------------------------------------------------------------
(* Accounts: types.  What a step leaves of a request.                      *)

GoodRequest(r) ==
  /\ r \in Request
  /\ r.pc \in {"spend_links", "create_link"} => r.kind \in Kinds
  /\ r.pc \in {"mail_link", "reset_password", "verify_email"} => r.link \in Links
  /\ r.pc \in {"change_password", "reset_password"} => r.password \in Passwords

(* Only c changes, into r. *)
Becomes(c, r) == /\ request'[c] = r
                 /\ \A x \in Requests \ {c} : request'[x] = request[x]

GoodRequests == request \in [Requests -> Request] /\ \A c \in Requests : GoodRequest(request[c])

LEMMA AccountTypes ==
  AccountsTypeOK <=>
    /\ registered \in BOOLEAN /\ password \in Passwords /\ refreshHash \in BOOLEAN /\ emailVerified \in BOOLEAN
    /\ links \in [Links -> Link] /\ mails \in [Links -> 0..Retries] /\ inbox \subseteq Links
    /\ storage \in [Browsers -> Storage] /\ page \in [Pages -> PageState] /\ GoodRequests
BY DEF AccountsTypeOK, GoodRequests, GoodRequest

LEMMA NoRequestIsGood == GoodRequest(NoRequest) /\ NoRequest.pc = "idle" /\ NoRequest.page = Absent
BY DEF GoodRequest, NoRequest, Request

LEMMA RequestsMove ==
  ASSUME GoodRequests, NEW c \in Requests
  PROVE  /\ Done(c) => Becomes(c, NoRequest) /\ GoodRequests'
         /\ \A r : Start(c, r) /\ GoodRequest(r) => Becomes(c, r) /\ GoodRequests'
         /\ \A r : request' = [request EXCEPT ![c] = r] /\ GoodRequest(r) => Becomes(c, r) /\ GoodRequests'
<1>1. ASSUME NEW r, request' = [request EXCEPT ![c] = r], GoodRequest(r)
      PROVE  Becomes(c, r) /\ GoodRequests'
  <2>1. Becomes(c, r)
    BY <1>1 DEF GoodRequests, Becomes
  <2>2. request' \in [Requests -> Request]
    BY <1>1 DEF GoodRequests, GoodRequest
  <2>3. \A x \in Requests : GoodRequest(request'[x])
    BY <1>1, <2>1 DEF GoodRequests, Becomes
  <2> QED BY <2>1, <2>2, <2>3 DEF GoodRequests, GoodRequest
<1> QED BY <1>1, NoRequestIsGood DEF Done, Start

LEMMA RequestsProceed ==
  ASSUME GoodRequests, NEW c \in Requests,
         NEW pc \in {"answer", "refused", "ended", "create_link"}, Proceed(c, pc),
         pc = "create_link" => Waits(c, "spend_links")
  PROVE  /\ Becomes(c, [request[c] EXCEPT !.pc = pc])
         /\ GoodRequests' /\ request'[c].pc = pc /\ request'[c].kind = request[c].kind
<1>1. PICK r \in Request : r = [request[c] EXCEPT !.pc = pc]
  BY DEF GoodRequests, Request
<1>2. GoodRequest(r) /\ r.pc = pc /\ r.kind = request[c].kind
  BY <1>1 DEF GoodRequest, GoodRequests, Request, Waits
<1>3. request' = [request EXCEPT ![c] = r]
  BY <1>1 DEF Proceed
<1>4. Becomes(c, r) /\ GoodRequests'
  BY <1>2, <1>3, RequestsMove
<1> QED BY <1>1, <1>2, <1>4 DEF Becomes

(* A page is loaded anew: its requests lose it.                            *)
LEMMA RequestsLeft ==
  ASSUME GoodRequests,
         NEW p \in Pages, request' = [c \in Requests |->
           IF request[c].page = p THEN [request[c] EXCEPT !.page = Absent] ELSE request[c]]
  PROVE  /\ GoodRequests'
         /\ \A c \in Requests : /\ request'[c].pc = request[c].pc /\ request'[c].link = request[c].link
                                /\ request'[c].kind = request[c].kind
<1>1. \A c \in Requests : /\ [request[c] EXCEPT !.page = Absent] \in Request
                          /\ [request[c] EXCEPT !.page = Absent].pc = request[c].pc
                          /\ [request[c] EXCEPT !.page = Absent].link = request[c].link
                          /\ [request[c] EXCEPT !.page = Absent].kind = request[c].kind
                          /\ [request[c] EXCEPT !.page = Absent].password = request[c].password
  BY DEF GoodRequests, Request
<1>2. \A c \in Requests : GoodRequest([request[c] EXCEPT !.page = Absent])
  BY <1>1 DEF GoodRequests, GoodRequest
<1>3. /\ request' = [c \in Requests |-> request'[c]]
      /\ \A c \in Requests : request'[c] \in {request[c], [request[c] EXCEPT !.page = Absent]}
  OBVIOUS
<1>4. \A c \in Requests : GoodRequest(request'[c])
  BY <1>2, <1>3 DEF GoodRequests
<1>5. GoodRequests'
  BY <1>3, <1>4 DEF GoodRequests, GoodRequest
<1> QED BY <1>1, <1>3, <1>5

(* What the calls of AuthController begin.                                 *)
LEMMA NewRequests ==
  /\ \A p \in Pages : /\ GoodRequest([NoRequest EXCEPT !.pc = "save_session", !.page = p])
                        /\ GoodRequest([NoRequest EXCEPT !.pc = "end_session", !.page = p])
  /\ \A p \in Pages, pc \in {"save_session", "refused"} :
       GoodRequest([NoRequest EXCEPT !.pc = pc, !.page = p, !.kind = "refresh"])
  /\ \A pw \in Passwords : GoodRequest([NoRequest EXCEPT !.pc = "change_password", !.password = pw])
  /\ \A k \in Kinds, pc \in {"create_link", "spend_links"} : GoodRequest([NoRequest EXCEPT !.pc = pc, !.kind = k])
  /\ \A l \in Links, pw \in Passwords :
       GoodRequest([NoRequest EXCEPT !.pc = "reset_password", !.link = l, !.password = pw])
  /\ \A l \in Links : GoodRequest([NoRequest EXCEPT !.pc = "verify_email", !.link = l])
<1>1. \A k \in Kinds, pc \in {"create_link", "spend_links"} : GoodRequest([NoRequest EXCEPT !.pc = pc, !.kind = k])
  <2> SUFFICES ASSUME NEW k \in Kinds, NEW pc \in {"create_link", "spend_links"}
               PROVE  GoodRequest([NoRequest EXCEPT !.pc = pc, !.kind = k])
    OBVIOUS
  <2>1. PICK r : r = [NoRequest EXCEPT !.pc = pc, !.kind = k]
    OBVIOUS
  <2>2. r \in Request /\ r.pc = pc /\ r.kind = k
    BY <2>1 DEF NoRequest, Request
  <2> QED BY <2>1, <2>2 DEF GoodRequest
<1>2. \A p \in Pages : /\ GoodRequest([NoRequest EXCEPT !.pc = "save_session", !.page = p])
                        /\ GoodRequest([NoRequest EXCEPT !.pc = "end_session", !.page = p])
  BY DEF GoodRequest, NoRequest, Request
<1>3. \A p \in Pages, pc \in {"save_session", "refused"} :
        GoodRequest([NoRequest EXCEPT !.pc = pc, !.page = p, !.kind = "refresh"])
  BY DEF GoodRequest, NoRequest, Request
<1>4. \A pw \in Passwords : GoodRequest([NoRequest EXCEPT !.pc = "change_password", !.password = pw])
  BY DEF GoodRequest, NoRequest, Request
<1>5. \A l \in Links, pw \in Passwords :
        GoodRequest([NoRequest EXCEPT !.pc = "reset_password", !.link = l, !.password = pw])
  BY DEF GoodRequest, NoRequest, Request
<1>6. \A l \in Links : GoodRequest([NoRequest EXCEPT !.pc = "verify_email", !.link = l])
  BY DEF GoodRequest, NoRequest, Request
<1> QED BY <1>1, <1>2, <1>3, <1>4, <1>5, <1>6

(* The browsers and their pages.                                           *)
ClientSound == storage \in [Browsers -> Storage] /\ page \in [Pages -> PageState] /\ SignedInHasTokens

(* A page gets or loses the tokens of its browser; whoever loses them      *)
(* shows no user any more, or is about to be left.                         *)
LEMMA PageChanges ==
  ASSUME ClientSound, NEW p \in Pages, NEW tokens \in Storage, NEW what \in PageState,
         storage' = [storage EXCEPT ![Browser(p)] = tokens], page' = [page EXCEPT ![p] = what],
         ~tokens.tokens => ~what.store \/ what.leaving
  PROVE  ClientSound'
<1>1. Browser(p) \in Browsers /\ \A q \in Pages : Browser(q) \in Browsers
  BY DEF Pages, Browser
<1>2. /\ \A b \in Browsers : storage'[b] = IF b = Browser(p) THEN tokens ELSE storage[b]
      /\ \A q \in Pages : page'[q] = IF q = p THEN what ELSE page[q]
  BY DEF ClientSound
<1>3. storage' \in [Browsers -> Storage] /\ page' \in [Pages -> PageState]
  BY DEF ClientSound
<1>4. ASSUME NEW q \in Pages, page'[q].store, ~page'[q].leaving, ~storage'[Browser(q)].tokens
      PROVE  \E r \in Pages \ {q} : Browser(r) = Browser(q) /\ (~page'[r].store \/ page'[r].leaving)
  <2>1. CASE Browser(q) = Browser(p)
    BY <1>1, <1>2, <1>4, <2>1
  <2>2. CASE Browser(q) # Browser(p)
    <3>1. /\ q # p /\ page[q].store /\ ~page[q].leaving /\ ~storage[Browser(q)].tokens
      BY <1>1, <1>2, <1>4, <2>2
    <3>2. PICK r \in Pages \ {q} : Browser(r) = Browser(q) /\ (~page[r].store \/ page[r].leaving)
      BY <3>1 DEF ClientSound, SignedInHasTokens
    <3> QED BY <1>2, <2>2, <3>2
  <2> QED BY <2>1, <2>2
<1> QED BY <1>3, <1>4 DEF ClientSound, SignedInHasTokens

LEMMA ClientsStep ==
  ASSUME ClientSound, AccountsTypeOK, [AccountsNext]_accountVars
  PROVE  ClientSound'
<1>1. ASSUME UNCHANGED clientVars PROVE ClientSound'
  BY <1>1 DEF ClientSound, SignedInHasTokens, clientVars
<1>2. ASSUME NEW c \in Requests, NEW tokens \in Storage, NEW what, Keep(c, tokens, what),
             request[c].page # Absent => what \in PageState,
             ~tokens.tokens => ~what.store \/ what.leaving
      PROVE  ClientSound'
  <2>1. request[c].page \in Pages \cup {Absent}
    BY DEF AccountsTypeOK, Request
  <2>2. CASE request[c].page = Absent
    BY <1>1, <1>2, <2>2 DEF Keep
  <2>3. CASE request[c].page # Absent
    BY <1>2, <2>1, <2>3, PageChanges DEF Keep
  <2> QED BY <2>2, <2>3
<1>3. ASSUME NEW c \in Requests, request[c].page # Absent
      PROVE  /\ PageOf(c) \in PageState /\ [PageOf(c) EXCEPT !.store = TRUE] \in PageState
             /\ [PageOf(c) EXCEPT !.leaving = TRUE] \in PageState /\ [PageOf(c) EXCEPT !.store = FALSE] \in PageState
  <2>1. request[c].page \in Pages
    BY <1>3 DEF AccountsTypeOK, Request
  <2> QED BY <2>1 DEF ClientSound, PageOf, PageState
<1>4. Emptied \in Storage /\ [tokens |-> TRUE, fresh |-> TRUE] \in Storage
  BY DEF Emptied, Storage
<1>5. ASSUME NEW c \in Requests, ReceiveTokens(c) PROVE ClientSound'
  <2>1. PICK what : what = IF request[c].kind = "login" THEN [PageOf(c) EXCEPT !.store = TRUE] ELSE PageOf(c)
    OBVIOUS
  <2>2. request[c].page # Absent => what \in PageState
    BY <1>3, <2>1
  <2>3. Keep(c, [tokens |-> TRUE, fresh |-> TRUE], what)
    BY <1>5, <2>1 DEF ReceiveTokens
  <2> QED BY <1>2, <1>4, <2>2, <2>3
<1>6. ASSUME NEW c \in Requests, RefreshRefused(c) PROVE ClientSound'
  <2>1. CASE request[c].page = Absent
    BY <1>1, <1>6, <2>1 DEF RefreshRefused, Keep
  <2>2. CASE request[c].page # Absent
    <3>1. PICK what \in PageState : what = [PageOf(c) EXCEPT !.leaving = TRUE]
      BY <1>3, <2>2
    <3>2. what.leaving
      BY <1>3, <2>2, <3>1 DEF PageState
    <3>3. Keep(c, Emptied, what)
      BY <1>6, <3>1 DEF RefreshRefused
    <3> QED BY <1>2, <1>4, <3>2, <3>3
  <2> QED BY <2>1, <2>2
<1>7. ASSUME NEW c \in Requests, ClearAuth(c) PROVE ClientSound'
  <2>1. CASE request[c].page = Absent
    BY <1>1, <1>7, <2>1 DEF ClearAuth, Keep
  <2>2. CASE request[c].page # Absent
    <3>1. PICK what \in PageState : what = [PageOf(c) EXCEPT !.store = FALSE]
      BY <1>3, <2>2
    <3>2. ~what.store
      BY <1>3, <2>2, <3>1 DEF PageState
    <3>3. Keep(c, Emptied, what)
      BY <1>7, <3>1 DEF ClearAuth
    <3> QED BY <1>2, <1>4, <3>2, <3>3
  <2> QED BY <2>1, <2>2
<1>8. ASSUME NEW b \in Browsers, AccessTokenExpires(b) PROVE ClientSound'
  <2>1. /\ \A a \in Browsers : storage'[a].tokens = storage[a].tokens
        /\ storage' \in [Browsers -> Storage]
    BY <1>8 DEF ClientSound, AccessTokenExpires, Storage
  <2>2. \A p \in Pages : Browser(p) \in Browsers
    BY DEF Pages, Browser
  <2> QED BY <1>8, <2>1, <2>2 DEF ClientSound, SignedInHasTokens, AccessTokenExpires
<1>9. ASSUME NEW p \in Pages, Reload(p) PROVE ClientSound'
  <2>1. PICK b \in Browsers : b = Browser(p)
    BY DEF Pages, Browser
  <2>2. PICK s \in BOOLEAN : s = storage[b].tokens
    BY DEF ClientSound, Storage
  <2>3. PICK what \in PageState : what = [store |-> s, leaving |-> FALSE]
    BY DEF PageState
  <2>4. storage' = [storage EXCEPT ![b] = storage[b]] /\ page' = [page EXCEPT ![p] = what]
    BY <1>9, <2>1, <2>2, <2>3 DEF Reload, ClientSound
  <2>5. storage[b] \in Storage /\ (~storage[b].tokens => ~what.store)
    BY <2>2, <2>3 DEF ClientSound
  <2> QED BY <2>1, <2>4, <2>5, PageChanges
<1>10. CASE UNCHANGED accountVars
  BY <1>1, <1>10 DEF accountVars, clientVars
<1>11. ASSUME NEW c \in Requests,
              \/ \E v \in Requests, p \in Pages, pw \in Passwords : RegisterAccount(c, v, p, pw)
              \/ \E p \in Pages, pw \in Passwords : Login(c, p, pw)
              \/ \E p \in Pages : RefreshTokens(c, p) \/ Logout(c, p)
              \/ \E p \in Pages, old, new \in Passwords : ChangePassword(c, p, old, new)
              \/ \E l \in Links, new \in Passwords : ResetPassword(c, l, new)
              \/ \E l \in Links : VerifyEmail(c, l)
              \/ ForgotPassword(c) \/ ResendVerification(c)
       PROVE  ClientSound'
  BY <1>1, <1>11 DEF RegisterAccount, Login, RefreshTokens, Logout, ChangePassword, ResetPassword, VerifyEmail,
     ForgotPassword, ResendVerification
<1>12. ASSUME NEW c \in Requests,
              \/ SaveRefreshTokenHash(c) \/ EndSession(c) \/ WritePassword(c) \/ SpendLinks(c) \/ CreateLink(c)
              \/ QueueMail(c) \/ WriteReset(c) \/ WriteVerified(c) \/ RequestFails(c)
       PROVE  ClientSound'
  BY <1>1, <1>12 DEF SaveRefreshTokenHash, EndSession, WritePassword, SpendLinks, CreateLink, QueueMail,
     WriteReset, WriteVerified, RequestFails
<1>13. ASSUME NEW l \in Links, ProcessMail(l) \/ LinkExpires(l) PROVE ClientSound'
  BY <1>1, <1>13 DEF ProcessMail, LinkExpires
<1> QED BY <1>5, <1>6, <1>7, <1>8, <1>9, <1>10, <1>11, <1>12, <1>13 DEF AccountsNext

(* The requests: types, and what leads to "create_link" and "mail_link".   *)
LEMMA RequestsStep ==
  ASSUME AccountsTypeOK, [AccountsNext]_accountVars
  PROVE  GoodRequests'
<1>0. GoodRequests
  BY AccountTypes
<1>1. ASSUME NEW c \in Requests,
             \/ \E p \in Pages, pw \in Passwords : Login(c, p, pw)
             \/ \E p \in Pages : RefreshTokens(c, p) \/ Logout(c, p)
             \/ \E p \in Pages, old, new \in Passwords : ChangePassword(c, p, old, new)
      PROVE  GoodRequests'
  BY <1>0, <1>1, RequestsMove, NewRequests DEF Login, RefreshTokens, Logout, ChangePassword
<1>2. ASSUME NEW c \in Requests,
             \/ \E l \in Links, new \in Passwords : ResetPassword(c, l, new)
             \/ \E l \in Links : VerifyEmail(c, l)
             \/ ForgotPassword(c) \/ ResendVerification(c)
      PROVE  GoodRequests'
  BY <1>0, <1>2, RequestsMove, NewRequests DEF ResetPassword, VerifyEmail, ForgotPassword, ResendVerification, Kinds
<1>3. ASSUME NEW c \in Requests, NEW v \in Requests, NEW p \in Pages, NEW pw \in Passwords,
             RegisterAccount(c, v, p, pw)
      PROVE  GoodRequests'
  <2>1. PICK r, s : /\ r = [NoRequest EXCEPT !.pc = "save_session", !.page = p]
                    /\ s = [NoRequest EXCEPT !.pc = "create_link", !.kind = "verification"]
    OBVIOUS
  <2>2. GoodRequest(r) /\ GoodRequest(s)
    BY <2>1, NewRequests DEF Kinds
  <2>3. request' = [request EXCEPT ![c] = r, ![v] = s]
    BY <1>3, <2>1 DEF RegisterAccount
  <2> QED BY <1>0, <2>2, <2>3 DEF GoodRequests, GoodRequest
<1>4. ASSUME NEW c \in Requests, SaveRefreshTokenHash(c) \/ EndSession(c) \/ SpendLinks(c) PROVE GoodRequests'
  BY <1>0, <1>4, RequestsProceed DEF SaveRefreshTokenHash, EndSession, SpendLinks
<1>5. ASSUME NEW c \in Requests,
             \/ ReceiveTokens(c) \/ RefreshRefused(c) \/ ClearAuth(c)
             \/ WritePassword(c) \/ QueueMail(c) \/ WriteReset(c) \/ WriteVerified(c)
      PROVE  GoodRequests'
  BY <1>0, <1>5, RequestsMove DEF ReceiveTokens, RefreshRefused, ClearAuth, WritePassword, QueueMail, WriteReset, WriteVerified
<1>6. ASSUME NEW c \in Requests, RequestFails(c) PROVE GoodRequests'
  BY <1>0, <1>6, RequestsMove, RequestsProceed DEF RequestFails
<1>7. ASSUME NEW c \in Requests, CreateLink(c) PROVE GoodRequests'
  <2>1. PICK l \in Links : request' = [request EXCEPT ![c].pc = "mail_link", ![c].link = l]
    BY <1>7 DEF CreateLink
  <2>2. PICK r \in Request : r = [request[c] EXCEPT !.pc = "mail_link", !.link = l]
    BY <1>0 DEF GoodRequests, Request
  <2>3. GoodRequest(r) /\ request' = [request EXCEPT ![c] = r]
    BY <1>0, <2>1, <2>2 DEF GoodRequest, GoodRequests, Request
  <2> QED BY <1>0, <2>3, RequestsMove
<1>8. ASSUME NEW p \in Pages, Reload(p) PROVE GoodRequests'
  BY <1>0, <1>8, RequestsLeft DEF Reload
<1>9. ASSUME UNCHANGED request PROVE GoodRequests'
  BY <1>0, <1>9 DEF GoodRequests, GoodRequest
<1>10. ASSUME NEW l \in Links, ProcessMail(l) \/ LinkExpires(l) PROVE GoodRequests'
  BY <1>9, <1>10 DEF ProcessMail, LinkExpires
<1>11. ASSUME NEW b \in Browsers, AccessTokenExpires(b) PROVE GoodRequests'
  BY <1>9, <1>11 DEF AccessTokenExpires
<1>12. CASE UNCHANGED accountVars
  BY <1>9, <1>12 DEF accountVars
<1> QED BY <1>1, <1>2, <1>3, <1>4, <1>5, <1>6, <1>7, <1>8, <1>10, <1>11, <1>12 DEF AccountsNext

(* The rows.                                                               *)
LinkRowsOK ==
  /\ registered \in BOOLEAN /\ password \in Passwords /\ refreshHash \in BOOLEAN /\ emailVerified \in BOOLEAN
  /\ links \in [Links -> Link] /\ mails \in [Links -> 0..Retries] /\ inbox \subseteq Links

(* A row that exists goes on existing.                                     *)
LinksLast == \A l \in Links : links[l].state # "none" => links'[l].state # "none"

LEMMA LinkRowsStep ==
  ASSUME AccountsTypeOK, [AccountsNext]_accountVars
  PROVE  LinkRowsOK' /\ LinksLast
<1>0. LinkRowsOK /\ GoodRequests
  BY AccountTypes DEF LinkRowsOK
<1>1. ASSUME UNCHANGED <<links, mailVars>>, registered' \in BOOLEAN, password' \in Passwords,
             refreshHash' \in BOOLEAN, emailVerified' \in BOOLEAN
      PROVE  LinkRowsOK' /\ LinksLast
  BY <1>0, <1>1 DEF LinkRowsOK, LinksLast, mailVars
<1>2. CASE UNCHANGED <<userVars, links, mailVars>>
  BY <1>0, <1>1, <1>2 DEF userVars, LinkRowsOK
<1>3. ASSUME NEW c \in Requests,
             \/ \E p \in Pages, pw \in Passwords : Login(c, p, pw)
             \/ \E p \in Pages : RefreshTokens(c, p) \/ Logout(c, p)
             \/ \E p \in Pages, old, new \in Passwords : ChangePassword(c, p, old, new)
             \/ \E l \in Links, new \in Passwords : ResetPassword(c, l, new)
             \/ \E l \in Links : VerifyEmail(c, l)
             \/ ForgotPassword(c) \/ ResendVerification(c)
      PROVE  LinkRowsOK' /\ LinksLast
  BY <1>2, <1>3 DEF Login, RefreshTokens, Logout, ChangePassword, ResetPassword, VerifyEmail,
     ForgotPassword, ResendVerification
<1>4. ASSUME NEW c \in Requests, ReceiveTokens(c) \/ RefreshRefused(c) \/ ClearAuth(c) \/ RequestFails(c)
      PROVE  LinkRowsOK' /\ LinksLast
  BY <1>2, <1>4 DEF ReceiveTokens, RefreshRefused, ClearAuth, RequestFails
<1>5. ASSUME NEW c \in Requests, NEW v \in Requests, NEW p \in Pages, NEW pw \in Passwords,
             RegisterAccount(c, v, p, pw)
      PROVE  LinkRowsOK' /\ LinksLast
  BY <1>0, <1>1, <1>5 DEF RegisterAccount, LinkRowsOK
<1>6. ASSUME NEW c \in Requests, SaveRefreshTokenHash(c) \/ EndSession(c) PROVE LinkRowsOK' /\ LinksLast
  BY <1>0, <1>1, <1>6 DEF SaveRefreshTokenHash, EndSession, LinkRowsOK
<1>7. ASSUME NEW c \in Requests, WritePassword(c) PROVE LinkRowsOK' /\ LinksLast
  <2>1. request[c].password \in Passwords
    BY <1>0, <1>7 DEF GoodRequests, GoodRequest, WritePassword, Waits
  <2> QED BY <1>0, <1>1, <1>7, <2>1 DEF WritePassword, LinkRowsOK
<1>8. ASSUME NEW l \in Links, NEW s \in {"open", "spent", "expired"}, links' = [links EXCEPT ![l].state = s]
      PROVE  links' \in [Links -> Link] /\ LinksLast
  <2>0. links[l] \in Link
    BY <1>0 DEF LinkRowsOK
  <2>3. [links[l] EXCEPT !.state = s] \in Link /\ [links[l] EXCEPT !.state = s].state = s
    BY <1>8, <2>0 DEF Link
  <2>1. PICK r \in Link : r = [links[l] EXCEPT !.state = s] /\ r.state = s
    BY <2>3
  <2>2. links' = [links EXCEPT ![l] = r]
    BY <1>8, <2>1
  <2> QED BY <1>0, <1>8, <2>1, <2>2 DEF LinkRowsOK, LinksLast
<1>9. ASSUME NEW c \in Requests, WriteReset(c) PROVE LinkRowsOK' /\ LinksLast
  <2>1. request[c].password \in Passwords /\ request[c].link \in Links
    BY <1>0, <1>9 DEF GoodRequests, GoodRequest, WriteReset, Waits
  <2>2. links' \in [Links -> Link] /\ LinksLast
    BY <1>8, <1>9, <2>1 DEF WriteReset
  <2> QED BY <1>0, <1>9, <2>1, <2>2 DEF WriteReset, LinkRowsOK, mailVars
<1>10. ASSUME NEW c \in Requests, WriteVerified(c) PROVE LinkRowsOK' /\ LinksLast
  <2>1. request[c].link \in Links
    BY <1>0, <1>10 DEF GoodRequests, GoodRequest, WriteVerified, Waits
  <2>2. links' \in [Links -> Link] /\ LinksLast
    BY <1>8, <1>10, <2>1 DEF WriteVerified
  <2> QED BY <1>0, <1>10, <2>2 DEF WriteVerified, LinkRowsOK, mailVars
<1>11. ASSUME NEW l \in Links, LinkExpires(l) PROVE LinkRowsOK' /\ LinksLast
  <2>1. links' \in [Links -> Link] /\ LinksLast
    BY <1>8, <1>11 DEF LinkExpires
  <2> QED BY <1>0, <1>11, <2>1 DEF LinkExpires, LinkRowsOK, userVars, mailVars
<1>12. ASSUME NEW c \in Requests, SpendLinks(c) PROVE LinkRowsOK' /\ LinksLast
  <2>1. \A l \in Links : [links[l] EXCEPT !.state = "spent"] \in Link /\ [links[l] EXCEPT !.state = "spent"].state = "spent"
    BY <1>0 DEF LinkRowsOK, Link
  <2>2. links' \in [Links -> Link] /\ LinksLast
    BY <1>0, <1>12, <2>1 DEF SpendLinks, LinkRowsOK, LinksLast
  <2> QED BY <1>0, <1>12, <2>2 DEF SpendLinks, LinkRowsOK, userVars, mailVars
<1>13. ASSUME NEW c \in Requests, CreateLink(c) PROVE LinkRowsOK' /\ LinksLast
  <2>1. PICK l \in Links : links' = [links EXCEPT ![l] = [kind |-> request[c].kind, state |-> "open"]]
    BY <1>13 DEF CreateLink
  <2>2. request[c].kind \in Kinds
    BY <1>0, <1>13 DEF CreateLink, Waits, GoodRequests, GoodRequest, Request
  <2>3. PICK r \in Link : r = [kind |-> request[c].kind, state |-> "open"] /\ r.state = "open"
    <3>1. \A k \in Kinds : [kind |-> k, state |-> "open"] \in Link
      BY DEF Link
    <3> QED BY <2>2, <3>1
  <2>4. links' = [links EXCEPT ![l] = r]
    BY <2>1, <2>3
  <2>5. links' \in [Links -> Link] /\ LinksLast
    BY <1>0, <2>3, <2>4 DEF LinkRowsOK, LinksLast
  <2> QED BY <1>0, <1>13, <2>5 DEF CreateLink, LinkRowsOK, userVars, mailVars
<1>14. ASSUME NEW c \in Requests, QueueMail(c) PROVE LinkRowsOK' /\ LinksLast
  <2>1. request[c].link \in Links /\ Retries \in 0..Retries
    BY <1>0, <1>14, AccountsAssumption DEF GoodRequests, GoodRequest, QueueMail, Waits
  <2> QED BY <1>0, <1>14, <2>1 DEF QueueMail, LinkRowsOK, LinksLast, userVars
<1>15. ASSUME NEW l \in Links, ProcessMail(l) PROVE LinkRowsOK' /\ LinksLast
  <2>1. PICK n \in 0..Retries : n = mails[l] - 1
    BY <1>0, <1>15, AccountsAssumption DEF ProcessMail, LinkRowsOK
  <2>2. mails' \in {[mails EXCEPT ![l] = 0], [mails EXCEPT ![l] = n]} /\ inbox' \in {inbox, inbox \cup {l}}
    BY <1>15, <2>1 DEF ProcessMail
  <2>3. 0 \in 0..Retries
    BY AccountsAssumption
  <2> QED BY <1>0, <1>15, <2>2, <2>3 DEF ProcessMail, LinkRowsOK, LinksLast, userVars
<1>16. ASSUME (\E b \in Browsers : AccessTokenExpires(b)) \/ (\E p \in Pages : Reload(p))
       PROVE  LinkRowsOK' /\ LinksLast
  BY <1>2, <1>16 DEF AccessTokenExpires, Reload
<1>17. CASE UNCHANGED accountVars
  BY <1>2, <1>17 DEF accountVars, userVars, mailVars
<1> QED BY <1>3, <1>4, <1>5, <1>6, <1>7, <1>9, <1>10, <1>11, <1>12, <1>13, <1>14, <1>15, <1>16, <1>17
        DEF AccountsNext

-----------------------------------------------------------------------------
(* Accounts: the invariant.  A mail is queued for a link that is stored,   *)
(* and there is nothing before the account is registered.                  *)

MailingStored == \A c \in Requests : Waits(c, "mail_link") => links[request[c].link].state # "none"

NobodyYet ==
  ~registered =>
    /\ \A c \in Requests : Waits(c, "idle")
    /\ \A l \in Links : links[l].state = "none"
    /\ \A b \in Browsers : ~storage[b].tokens
    /\ \A p \in Pages : ~page[p].store

AccountInv ==
  /\ AccountsTypeOK
  /\ SignedInHasTokens
  /\ MailedLinksStored
  /\ MailingStored
  /\ NobodyYet
  /\ LinksBounded

LEMMA SetsOfLinks ==
  /\ IsFiniteSet(Requests) /\ Cardinality(Requests) \in Nat
  /\ \A k, s : IsFiniteSet(InState(k, s))
  /\ \A k : IsFiniteSet(CreatingLink(k)) /\ CreatingLink(k) \subseteq Requests /\ CreatingLink(k)' \subseteq Requests
<1>1. IsFiniteSet(Requests) /\ IsFiniteSet(Links)
  BY AccountsAssumption
<1>2. \A k, s : InState(k, s) \subseteq Links
  BY DEF InState
<1>3. \A k : CreatingLink(k) \subseteq Requests /\ CreatingLink(k)' \subseteq Requests
  BY DEF CreatingLink
<1> QED BY <1>1, <1>2, <1>3, FS_Subset, FS_CardinalityType

(* No link opens and nobody goes on to store one.                          *)
LEMMA LinksShrink ==
  ASSUME AccountInv,
         \A l \in Links : links'[l].state = "open" => links'[l] = links[l],
         \A c \in Requests : Waits(c, "create_link")' => Waits(c, "create_link") /\ request'[c].kind = request[c].kind
  PROVE  LinksBounded'
<1> SUFFICES ASSUME NEW k \in Kinds
             PROVE  Cardinality(InState(k, "open")') + Cardinality(CreatingLink(k)') <= Cardinality(Requests)
  BY DEF LinksBounded
<1>1. InState(k, "open")' \subseteq InState(k, "open") /\ CreatingLink(k)' \subseteq CreatingLink(k)
  BY DEF InState, CreatingLink, Waits
<1>2. Cardinality(InState(k, "open")) + Cardinality(CreatingLink(k)) <= Cardinality(Requests)
  BY DEF AccountInv, LinksBounded
<1> QED BY <1>1, <1>2, SetsOfLinks, BoundShrinks

LEMMA RegisterCounts ==
  ASSUME AccountInv, NEW c \in Requests, NEW v \in Requests, NEW p \in Pages, NEW pw \in Passwords,
         RegisterAccount(c, v, p, pw)
  PROVE  LinksBounded'
<1> SUFFICES ASSUME NEW k \in Kinds
             PROVE  Cardinality(InState(k, "open")') + Cardinality(CreatingLink(k)') <= Cardinality(Requests)
  BY DEF LinksBounded
<1>1. \A l \in Links : links'[l].state = "none"
  BY DEF RegisterAccount, AccountInv, NobodyYet
<1>2. InState(k, "open")' = {}
  BY <1>1 DEF InState
<1> QED BY <1>2, SetsOfLinks, BoundAfterDelete

LEMMA SpendLinksCounts ==
  ASSUME AccountInv, NEW c \in Requests, SpendLinks(c) PROVE LinksBounded'
<1> SUFFICES ASSUME NEW k \in Kinds
             PROVE  Cardinality(InState(k, "open")') + Cardinality(CreatingLink(k)') <= Cardinality(Requests)
  BY DEF LinksBounded
<1>0. GoodRequests /\ links \in [Links -> Link]
  BY AccountTypes DEF AccountInv
<1>1. \A l \in Links : links'[l] = IF l \in InState(request[c].kind, "open")
                                     THEN [links[l] EXCEPT !.state = "spent"] ELSE links[l]
  BY <1>0 DEF SpendLinks
<1>2. \A l \in Links : /\ [links[l] EXCEPT !.state = "spent"].state = "spent"
                       /\ [links[l] EXCEPT !.state = "spent"].kind = links[l].kind
  BY <1>0 DEF Link
<1>3. CASE request[c].kind = k
  <2>1. InState(k, "open")' = {}
    BY <1>1, <1>2, <1>3 DEF InState
  <2> QED BY <2>1, SetsOfLinks, BoundAfterDelete
<1>4. CASE request[c].kind # k
  <2>1. InState(k, "open")' \subseteq InState(k, "open")
    BY <1>1, <1>2 DEF InState
  <2>2. request'[c].kind = request[c].kind /\ \A x \in Requests \ {c} : request'[x] = request[x]
    BY <1>0, RequestsProceed DEF SpendLinks, Becomes
  <2>3. CreatingLink(k)' \subseteq CreatingLink(k)
    BY <1>4, <2>2 DEF CreatingLink, Waits
  <2>4. Cardinality(InState(k, "open")) + Cardinality(CreatingLink(k)) <= Cardinality(Requests)
    BY DEF AccountInv, LinksBounded
  <2> QED BY <2>1, <2>3, <2>4, SetsOfLinks, BoundShrinks
<1> QED BY <1>3, <1>4

LEMMA CreateLinkCounts ==
  ASSUME AccountInv, NEW c \in Requests, CreateLink(c)
  PROVE  LinksBounded' /\ MailingStored'
<1>0. GoodRequests /\ links \in [Links -> Link] /\ Waits(c, "create_link")
  BY AccountTypes DEF AccountInv, CreateLink
<1>1. PICK l \in Links :
        /\ links' = [links EXCEPT ![l] = [kind |-> request[c].kind, state |-> "open"]]
        /\ request' = [request EXCEPT ![c].pc = "mail_link", ![c].link = l]
  BY DEF CreateLink
<1>2. /\ request'[c].pc = "mail_link" /\ request'[c].link = l
      /\ \A x \in Requests \ {c} : request'[x] = request[x]
  BY <1>0, <1>1 DEF GoodRequests, Request
<1>3. /\ links'[l].kind = request[c].kind /\ links'[l].state = "open"
      /\ \A j \in Links \ {l} : links'[j] = links[j]
  BY <1>0, <1>1
<1>4. ASSUME NEW k \in Kinds
      PROVE  Cardinality(InState(k, "open")') + Cardinality(CreatingLink(k)') <= Cardinality(Requests)
  <2>0. Cardinality(InState(k, "open")) + Cardinality(CreatingLink(k)) <= Cardinality(Requests)
    BY DEF AccountInv, LinksBounded
  <2>1. CASE request[c].kind = k
    <3>1. InState(k, "open")' \subseteq InState(k, "open") \cup {l}
      BY <1>3 DEF InState
    <3>2. c \in CreatingLink(k) /\ CreatingLink(k)' \subseteq CreatingLink(k) \ {c}
      BY <1>0, <1>2, <2>1 DEF CreatingLink, Waits
    <3> QED BY <2>0, <3>1, <3>2, SetsOfLinks, BoundMoves
  <2>2. CASE request[c].kind # k
    <3>1. InState(k, "open")' \subseteq InState(k, "open")
      BY <1>3, <2>2 DEF InState
    <3>2. CreatingLink(k)' \subseteq CreatingLink(k)
      BY <1>2 DEF CreatingLink, Waits
    <3> QED BY <2>0, <3>1, <3>2, SetsOfLinks, BoundShrinks
  <2> QED BY <2>1, <2>2
<1>5. \A x \in Requests : Waits(x, "mail_link") => request[x].link \in Links
  BY <1>0 DEF GoodRequests, GoodRequest, Waits
<1>6. MailingStored'
  BY <1>2, <1>3, <1>5 DEF MailingStored, Waits, AccountInv
<1> QED BY <1>4, <1>6 DEF LinksBounded

(* All other steps: who is about to store or to mail a link already was.   *)
KeepsCreating ==
  \A x \in Requests :
    request'[x].pc \in {"create_link", "mail_link"} =>
      /\ request'[x].pc = request[x].pc /\ request'[x].kind = request[x].kind /\ request'[x].link = request[x].link

LEMMA Keeping ==
  ASSUME AccountInv, NEW c \in Requests
  PROVE  /\ \A r : Becomes(c, r) /\ r.pc \notin {"create_link", "mail_link"} => KeepsCreating
         /\ Done(c) => KeepsCreating
         /\ \A r : Start(c, r) /\ GoodRequest(r) /\ r.pc \notin {"create_link", "mail_link"} => KeepsCreating
         /\ \A pc \in {"answer", "refused", "ended"} : Proceed(c, pc) => KeepsCreating
<1>0. GoodRequests
  BY AccountTypes DEF AccountInv
<1>1. \A r : Becomes(c, r) /\ r.pc \notin {"create_link", "mail_link"} => KeepsCreating
  BY DEF Becomes, KeepsCreating
<1>2. Done(c) => KeepsCreating
  BY <1>0, <1>1, RequestsMove, NoRequestIsGood
<1>3. \A r : Start(c, r) /\ GoodRequest(r) /\ r.pc \notin {"create_link", "mail_link"} => KeepsCreating
  BY <1>0, <1>1, RequestsMove
<1>4. ASSUME NEW pc \in {"answer", "refused", "ended"}, Proceed(c, pc) PROVE KeepsCreating
  <2>1. request'[c].pc = pc /\ \A x \in Requests \ {c} : request'[x] = request[x]
    BY <1>0, <1>4, RequestsProceed DEF Becomes
  <2> QED BY <2>1 DEF KeepsCreating
<1> QED BY <1>1, <1>2, <1>3, <1>4

(* A new request of NewRequests is not about to store a link.              *)
LEMMA NewKeeps ==
  ASSUME AccountInv, NEW c \in Requests
  PROVE  /\ \A p \in Pages, pc \in {"save_session", "end_session"} :
              Start(c, [NoRequest EXCEPT !.pc = pc, !.page = p]) => KeepsCreating
         /\ \A p \in Pages, pc \in {"save_session", "refused"} :
              Start(c, [NoRequest EXCEPT !.pc = pc, !.page = p, !.kind = "refresh"]) => KeepsCreating
         /\ \A pw \in Passwords : Start(c, [NoRequest EXCEPT !.pc = "change_password", !.password = pw]) => KeepsCreating
         /\ \A k \in Kinds : Start(c, [NoRequest EXCEPT !.pc = "spend_links", !.kind = k]) => KeepsCreating
         /\ \A l \in Links, pw \in Passwords :
              Start(c, [NoRequest EXCEPT !.pc = "reset_password", !.link = l, !.password = pw]) => KeepsCreating
         /\ \A l \in Links : Start(c, [NoRequest EXCEPT !.pc = "verify_email", !.link = l]) => KeepsCreating
<1>1. ASSUME NEW r, Start(c, r), r.pc \notin {"create_link", "mail_link"} PROVE KeepsCreating
  <2>1. request' = [request EXCEPT ![c] = r] /\ request \in [Requests -> Request]
    BY <1>1 DEF Start, AccountInv, AccountsTypeOK
  <2> QED BY <1>1, <2>1 DEF KeepsCreating
<1> QED BY <1>1 DEF NoRequest

(* All steps but those that store, spend or begin to store a link.         *)
LEMMA KeepingSteps ==
  ASSUME AccountInv, NEW c \in Requests,
         \/ \E p \in Pages, pw \in Passwords : Login(c, p, pw)
         \/ \E p \in Pages : RefreshTokens(c, p) \/ Logout(c, p)
         \/ \E p \in Pages, old, new \in Passwords : ChangePassword(c, p, old, new)
         \/ \E l \in Links, new \in Passwords : ResetPassword(c, l, new)
         \/ \E l \in Links : VerifyEmail(c, l)
         \/ ForgotPassword(c) \/ ResendVerification(c)
         \/ SaveRefreshTokenHash(c) \/ ReceiveTokens(c) \/ RefreshRefused(c)
         \/ EndSession(c) \/ ClearAuth(c) \/ WritePassword(c)
         \/ QueueMail(c) \/ WriteReset(c) \/ WriteVerified(c) \/ RequestFails(c)
  PROVE  /\ KeepsCreating /\ registered' = registered /\ registered
         /\ \A l \in Links : links'[l].state = "open" => links'[l] = links[l]
<1>0. GoodRequests /\ links \in [Links -> Link]
  BY AccountTypes DEF AccountInv
<1>1. registered' = registered
  BY DEF Login, RefreshTokens, Logout, ChangePassword, ResetPassword, VerifyEmail, ForgotPassword,
     ResendVerification, SaveRefreshTokenHash, ReceiveTokens, RefreshRefused, EndSession, ClearAuth,
     WritePassword, QueueMail, WriteReset, WriteVerified, RequestFails, userVars
<1>2. registered
  <2> SUFFICES ASSUME ~registered PROVE FALSE
    OBVIOUS
  <2>1. /\ \A x \in Requests : Waits(x, "idle")
        /\ \A l \in Links : links[l].state = "none"
        /\ \A p \in Pages : ~page[p].store
    BY DEF AccountInv, NobodyYet
  <2>2. ASSUME \/ \E p \in Pages, pw \in Passwords : Login(c, p, pw)
               \/ \E p \in Pages : RefreshTokens(c, p) \/ Logout(c, p)
               \/ \E p \in Pages, old, new \in Passwords : ChangePassword(c, p, old, new)
               \/ ForgotPassword(c) \/ ResendVerification(c)
        PROVE  FALSE
    BY <2>1, <2>2 DEF Login, RefreshTokens, Logout, ChangePassword, ForgotPassword, ResendVerification
  <2>3. ASSUME \/ \E l \in Links, new \in Passwords : ResetPassword(c, l, new)
               \/ \E l \in Links : VerifyEmail(c, l)
        PROVE  FALSE
    BY <2>1, <2>3 DEF ResetPassword, VerifyEmail, Valid, InState
  <2> QED BY <2>1, <2>2, <2>3 DEF Waits, SaveRefreshTokenHash, ReceiveTokens, RefreshRefused, EndSession, ClearAuth,
          WritePassword, QueueMail, WriteReset, WriteVerified, RequestFails
<1>3. KeepsCreating
  <2>1. CASE \/ \E p \in Pages, pw \in Passwords : Login(c, p, pw)
             \/ \E p \in Pages : RefreshTokens(c, p) \/ Logout(c, p)
             \/ \E p \in Pages, old, new \in Passwords : ChangePassword(c, p, old, new)
             \/ ForgotPassword(c) \/ ResendVerification(c)
    BY <2>1, NewKeeps DEF Login, RefreshTokens, Logout, ChangePassword, ForgotPassword, ResendVerification, Kinds
  <2>2. CASE \/ \E l \in Links, new \in Passwords : ResetPassword(c, l, new)
             \/ \E l \in Links : VerifyEmail(c, l)
    BY <2>2, NewKeeps DEF ResetPassword, VerifyEmail
  <2>3. CASE \/ ReceiveTokens(c) \/ RefreshRefused(c) \/ ClearAuth(c)
             \/ WritePassword(c) \/ QueueMail(c) \/ WriteReset(c) \/ WriteVerified(c)
    BY <2>3, Keeping DEF ReceiveTokens, RefreshRefused, ClearAuth, WritePassword, QueueMail, WriteReset, WriteVerified
  <2>4. CASE SaveRefreshTokenHash(c) \/ EndSession(c) \/ RequestFails(c)
    BY <2>4, Keeping DEF SaveRefreshTokenHash, EndSession, RequestFails
  <2> QED BY <2>1, <2>2, <2>3, <2>4
<1>4. \A l \in Links : links'[l].state = "open" => links'[l] = links[l]
  <2>1. CASE WriteReset(c) \/ WriteVerified(c)
    <3>1. links' = [links EXCEPT ![request[c].link].state = "spent"]
      BY <2>1 DEF WriteReset, WriteVerified
    <3> QED BY <1>0, <3>1 DEF Link
  <2>2. CASE UNCHANGED links
    BY <2>2
  <2> QED BY <2>1, <2>2 DEF Login, RefreshTokens, Logout, ChangePassword, ResetPassword, VerifyEmail, ForgotPassword,
     ResendVerification, SaveRefreshTokenHash, ReceiveTokens, RefreshRefused, EndSession, ClearAuth,
     WritePassword, QueueMail, RequestFails
<1> QED BY <1>1, <1>2, <1>3, <1>4

(* Mails.                                                                  *)
LEMMA MailsStep ==
  ASSUME AccountInv, [AccountsNext]_accountVars
  PROVE  MailedLinksStored'
<1>0. LinksLast /\ MailedLinksStored /\ mails \in [Links -> 0..Retries] /\ inbox \subseteq Links /\ GoodRequests
  BY LinkRowsStep, AccountTypes DEF AccountInv
<1>1. ASSUME NEW c \in Requests, QueueMail(c) PROVE MailedLinksStored'
  <2>1. links[request[c].link].state # "none" /\ request[c].link \in Links
    BY <1>0, <1>1 DEF AccountInv, MailingStored, QueueMail, GoodRequests, GoodRequest, Waits
  <2> QED BY <1>0, <1>1, <2>1 DEF QueueMail, MailedLinksStored, LinksLast
<1>2. ASSUME NEW l \in Links, ProcessMail(l) PROVE MailedLinksStored'
  <2>1. links[l].state # "none"
    BY <1>0, <1>2 DEF ProcessMail, MailedLinksStored
  <2>2. \A j \in Links : j # l => mails'[j] = mails[j]
    BY <1>0, <1>2 DEF ProcessMail
  <2>3. inbox' \subseteq inbox \cup {l}
    BY <1>2 DEF ProcessMail
  <2> QED BY <1>0, <2>1, <2>2, <2>3 DEF MailedLinksStored, LinksLast
<1>3. CASE UNCHANGED mailVars
  BY <1>0, <1>3 DEF MailedLinksStored, LinksLast, mailVars
<1>4. CASE UNCHANGED accountVars
  BY <1>3, <1>4 DEF accountVars, mailVars
<1>5. ASSUME NEW c \in Requests,
             \/ \E v \in Requests, p \in Pages, pw \in Passwords : RegisterAccount(c, v, p, pw)
             \/ \E p \in Pages, pw \in Passwords : Login(c, p, pw)
             \/ \E p \in Pages : RefreshTokens(c, p) \/ Logout(c, p)
             \/ \E p \in Pages, old, new \in Passwords : ChangePassword(c, p, old, new)
             \/ \E l \in Links, new \in Passwords : ResetPassword(c, l, new)
             \/ \E l \in Links : VerifyEmail(c, l)
             \/ ForgotPassword(c) \/ ResendVerification(c)
      PROVE  MailedLinksStored'
  BY <1>3, <1>5 DEF RegisterAccount, Login, RefreshTokens, Logout, ChangePassword, ResetPassword, VerifyEmail,
     ForgotPassword, ResendVerification
<1>6. ASSUME NEW c \in Requests,
             \/ SaveRefreshTokenHash(c) \/ ReceiveTokens(c) \/ RefreshRefused(c)
             \/ EndSession(c) \/ ClearAuth(c) \/ WritePassword(c)
             \/ SpendLinks(c) \/ CreateLink(c) \/ WriteReset(c) \/ WriteVerified(c) \/ RequestFails(c)
      PROVE  MailedLinksStored'
  BY <1>3, <1>6 DEF SaveRefreshTokenHash, ReceiveTokens, RefreshRefused, EndSession, ClearAuth, WritePassword,
     SpendLinks, CreateLink, WriteReset, WriteVerified, RequestFails
<1>7. ASSUME NEW l \in Links, LinkExpires(l) PROVE MailedLinksStored'
  BY <1>3, <1>7 DEF LinkExpires
<1>8. ASSUME (\E b \in Browsers : AccessTokenExpires(b)) \/ (\E p \in Pages : Reload(p))
      PROVE  MailedLinksStored'
  BY <1>3, <1>8 DEF AccessTokenExpires, Reload
<1> QED BY <1>1, <1>2, <1>4, <1>5, <1>6, <1>7, <1>8 DEF AccountsNext

LEMMA AccountStep == ASSUME AccountInv, [AccountsNext]_accountVars PROVE AccountInv'
<1>0. GoodRequests /\ links \in [Links -> Link]
  BY AccountTypes DEF AccountInv
<1>1. AccountsTypeOK' /\ SignedInHasTokens'
  <2>1. ClientSound'
    BY ClientsStep, AccountTypes DEF AccountInv, ClientSound
  <2>2. GoodRequests' /\ LinkRowsOK'
    BY RequestsStep, LinkRowsStep DEF AccountInv
  <2>3. AccountsTypeOK'
    BY <2>1, <2>2 DEF ClientSound, LinkRowsOK, AccountsTypeOK, GoodRequests, GoodRequest
  <2> QED BY <2>1, <2>3 DEF ClientSound
<1>2. MailedLinksStored' /\ LinksLast
  BY MailsStep, LinkRowsStep DEF AccountInv
<1>3. ASSUME KeepsCreating PROVE MailingStored'
  <2>1. \A x \in Requests : Waits(x, "mail_link") => request[x].link \in Links
    BY <1>0 DEF GoodRequests, GoodRequest, Waits
  <2> QED BY <1>2, <1>3, <2>1 DEF AccountInv, MailingStored, KeepsCreating, LinksLast, Waits
<1>4. ASSUME KeepsCreating, \A l \in Links : links'[l].state = "open" => links'[l] = links[l]
      PROVE  LinksBounded'
  BY <1>4, LinksShrink DEF KeepsCreating, Waits
<1>5. ASSUME NEW c \in Requests,
             \/ \E p \in Pages, pw \in Passwords : Login(c, p, pw)
             \/ \E p \in Pages : RefreshTokens(c, p) \/ Logout(c, p)
             \/ \E p \in Pages, old, new \in Passwords : ChangePassword(c, p, old, new)
             \/ \E l \in Links, new \in Passwords : ResetPassword(c, l, new)
             \/ \E l \in Links : VerifyEmail(c, l)
             \/ ForgotPassword(c) \/ ResendVerification(c)
             \/ SaveRefreshTokenHash(c) \/ ReceiveTokens(c) \/ RefreshRefused(c)
             \/ EndSession(c) \/ ClearAuth(c) \/ WritePassword(c)
             \/ QueueMail(c) \/ WriteReset(c) \/ WriteVerified(c) \/ RequestFails(c)
      PROVE  AccountInv'
  <2>1. /\ KeepsCreating /\ registered' = registered /\ registered
        /\ \A l \in Links : links'[l].state = "open" => links'[l] = links[l]
    BY <1>5, KeepingSteps
  <2>2. NobodyYet'
    BY <2>1 DEF NobodyYet
  <2> QED BY <1>1, <1>2, <1>3, <1>4, <2>1, <2>2 DEF AccountInv
<1>6. ASSUME NEW c \in Requests, NEW v \in Requests, NEW p \in Pages, NEW pw \in Passwords,
             RegisterAccount(c, v, p, pw)
      PROVE  AccountInv'
  <2>1. LinksBounded'
    BY <1>6, RegisterCounts
  <2>2. registered' /\ \A x \in Requests : Waits(x, "idle")
    BY <1>6 DEF RegisterAccount, AccountInv, NobodyYet
  <2>3. request' = [request EXCEPT ![c] = [NoRequest EXCEPT !.pc = "save_session", !.page = p],
                                   ![v] = [NoRequest EXCEPT !.pc = "create_link", !.kind = "verification"]]
    BY <1>6 DEF RegisterAccount
  <2>4. \A x \in Requests : request'[x].pc # "mail_link"
    BY <1>0, <2>2, <2>3 DEF GoodRequests, NoRequest, Waits
  <2> QED BY <1>1, <1>2, <2>1, <2>2, <2>4 DEF AccountInv, MailingStored, NobodyYet, Waits
<1>7. ASSUME NEW c \in Requests, SpendLinks(c) PROVE AccountInv'
  <2>1. LinksBounded'
    BY <1>7, SpendLinksCounts
  <2>2. registered' /\ ~Waits(c, "idle")
    BY <1>7 DEF SpendLinks, userVars, AccountInv, NobodyYet, Waits
  <2>3. request'[c].pc = "create_link" /\ \A x \in Requests \ {c} : request'[x] = request[x]
    BY <1>0, <1>7, RequestsProceed DEF SpendLinks, Becomes
  <2>4. \A x \in Requests : Waits(x, "mail_link") => request[x].link \in Links
    BY <1>0 DEF GoodRequests, GoodRequest, Waits
  <2>5. MailingStored'
    BY <1>2, <2>3, <2>4 DEF AccountInv, MailingStored, LinksLast, Waits
  <2> QED BY <1>1, <1>2, <2>1, <2>2, <2>5 DEF AccountInv, NobodyYet
<1>8. ASSUME NEW c \in Requests, CreateLink(c) PROVE AccountInv'
  <2>1. registered'
    BY <1>8 DEF CreateLink, userVars, AccountInv, NobodyYet, Waits
  <2> QED BY <1>1, <1>2, <1>8, <2>1, CreateLinkCounts DEF AccountInv, NobodyYet
<1>9. ASSUME NEW l \in Links, LinkExpires(l) PROVE AccountInv'
  <2>1. /\ KeepsCreating /\ request' = request /\ registered' = registered
        /\ \A j \in Links : links'[j].state = "open" => links'[j] = links[j]
    BY <1>0, <1>9 DEF LinkExpires, KeepsCreating, userVars, Link
  <2>2. registered
    BY <1>9 DEF LinkExpires, AccountInv, NobodyYet
  <2> QED BY <1>1, <1>2, <1>3, <1>4, <2>1, <2>2 DEF AccountInv, NobodyYet
<1>10. ASSUME UNCHANGED <<registered, links, request>>, UNCHANGED page,
              \A b \in Browsers : storage'[b].tokens = storage[b].tokens
       PROVE  AccountInv'
  <2>1. KeepsCreating /\ NobodyYet'
    BY <1>10 DEF KeepsCreating, NobodyYet, AccountInv, Waits
  <2> QED BY <1>1, <1>2, <1>3, <1>4, <1>10, <2>1 DEF AccountInv
<1>11. ASSUME NEW l \in Links, ProcessMail(l) PROVE AccountInv'
  BY <1>10, <1>11 DEF ProcessMail, userVars, clientVars
<1>12. ASSUME NEW b \in Browsers, AccessTokenExpires(b) PROVE AccountInv'
  <2>1. \A e \in Browsers : storage'[e].tokens = storage[e].tokens
    BY <1>12, AccountTypes DEF AccessTokenExpires, AccountInv, Storage
  <2> QED BY <1>10, <1>12, <2>1 DEF AccessTokenExpires, userVars
<1>13. ASSUME NEW p \in Pages, Reload(p) PROVE AccountInv'
  <2>1. \A e \in Pages : page'[e].store => page[e].store \/ storage[Browser(p)].tokens
    BY <1>13, AccountTypes DEF Reload, AccountInv
  <2>2. KeepsCreating /\ UNCHANGED <<registered, links, storage>>
    BY <1>0, <1>13, RequestsLeft DEF Reload, KeepsCreating, userVars
  <2>3. \A x \in Requests : Waits(x, "idle") => Waits(x, "idle")'
    BY <1>0, <1>13, RequestsLeft DEF Reload, Waits
  <2>4. Browser(p) \in Browsers
    BY DEF Pages, Browser
  <2>5. NobodyYet'
    BY <2>1, <2>2, <2>3, <2>4 DEF NobodyYet, AccountInv
  <2> QED BY <1>1, <1>2, <1>3, <1>4, <2>2, <2>5 DEF AccountInv
<1>14. CASE UNCHANGED accountVars
  BY <1>10, <1>14 DEF accountVars
<1> QED BY <1>5, <1>6, <1>7, <1>8, <1>9, <1>11, <1>12, <1>13, <1>14 DEF AccountsNext

LEMMA AccountInitial == AccountsInit => AccountInv
<1> SUFFICES ASSUME AccountsInit PROVE AccountInv
  OBVIOUS
<1>1. /\ \A l \in Links : links[l].state = "none" /\ mails[l] = 0
      /\ \A c \in Requests : request[c] = NoRequest
      /\ (\A b \in Browsers : ~storage[b].tokens) /\ \A p \in Pages : ~page[p].store
      /\ inbox = {}
  BY DEF AccountsInit, NoLink, Emptied
<1>2. AccountsTypeOK
  <2>1. NoLink \in Link /\ Emptied \in Storage /\ [store |-> FALSE, leaving |-> FALSE] \in PageState
    BY DEF NoLink, Link, Kinds, Emptied, Storage, PageState
  <2>2. GoodRequests
    BY NoRequestIsGood DEF GoodRequests, GoodRequest, AccountsInit
  <2>3. 0 \in 0..Retries
    BY AccountsAssumption
  <2> QED BY <2>1, <2>2, <2>3, AccountTypes DEF AccountsInit
<1>3. LinksBounded
  <2>1. \A k \in Kinds : InState(k, "open") = {} /\ CreatingLink(k) = {}
    BY <1>1, NoRequestIsGood DEF InState, CreatingLink, Waits
  <2>2. Cardinality({}) = 0
    BY FS_EmptySet
  <2>3. 0 + 0 <= Cardinality(Requests)
    BY SetsOfLinks
  <2> QED BY <2>1, <2>2, <2>3 DEF LinksBounded
<1>4. SignedInHasTokens /\ MailedLinksStored
  BY <1>1 DEF SignedInHasTokens, MailedLinksStored
<1>5. MailingStored /\ NobodyYet
  BY <1>1, NoRequestIsGood DEF MailingStored, NobodyYet, Waits
<1> QED BY <1>2, <1>3, <1>4, <1>5 DEF AccountInv

LEMMA AccountInvariant == AccountsSpec => []AccountInv
BY AccountInitial, AccountStep, PTL DEF AccountsSpec

(* However requests for links overlap, no more links of a kind are open    *)
(* than they are (AuthService.forgotPassword, resendVerification).         *)
THEOREM LinksBoundedCorrect == AccountsSpec => []LinksBounded
<1>1. AccountInv => LinksBounded
  BY DEF AccountInv
<1> QED BY <1>1, AccountInvariant, PTL

(* The mail worker never has a link that is not stored, in whatever order  *)
(* requests, mails and retries run (EmailProcessor, sendVerificationEmail). *)
THEOREM MailedLinksStoredCorrect == AccountsSpec => []MailedLinksStored
<1>1. AccountInv => MailedLinksStored
  BY DEF AccountInv
<1> QED BY <1>1, AccountInvariant, PTL

(* Of any number of browsers and pages: one that shows a signed-in user    *)
(* has tokens to send, unless it is about to be left or another page of    *)
(* its browser signed out or is about to be left (the admin client's       *)
(* interceptor, useAuth and authSlice).                                    *)
THEOREM SignedInHasTokensCorrect == AccountsSpec => []SignedInHasTokens
<1>1. AccountInv => SignedInHasTokens
  BY DEF AccountInv
<1> QED BY <1>1, AccountInvariant, PTL
===============================================================================
