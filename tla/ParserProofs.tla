---------------------------- MODULE ParserProofs ----------------------------
(***************************************************************************)
(* Theorems about module Parser, for all texts, limits and options.        *)
(***************************************************************************)
EXTENDS Parser, TLAPS, SequenceTheorems, FiniteSetTheorems, WellFoundedInduction

(* Open containers are counted values, and the count stays in its limit.   *)
OpenIsCounted ==
  /\ Len(stack) <= valueCount
  /\ pc # "done" => valueCount <= Limit("values")

IInv == TypeOK /\ HeldWithinLimits /\ DistinctKeys /\ KeyPhases /\ OpenIsCounted

-----------------------------------------------------------------------------
LEMMA LimitType == \A name \in LimitNames : Limit(name) \in Nat \ {0}
  BY OptAssumption, DefaultAssumption DEF Limit

(* The limits the invariants mention, as the numbers they are. *)
LEMMA Limits == /\ Limit("depth") \in Nat \ {0}
                /\ Limit("values") \in Nat \ {0}
                /\ \A k \in {"object", "array"} : CountLimit(k) \in Nat \ {0}
  BY LimitType DEF LimitNames, CountLimit

LEMMA FrontOf ==
  ASSUME NEW S, NEW s \in Seq(S), s # << >>
  PROVE  /\ Front(s) \in Seq(S)
         /\ Len(Front(s)) = Len(s) - 1
         /\ \A i \in 1..Len(Front(s)) : Front(s)[i] = s[i]
<1>. DEFINE n == Len(s) - 1
<1>1. n \in Nat /\ \A i \in 1..n : s[i] \in S
  BY EmptySeq, ElementOfSeq
<1>. HIDE DEF n
<1>3. /\ SubSeq(s, 1, n) \in Seq(S)
      /\ Len(SubSeq(s, 1, n)) = IF 1 <= n THEN n - 1 + 1 ELSE 0
      /\ \A i \in 1..(n - 1 + 1) : SubSeq(s, 1, n)[i] = s[1 + i - 1]
  BY <1>1, SubSeqProperties
<1>4. /\ Len(SubSeq(s, 1, n)) = n
      /\ \A i \in 1..n : SubSeq(s, 1, n)[i] = s[i]
  BY <1>1, <1>3
<1>2. /\ SubSeq(s, 1, Len(s) - 1) \in Seq(S)
      /\ Len(SubSeq(s, 1, Len(s) - 1)) = Len(s) - 1
      /\ \A i \in 1..(Len(s) - 1) : SubSeq(s, 1, Len(s) - 1)[i] = s[i]
  BY <1>3, <1>4 DEF n
<1>. QED  BY <1>2 DEF Front

-----------------------------------------------------------------------------
(* An error empties the stack: what the invariant says of it is void.      *)
LEMMA RejectKeeps ==
  ASSUME IInv, NEW class \in FailureClass, NEW lex \in Nat, NEW byte \in Nat,
         NEW d \in Nat, d >= Len(stack), valueCount' \in Nat,
         RejectAt(class, lex, byte, d)
  PROVE  IInv'
<1>1. TypeOK'
  BY DEF IInv, TypeOK, RejectAt, Verdict, Control, End
<1>2. (HeldWithinLimits /\ DistinctKeys /\ KeyPhases /\ OpenIsCounted)'
  BY <1>1, Limits DEF RejectAt, HeldWithinLimits, DistinctKeys, KeyPhases,
                      OpenIsCounted, TypeOK
<1>. QED  BY <1>1, <1>2 DEF IInv

(* '}' and ']': the frame goes with its depth, and the object around it is *)
(* one whose key waits for this value.                                     *)
LEMMA CloseKeeps ==
  ASSUME IInv, pc \in {"open", "next"}, pos < End, CloseFrame
  PROVE  IInv'
<1>. DEFINE s == Front(stack)
<1>1. stack \in Seq(Frame) /\ stack # << >> /\ depth = Len(stack) /\ Len(stack) \in Nat \ {0}
  BY EmptySeq DEF IInv, TypeOK, KeyPhases, HeldWithinLimits
<1>2. /\ s \in Seq(Frame)
      /\ Len(s) = Len(stack) - 1
      /\ \A i \in 1..Len(s) : s[i] = stack[i]
  BY <1>1, FrontOf
<1>3. stack' = s /\ depth' = depth - 1 /\ pos' = pos + 1 /\ UNCHANGED <<input, valueCount, verdict>>
  BY DEF CloseFrame
<1>4. pc' = IF s = << >> THEN "trailing" ELSE "append"
  BY DEF CloseFrame, ReturnTo
<1>5. TypeOK'
  BY <1>1, <1>2, <1>3, <1>4 DEF IInv, TypeOK, Control, End
<1>6. HeldWithinLimits'
  BY <1>1, <1>2, <1>3, <1>4, Limits DEF IInv, HeldWithinLimits, TypeOK
<1>7. DistinctKeys'
  BY <1>1, <1>2, <1>3 DEF IInv, DistinctKeys
<1>8. KeyPhases'
  BY <1>1, <1>2, <1>3, <1>4 DEF IInv, KeyPhases
<1>9. OpenIsCounted'
  BY <1>1, <1>2, <1>3, <1>4 DEF IInv, OpenIsCounted, TypeOK
<1>. QED  BY <1>5, <1>6, <1>7, <1>8, <1>9 DEF IInv

-----------------------------------------------------------------------------
(* A step that leaves the stack alone.                                     *)
LEMMA StackUnchangedKeeps ==
  ASSUME IInv, UNCHANGED <<input, depth, stack, verdict>>, pos' \in 1..End,
         pc' \in Control \ {"start", "done"}, pc # "done",
         valueCount' \in Nat, valueCount' >= valueCount, valueCount' <= Limit("values"),
         KeyPhases'
  PROVE  IInv'
<1>1. TypeOK'
  BY DEF IInv, TypeOK, End
<1>2. HeldWithinLimits'
  BY DEF IInv, HeldWithinLimits
<1>3. DistinctKeys'
  BY DEF IInv, DistinctKeys
<1>4. OpenIsCounted'
  BY Limits DEF IInv, OpenIsCounted, TypeOK
<1>. QED  BY <1>1, <1>2, <1>3, <1>4 DEF IInv

LEMMA InitHolds == Init => IInv
<1>. SUFFICES ASSUME Init PROVE IInv  OBVIOUS
<1>1. TypeOK
  BY InputsAssumption DEF Init, TypeOK, Control, Verdict, End
<1>. QED
  BY <1>1, Limits DEF Init, IInv, HeldWithinLimits, DistinctKeys, KeyPhases, OpenIsCounted

LEMMA StartKeeps == IInv /\ Start => IInv'
<1>. SUFFICES ASSUME IInv, Start PROVE IInv'  OBVIOUS
<1>. USE DEF IInv, TypeOK
<1>0. pc = "start" /\ stack = << >> /\ depth = 0 /\ pos \in Nat
  BY DEF Start, StartTooLarge, StartInvalidUTF8, StartDescent, KeyPhases, HeldWithinLimits, End
<1>1. CASE StartTooLarge
  BY <1>0, <1>1, RejectKeeps DEF StartTooLarge, FailureClass
<1>2. CASE StartInvalidUTF8
  BY <1>0, <1>2, RejectKeeps DEF StartInvalidUTF8, InvalidBytes, FailureClass
<1>3. CASE StartDescent
  <2>1. pos' \in 1..End /\ pc' = "value" /\ UNCHANGED <<input, depth, valueCount, stack, verdict>>
    BY <1>3 DEF StartDescent, SkipWs, End
  <2>2. KeyPhases'
    BY <1>0, <2>1 DEF KeyPhases
  <2>. QED  BY <1>0, <2>1, <2>2, StackUnchangedKeeps DEF Control, OpenIsCounted
<1>. QED  BY <1>1, <1>2, <1>3 DEF Start

LEMMA PeekedLexeme ==
  ASSUME IInv, Peek # None
  PROVE  pos < End /\ input[pos] \in Lexeme /\ pos \in 1..Len(input)
  BY DEF IInv, TypeOK, Peek, End

(* parseValue pushes a frame in which nothing has been read.               *)
LEMMA OpenKeeps == IInv /\ OpenContainer => IInv'
<1>. SUFFICES ASSUME IInv, OpenContainer PROVE IInv'  OBVIOUS
<1>. DEFINE f == OpenFrame(Peek)
<1>1. pos < End /\ stack \in Seq(Frame) /\ depth = Len(stack) /\ Len(stack) \in Nat
      /\ valueCount \in Nat /\ pc = "value" /\ valueCount' = valueCount + 1
      /\ valueCount + 1 <= Limit("values") /\ pc' = "open" /\ depth' = depth + 1
      /\ depth + 1 <= Limit("depth")
  BY PeekedLexeme DEF IInv, TypeOK, HeldWithinLimits, OpenContainer, CountValue, WithinValues, None
<1>2. f \in Frame /\ f.items = << >> /\ f.seen = {} /\ f.key = NoKey /\ f.kind \in {"object", "array"}
  BY DEF OpenFrame, Frame
<1>3. stack' = Append(stack, f) /\ input' = input /\ verdict' = verdict
  BY DEF OpenContainer
<1>11. pos' \in 1..End
  <2>1. \E j \in (pos + 1)..End : pos' = j
    BY DEF OpenContainer, SkipWs
  <2>. QED  BY <1>1, <2>1 DEF IInv, TypeOK, End
<1>4. /\ stack' \in Seq(Frame)
      /\ Len(stack') = Len(stack) + 1
      /\ \A i \in 1..Len(stack) : stack'[i] = stack[i]
      /\ stack'[Len(stack) + 1] = f
  BY <1>1, <1>2, <1>3, AppendProperties
<1>5. TypeOK'
  BY <1>1, <1>3, <1>4, <1>11 DEF IInv, TypeOK, Control, End
<1>6. WithinCount(f) /\ KeysDistinctIn(f)
  BY <1>2, Limits, NoKeyAssumption DEF WithinCount, KeysDistinctIn
<1>. HIDE DEF f
<1>7. HeldWithinLimits'
  BY <1>1, <1>4, <1>6 DEF IInv, HeldWithinLimits
<1>8. DistinctKeys'
  BY <1>1, <1>4, <1>6 DEF IInv, DistinctKeys
<1>9. KeyPhases'
  BY <1>1, <1>2, <1>4 DEF IInv, KeyPhases, Top
<1>10. OpenIsCounted'
  BY <1>1, <1>4 DEF IInv, OpenIsCounted
<1>. QED  BY <1>5, <1>7, <1>8, <1>9, <1>10 DEF IInv

LEMMA ParseValueKeeps == IInv /\ ParseValue => IInv'
<1>. SUFFICES ASSUME IInv, ParseValue PROVE IInv'  OBVIOUS
<1>7. CountValue
  BY DEF ParseValue, ValueOverLimit, OpenContainer, DepthOverLimit, Scalar, ScalarError, NoValue
<1>0. /\ pc = "value" /\ valueCount' = valueCount + 1 /\ valueCount' \in Nat
      /\ pos \in Nat /\ depth = Len(stack) /\ depth \in Nat
  BY <1>7 DEF IInv, TypeOK, CountValue, HeldWithinLimits, End
<1>8. /\ {"BoundExceeded", "InvalidGrammar"} \subseteq FailureClass
      /\ depth + 1 \in Nat /\ depth + 1 >= Len(stack) /\ depth >= Len(stack)
  BY <1>0 DEF FailureClass
<1>1. CASE ValueOverLimit
  BY <1>0, <1>1, <1>8, RejectKeeps DEF ValueOverLimit
<1>2. CASE OpenContainer
  BY <1>2, OpenKeeps
<1>3. CASE DepthOverLimit
  BY <1>0, <1>3, <1>8, RejectKeeps DEF DepthOverLimit
<1>4. CASE Scalar
  <2>1. /\ pos' \in 1..End
        /\ UNCHANGED <<input, depth, stack, verdict>>
        /\ pc' = IF stack = << >> THEN "trailing" ELSE "append"
        /\ valueCount' <= Limit("values")
    BY <1>0, <1>4, PeekedLexeme DEF Scalar, ReturnTo, None, End, WithinValues, IInv, TypeOK
  <2>2. KeyPhases'
    BY <1>0, <2>1 DEF KeyPhases, IInv
  <2>. QED  BY <1>0, <2>1, <2>2, StackUnchangedKeeps DEF Control, IInv, TypeOK
<1>5. CASE ScalarError
  <2>1. input[pos] \in Lexeme
    BY <1>5, PeekedLexeme DEF ScalarError, None
  <2>2. input[pos].fail \in FailureClass /\ input[pos].at \in Nat
    BY <1>5, <2>1 DEF ScalarError, Lexeme
  <2>. QED  BY <1>0, <1>5, <2>2, RejectKeeps DEF ScalarError
<1>6. CASE NoValue
  BY <1>0, <1>6, <1>8, RejectKeeps DEF NoValue
<1>. QED  BY <1>1, <1>2, <1>3, <1>4, <1>5, <1>6 DEF ParseValue

(* The reject of the pieces that count no value. *)
LEMMA RejectHereKeeps ==
  ASSUME IInv, NEW class \in FailureClass, NEW byte \in Nat, pc # "done", Reject(class, byte)
  PROVE  IInv'
<1>1. pos \in Nat /\ depth \in Nat /\ depth >= Len(stack) /\ valueCount' \in Nat
  BY DEF IInv, TypeOK, HeldWithinLimits, Reject, End
<1>. QED  BY <1>1, RejectKeeps DEF Reject

LEMMA OpenStepKeeps == IInv /\ OpenStep => IInv'
<1>. SUFFICES ASSUME IInv, OpenStep PROVE IInv'  OBVIOUS
<1>. USE DEF IInv, TypeOK
<1>1. CASE CloseEmpty
  BY <1>1, PeekedLexeme, CloseKeeps DEF CloseEmpty, Closing, None
<1>2. CASE EnterLoop
  <2>1. /\ pos' \in 1..End
        /\ UNCHANGED <<input, depth, valueCount, stack, verdict>>
        /\ pc = "open" /\ pc' = IF Top.kind = "object" THEN "key" ELSE "value"
    BY <1>2 DEF EnterLoop, End
  <2>2. KeyPhases'
    BY <2>1 DEF KeyPhases, Top
  <2>. QED  BY <2>1, <2>2, StackUnchangedKeeps DEF Control, OpenIsCounted
<1>3. CASE OpenAtEnd
  BY <1>3, RejectHereKeeps DEF OpenAtEnd, FailureClass
<1>. QED  BY <1>1, <1>2, <1>3 DEF OpenStep

(* A step that replaces the innermost frame by g.                          *)
LEMMA TopReplacedKeeps ==
  ASSUME IInv, stack # << >>, pc \notin {"start", "done"}, NEW g \in Frame,
         stack' = [stack EXCEPT ![Len(stack)] = g],
         UNCHANGED <<input, depth, valueCount, verdict>>, pos' \in 1..End,
         pc' \in {"colon", "next"}, g.kind = Top.kind, pc' = "colon" => g.kind = "object",
         WithinCount(g), g.kind = "object" => KeysDistinctIn(g),
         g.kind = "object" => (g.key = NoKey <=> pc' = "next")
  PROVE  IInv'
<1>1. stack \in Seq(Frame) /\ Len(stack) \in Nat \ {0} /\ Len(stack) \in 1..Len(stack)
  BY EmptySeq DEF IInv, TypeOK
<1>2. /\ stack' \in Seq(Frame)
      /\ Len(stack') = Len(stack)
      /\ \A i \in 1..Len(stack) : stack'[i] = IF i = Len(stack) THEN g ELSE stack[i]
  BY <1>1, ExceptSeq
<1>3. TypeOK'
  BY <1>2 DEF IInv, TypeOK, Control, End
<1>4. HeldWithinLimits'
  BY <1>1, <1>2, ZenonT(40) DEF IInv, HeldWithinLimits
<1>5. DistinctKeys'
  BY <1>1, <1>2, ZenonT(40) DEF IInv, DistinctKeys
<1>6. KeyPhases'
  BY <1>1, <1>2 DEF IInv, KeyPhases, Top
<1>7. OpenIsCounted'
  BY <1>2 DEF IInv, OpenIsCounted
<1>. QED  BY <1>3, <1>4, <1>5, <1>6, <1>7 DEF IInv

(* The innermost frame and what the invariant says of it. *)
LEMMA TopFrame ==
  ASSUME IInv, pc \in {"open", "key", "colon", "append", "next"}
  PROVE  /\ stack # << >>
         /\ Top \in Frame
         /\ Top = stack[Len(stack)]
         /\ WithinCount(Top)
         /\ Top.kind = "object" => KeysDistinctIn(Top)
         /\ Top.kind = "object" => (Top.key = NoKey <=> pc \in {"open", "key", "next"})
<1>1. stack # << >> /\ stack \in Seq(Frame) /\ Len(stack) \in 1..Len(stack)
  BY EmptySeq DEF IInv, TypeOK, KeyPhases
<1>2. stack[Len(stack)] \in Frame
  BY <1>1, ElementOfSeq
<1>. QED  BY <1>1, <1>2 DEF IInv, Top, HeldWithinLimits, DistinctKeys, KeyPhases

(* A new key: different from every member's, and remembered as seen.       *)
LEMMA KeyKeeps == IInv /\ Key /\ Top.kind = "object" => IInv'
<1>. SUFFICES ASSUME IInv, Key, Top.kind = "object" PROVE IInv'  OBVIOUS
<1>. DEFINE k == input[pos].text
            g == [Top EXCEPT !.seen = @ \cup {k}, !.key = k]
<1>1. input[pos] \in Lexeme /\ pos < End /\ pos \in Nat
  BY PeekedLexeme DEF Key, None, IInv, TypeOK, End
<1>2. Top \in Frame /\ Top.key = NoKey /\ KeysDistinctIn(Top) /\ WithinCount(Top) /\ stack # << >>
  BY TopFrame DEF Key
<1>3. k \in Texts /\ k \notin Top.seen /\ k # NoKey
  BY <1>1, NoKeyAssumption DEF Lexeme, Key, Duplicate
<1>4. /\ g \in Frame /\ g.kind = "object" /\ g.key = k
      /\ g.items = Top.items /\ g.seen = Top.seen \cup {k}
  BY <1>2, <1>3 DEF Frame
<1>5. stack' = [stack EXCEPT ![Len(stack)] = g] /\ UNCHANGED <<input, depth, valueCount, verdict>>
      /\ pc = "key" /\ pc' = "colon"
  BY DEF Key, ReplaceTop
<1>6. pos' \in 1..End
  <2>1. \E j \in (pos + 1)..End : pos' = j
    BY DEF Key, SkipWs
  <2>. QED  BY <1>1, <2>1 DEF IInv, TypeOK, End
<1>. HIDE DEF g, k
<1>7. WithinCount(g) /\ KeysDistinctIn(g)
  BY <1>2, <1>3, <1>4 DEF WithinCount, KeysDistinctIn
<1>. QED  BY <1>2, <1>3, <1>4, <1>5, <1>6, <1>7, TopReplacedKeeps

LEMMA MemberKeyKeeps == IInv /\ MemberKey => IInv'
<1>. SUFFICES ASSUME IInv, MemberKey PROVE IInv'  OBVIOUS
<1>1. pc \in {"key", "colon"} /\ Top.kind = "object"
  BY DEF MemberKey, Key, DuplicateKeyError, KeyError, NoKeyError, Colon, NoColonError,
         IInv, KeyPhases
<1>2. {"DuplicateKey", "InvalidGrammar"} \subseteq FailureClass
  BY DEF FailureClass
<1>3. CASE Key
  BY <1>1, <1>3, KeyKeeps
<1>4. CASE DuplicateKeyError
  BY <1>1, <1>2, <1>4, RejectHereKeeps DEF DuplicateKeyError
<1>5. CASE KeyError
  <2>1. input[pos] \in Lexeme
    BY <1>5, PeekedLexeme DEF KeyError, None
  <2>2. input[pos].fail \in FailureClass /\ input[pos].at \in Nat
    BY <1>5, <2>1 DEF KeyError, Lexeme
  <2>. QED  BY <1>1, <1>5, <2>2, RejectHereKeeps DEF KeyError
<1>6. CASE NoKeyError
  BY <1>1, <1>2, <1>6, RejectHereKeeps DEF NoKeyError, ExpectFails
<1>7. CASE Colon
  <2>1. pos < End /\ pos \in Nat
    BY <1>7, PeekedLexeme DEF Colon, None, IInv, TypeOK, End
  <2>2. \E j \in (pos + 1)..End : pos' = j
    BY <1>7 DEF Colon, SkipWs
  <2>3. pos' \in 1..End
    BY <2>1, <2>2 DEF IInv, TypeOK, End
  <2>4. pc = "colon" /\ pc' = "value" /\ UNCHANGED <<input, depth, valueCount, stack, verdict>>
    BY <1>7 DEF Colon
  <2>5. KeyPhases'
    BY <2>4 DEF IInv, KeyPhases
  <2>. QED  BY <2>3, <2>4, <2>5, StackUnchangedKeeps DEF Control, IInv, TypeOK, OpenIsCounted
<1>8. CASE NoColonError
  BY <1>1, <1>2, <1>8, RejectHereKeeps DEF NoColonError, ExpectFails
<1>. QED  BY <1>3, <1>4, <1>5, <1>6, <1>7, <1>8 DEF MemberKey

(* The pending key becomes a member: it was in none, and is seen already.  *)
LEMMA AppendKeeps == IInv /\ AppendItem => IInv'
<1>. SUFFICES ASSUME IInv, AppendItem PROVE IInv'  OBVIOUS
<1>. DEFINE g == [Top EXCEPT !.items = Append(@, Top.key), !.key = NoKey]
<1>1. pc = "append" /\ pc' = "next" /\ HasRoom /\ UNCHANGED <<input, depth, valueCount, verdict>>
      /\ stack' = [stack EXCEPT ![Len(stack)] = g]
  BY DEF AppendItem, ReplaceTop
<1>2. /\ Top \in Frame /\ stack # << >>
      /\ Top.kind = "object" => KeysDistinctIn(Top) /\ Top.key # NoKey
  BY <1>1, TopFrame
<1>3. /\ Top.items \in Seq(Texts \cup {NoKey}) /\ Top.key \in Texts \cup {NoKey}
      /\ Top.kind \in {"object", "array"}
  BY <1>2 DEF Frame
<1>4. /\ g \in Frame /\ g.kind = Top.kind /\ g.key = NoKey /\ g.seen = Top.seen
      /\ g.items = Append(Top.items, Top.key)
  BY <1>2, <1>3, AppendProperties DEF Frame
<1>5. /\ Len(g.items) = Len(Top.items) + 1 /\ Len(Top.items) \in Nat
      /\ \A i \in 1..Len(Top.items) : g.items[i] = Top.items[i]
      /\ g.items[Len(Top.items) + 1] = Top.key
  BY <1>3, <1>4, AppendProperties, LenProperties
<1>6. pos' \in 1..End
  <2>1. \E j \in pos..End : pos' = j
    BY DEF AppendItem, SkipWs
  <2>. QED  BY <2>1 DEF IInv, TypeOK, End
<1>. HIDE DEF g
<1>7. WithinCount(g)
  <2>1. Len(Top.items) < CountLimit(Top.kind)
    BY <1>1 DEF HasRoom
  <2>2. CountLimit(Top.kind) \in Nat
    BY <1>3, Limits
  <2>3. Len(g.items) <= CountLimit(Top.kind)
    BY <1>5, <2>1, <2>2
  <2>. QED  BY <1>4, <2>3 DEF WithinCount
<1>8. ASSUME g.kind = "object" PROVE KeysDistinctIn(g)
  <2>1. KeysDistinctIn(Top) /\ Top.key # NoKey
    BY <1>2, <1>4, <1>8
  <2>2. {g.items[i] : i \in 1..Len(g.items)} = {Top.items[i] : i \in 1..Len(Top.items)} \cup {Top.key}
    <3>1. /\ \A i \in 1..Len(g.items) : i \in 1..Len(Top.items) \/ i = Len(Top.items) + 1
          /\ \A i \in 1..Len(Top.items) : i \in 1..Len(g.items)
          /\ Len(Top.items) + 1 \in 1..Len(g.items)
      BY <1>5
    <3>2. \A i \in 1..Len(g.items) :
            g.items[i] \in {Top.items[j] : j \in 1..Len(Top.items)} \cup {Top.key}
      BY <1>5, <3>1, Zenon
    <3>3. /\ \A j \in 1..Len(Top.items) :
               Top.items[j] \in {g.items[i] : i \in 1..Len(g.items)}
          /\ Top.key \in {g.items[i] : i \in 1..Len(g.items)}
      BY <1>5, <3>1, Zenon
    <3>. QED  BY <3>2, <3>3
  <2>3. \A i, j \in 1..Len(g.items) : g.items[i] = g.items[j] => i = j
    <3>1. /\ \A i, j \in 1..Len(Top.items) : Top.items[i] = Top.items[j] => i = j
          /\ \A i \in 1..Len(Top.items) : Top.items[i] # Top.key
      BY <2>1 DEF KeysDistinctIn
    <3>. QED  BY <1>5, <3>1
  <2>4. NoKey \notin {g.items[i] : i \in 1..Len(g.items)}
    BY <1>2, <2>1, <2>2, NoKeyAssumption DEF KeysDistinctIn, Frame
  <2>5. g.seen = {g.items[i] : i \in 1..Len(g.items)} \cup ({g.key} \ {NoKey})
    BY <1>4, <2>1, <2>2 DEF KeysDistinctIn
  <2>. QED  BY <1>4, <2>3, <2>4, <2>5 DEF KeysDistinctIn
<1>. QED  BY <1>1, <1>2, <1>4, <1>6, <1>7, <1>8, TopReplacedKeeps

LEMMA LoopStepKeeps == IInv /\ LoopStep => IInv'
<1>. SUFFICES ASSUME IInv, LoopStep PROVE IInv'  OBVIOUS
<1>1. {"BoundExceeded", "InvalidGrammar"} \subseteq FailureClass
  BY DEF FailureClass
<1>2. CASE AppendItem
  BY <1>2, AppendKeeps
<1>3. CASE CountOverLimit
  BY <1>1, <1>3, RejectHereKeeps DEF CountOverLimit
<1>4. CASE NextItem
  <2>0. Peek # None
    BY <1>4 DEF NextItem, None
  <2>1. pos < End /\ pos \in Nat
    BY <2>0, PeekedLexeme DEF IInv, TypeOK, End
  <2>2. \E j \in (pos + 1)..End : pos' = j
    BY <1>4 DEF NextItem, SkipWs
  <2>3. pos' \in 1..End
    BY <2>1, <2>2 DEF IInv, TypeOK, End
  <2>4. /\ pc = "next" /\ UNCHANGED <<input, depth, valueCount, stack, verdict>>
        /\ pc' = IF Top.kind = "object" THEN "key" ELSE "value"
    BY <1>4 DEF NextItem
  <2>5. KeyPhases'
    BY <2>4 DEF IInv, KeyPhases, Top
  <2>. QED  BY <2>3, <2>4, <2>5, StackUnchangedKeeps DEF Control, IInv, TypeOK, OpenIsCounted
<1>5. CASE CloseContainer
  BY <1>5, PeekedLexeme, CloseKeeps DEF CloseContainer, Closing, None
<1>6. CASE NoNextError
  BY <1>1, <1>6, RejectHereKeeps DEF NoNextError
<1>. QED  BY <1>2, <1>3, <1>4, <1>5, <1>6 DEF LoopStep

LEMMA FinishKeeps == IInv /\ Finish => IInv'
<1>. SUFFICES ASSUME IInv, Finish PROVE IInv'  OBVIOUS
<1>1. pc = "trailing" /\ stack = << >> /\ depth = 0 /\ valueCount \in Nat /\ pos \in Nat
  BY DEF Finish, Accept, TrailingContent, IInv, TypeOK, KeyPhases, HeldWithinLimits, End
<1>2. CASE Accept
  <2>1. pos' = End /\ pc' = "done" /\ UNCHANGED <<input, depth, valueCount, stack, verdict>>
    BY <1>2 DEF Accept
  <2>. QED
    BY <1>1, <2>1, Limits DEF IInv, TypeOK, HeldWithinLimits, DistinctKeys, KeyPhases,
                             OpenIsCounted, Control, End
<1>3. CASE TrailingContent
  <2>1. PICK j \in pos..(End - 1) : RejectAt("InvalidGrammar", j, 0, depth)
    BY <1>3 DEF TrailingContent
  <2>2. j \in Nat
    BY <1>1, <2>1 DEF IInv, TypeOK, End
  <2>3. valueCount' = valueCount
    BY <1>3 DEF TrailingContent
  <2>. QED  BY <1>1, <2>1, <2>2, <2>3, RejectKeeps DEF FailureClass
<1>. QED  BY <1>2, <1>3 DEF Finish

LEMMA StutterKeeps == IInv /\ UNCHANGED vars => IInv'
BY DEF vars, IInv, TypeOK, HeldWithinLimits, DistinctKeys, KeyPhases, OpenIsCounted, End, Top

(* The inductive invariant holds in every state of the parser.             *)
THEOREM Invariance == Spec => []IInv
<1>1. Init => IInv
  BY InitHolds
<1>2. IInv /\ [Next]_vars => IInv'
  BY StartKeeps, ParseValueKeeps, OpenStepKeeps, MemberKeyKeeps, LoopStepKeeps,
     FinishKeeps, StutterKeeps DEF Next
<1>. QED  BY <1>1, <1>2, PTL DEF Spec

(* The parser's variables keep their types on every text.                  *)
THEOREM TypeCorrect == Spec => []TypeOK
BY Invariance, PTL DEF IInv

(* The nesting counter equals the number of open containers, and neither   *)
(* nesting nor any member or element list ever exceeds its limit, for      *)
(* every choice of Options and defaults (BOUND-DEPTH, -MEMBERS, -ELEMS).   *)
THEOREM LimitsRespected == Spec => []HeldWithinLimits
BY Invariance, PTL DEF IInv

(* No object under construction holds two members with one decoded key,    *)
(* and the map used to detect duplicates never loses or invents a key      *)
(* (IJSON-DUP-001, IJSON-DUP-002).                                         *)
THEOREM KeysAreDistinct == Spec => []DistinctKeys
BY Invariance, PTL DEF IInv

(* The open containers never outnumber the values counted, nor these the   *)
(* limit (BOUND-VALUES-001).                                               *)
THEOREM ValuesBounded == Spec => []OpenIsCounted
BY Invariance, PTL DEF IInv

-----------------------------------------------------------------------------
LEMMA RankOfControl ==
  /\ Rank("start") = 4 /\ Rank("open") = 3 /\ Rank("append") = 3
  /\ Rank("value") = 2 /\ Rank("key") = 2 /\ Rank("colon") = 2 /\ Rank("next") = 2
  /\ Rank("trailing") = 1 /\ Rank("done") = 0
  /\ \A c \in Control \ {"done"} : Rank(c) > 0
BY DEF Rank, Control

(* Every step of the descent consumes text or lowers the rank of the piece *)
(* it continues with: with the finite text this is why Parse returns.      *)
THEOREM AlwaysProgresses == Spec => Progress
<1>. DEFINE Step == pos' > pos \/ (pos' = pos /\ Rank(pc') < Rank(pc))
<1>1. IInv /\ Next => Step
  <2>. SUFFICES ASSUME IInv, Next PROVE Step  OBVIOUS
  <2>1. pos \in Nat /\ End \in Nat
    BY DEF IInv, TypeOK, End
  <2>2. ASSUME NEW class, NEW lex, NEW byte, NEW d, RejectAt(class, lex, byte, d), pc # "done"
        PROVE  Step
    BY <2>2, RankOfControl DEF RejectAt, IInv, TypeOK
  <2>3. ASSUME NEW i \in {pos, pos + 1}, SkipWs(i)
        PROVE  pos' \in Nat /\ pos' >= i
    BY <2>1, <2>3 DEF SkipWs
  <2>4. CASE Start
    BY <2>1, <2>2, <2>3, <2>4, RankOfControl DEF Start, StartTooLarge, StartInvalidUTF8, StartDescent
  <2>5. CASE ParseValue
    <3>1. CASE OpenContainer
      <4>1. SkipWs(pos + 1)
        BY <3>1 DEF OpenContainer
      <4>. QED  BY <2>1, <2>3, <4>1
    <3>2. CASE Scalar
      BY <2>1, <3>2 DEF Scalar
    <3>. QED
      BY <2>2, <2>5, <3>1, <3>2 DEF ParseValue, ValueOverLimit, DepthOverLimit, ScalarError,
                                    NoValue, CountValue
  <2>6. CASE OpenStep
    <3>1. CASE CloseEmpty
      BY <2>1, <3>1 DEF CloseEmpty, CloseFrame
    <3>2. CASE EnterLoop
      BY <3>2, RankOfControl DEF EnterLoop
    <3>. QED  BY <2>2, <2>6, <3>1, <3>2 DEF OpenStep, OpenAtEnd, Reject
  <2>7. CASE MemberKey
    <3>1. CASE Key \/ Colon
      <4>1. SkipWs(pos + 1)
        BY <3>1 DEF Key, Colon
      <4>. QED  BY <2>1, <2>3, <4>1
    <3>. QED
      BY <2>2, <2>7, <3>1 DEF MemberKey, DuplicateKeyError, KeyError, NoKeyError, NoColonError,
                              ExpectFails, Reject
  <2>8. CASE LoopStep
    <3>1. CASE AppendItem
      <4>1. SkipWs(pos) /\ pc = "append" /\ pc' = "next"
        BY <3>1 DEF AppendItem
      <4>. QED  BY <2>1, <2>3, <4>1, RankOfControl
    <3>2. CASE NextItem
      <4>1. SkipWs(pos + 1)
        BY <3>2 DEF NextItem
      <4>. QED  BY <2>1, <2>3, <4>1
    <3>3. CASE CloseContainer
      BY <2>1, <3>3 DEF CloseContainer, CloseFrame
    <3>. QED  BY <2>2, <2>8, <3>1, <3>2, <3>3 DEF LoopStep, CountOverLimit, NoNextError, Reject
  <2>9. CASE Finish
    <3>1. CASE Accept
      <4>1. pos' = End /\ pc = "trailing" /\ pc' = "done"
        BY <3>1 DEF Accept
      <4>2. pos <= End
        BY DEF IInv, TypeOK, End
      <4>. QED  BY <2>1, <4>1, <4>2, RankOfControl
    <3>2. CASE TrailingContent
      BY <2>2, <3>2 DEF TrailingContent
    <3>. QED  BY <2>9, <3>1, <3>2 DEF Finish
  <2>. QED  BY <2>4, <2>5, <2>6, <2>7, <2>8, <2>9 DEF Next
<1>2. IInv /\ [Next]_vars => [Step]_vars
  BY <1>1
<1>. QED  BY <1>2, Invariance, PTL DEF Spec, Progress

-----------------------------------------------------------------------------
(* The rest of the module proves AcceptsExactly.  JsonText says what a     *)
(* text is by pieces that are found in rounds, the parser by a stack; they *)
(* meet in two statements about the text T, the parser's place c in its    *)
(* descent, its stack S, the next lexeme q and its count of values v:      *)
(*   Fits      what is left of T, from q on, is what c and S still need;   *)
(*   Recorded  what lies before q keeps the limits, and each frame of S    *)
(*             has the items and the keys of the container it stands for.  *)
(* Every step of the parser carries both from one lexeme to the next, or   *)
(* returns an error because one of them cannot go on.                      *)

(* Induction over the naturals, as a set without a least element. *)
LEMMA LeastElement ==
  ASSUME NEW B, B \subseteq Nat, B # {}
  PROVE  \E i \in B : \A j \in B : i <= j
<1>1. PICK i \in B : \A j \in B : ~(<<j, i>> \in OpToRel(<, Nat))
  BY NatLessThanWellFounded, WFMin
<1>2. OpToRel(<, Nat) = {ss \in Nat \X Nat : ss[1] < ss[2]}
  BY DEF OpToRel
<1>3. ASSUME NEW j \in B, j < i PROVE FALSE
  <2>1. <<j, i>> \in Nat \X Nat
    OBVIOUS
  <2>. QED  BY <1>1, <1>2, <1>3, <2>1
<1>4. \A j \in B : i <= j
  BY <1>3
<1>. QED  BY <1>4

(* A function on 0..N may be defined by recursion, *)
Rule(G, N, S)         == G \in [S \X (1..N) -> S]
Recurs(f, N, S, e, G) == f \in [0..N -> S] /\ f[0] = e /\ \A n \in 1..N : f[n] = G[<<f[n - 1], n>>]

LEMMA Recursion ==
  ASSUME NEW N \in Nat, NEW S, NEW e \in S, NEW G, Rule(G, N, S)
  PROVE  \E f : Recurs(f, N, S, e, G)
<1> DEFINE P(k) == \E f \in [0..k -> S] : f[0] = e /\ \A n \in 1..k : f[n] = G[<<f[n - 1], n>>]
           B == {k \in 0..N : ~P(k)}
<1>1. B \subseteq Nat
  OBVIOUS
<1>2. CASE B = {}
  <2>1. N \in 0..N
    OBVIOUS
  <2>2. P(N)
    <3> HIDE DEF P
    <3>. QED  BY <1>2, <2>1
  <2>. QED  BY <2>2 DEF Recurs
<1>3. CASE B # {}
  <2>1. PICK k \in B : \A j \in B : k <= j
    <3> HIDE DEF B
    <3>. QED  BY <1>1, <1>3, LeastElement
  <2>2. k \in Nat /\ k <= N /\ ~P(k)
    <3> HIDE DEF P
    <3>. QED  OBVIOUS
  <2>3. k # 0
    <3>1. P(0)
      <4> DEFINE z == [n \in 0..0 |-> e]
      <4>1. z \in [0..0 -> S] /\ z[0] = e /\ \A n \in 1..0 : FALSE
        OBVIOUS
      <4> HIDE DEF z
      <4>. QED  BY <4>1
    <3> HIDE DEF P
    <3>. QED  BY <2>2, <3>1
  <2>4. P(k - 1)
    <3>1. k - 1 \in 0..N /\ ~(k <= k - 1)
      BY <2>2, <2>3
    <3>2. k - 1 \notin B
      <4> HIDE DEF B
      <4>. QED  BY <2>1, <3>1
    <3> HIDE DEF P
    <3>. QED  BY <3>1, <3>2
  <2>5. PICK f \in [0..(k - 1) -> S] :
               f[0] = e /\ \A n \in 1..(k - 1) : f[n] = G[<<f[n - 1], n>>]
    BY <2>4
  <2> DEFINE g == [n \in 0..k |-> IF n = k THEN G[<<f[k - 1], k>>] ELSE f[n]]
  <2>6. f[k - 1] \in S /\ <<f[k - 1], k>> \in S \X (1..N)
    BY <2>2, <2>3
  <2>7. g \in [0..k -> S]
    <3>1. \A n \in 0..k : n # k => f[n] \in S
      BY <2>2
    <3>2. G[<<f[k - 1], k>>] \in S
      BY <2>6 DEF Rule
    <3>. QED  BY <3>1, <3>2
  <2>8. g[0] = e /\ g[k] = G[<<f[k - 1], k>>] /\ \A n \in 0..(k - 1) : g[n] = f[n]
    BY <2>2, <2>3, <2>5
  <2>9. \A n \in 1..k : g[n] = G[<<g[n - 1], n>>]
    <3> SUFFICES ASSUME NEW n \in 1..k PROVE g[n] = G[<<g[n - 1], n>>]
      OBVIOUS
    <3>1. n - 1 \in 0..(k - 1)
      BY <2>2
    <3> HIDE DEF g
    <3>2. g[n - 1] = f[n - 1]
      BY <2>8, <3>1
    <3>3. CASE n = k
      BY <2>8, <3>2, <3>3
    <3>4. CASE n # k
      <4>1. n \in 1..(k - 1) /\ n \in 0..(k - 1)
        BY <2>2, <3>4
      <4>. QED  BY <2>5, <2>8, <3>2, <4>1
    <3>. QED  BY <3>3, <3>4
  <2>10. P(k)
    <3> HIDE DEF g
    <3>. QED  BY <2>7, <2>8, <2>9
  <2> HIDE DEF P
  <2>. QED  BY <2>2, <2>10
<1>. QED  BY <1>2, <1>3

(* and its values stay in a set that the recursion does not leave. *)
LEMMA Closed ==
  ASSUME NEW N \in Nat, NEW S, NEW f, f[0] \in S,
         \A n \in 1..N : f[n - 1] \in S => f[n] \in S
  PROVE  \A n \in 0..N : f[n] \in S
<1> DEFINE B == {n \in 0..N : f[n] \notin S}
<1>1. SUFFICES ASSUME B # {} PROVE FALSE
  OBVIOUS
<1>2. B \subseteq Nat
  OBVIOUS
<1>3. PICK n \in B : \A j \in B : n <= j
  <2> HIDE DEF B
  <2>. QED  BY <1>1, <1>2, LeastElement
<1>4. n \in 1..N /\ n - 1 \in 0..N /\ ~(n <= n - 1)
  OBVIOUS
<1>5. n - 1 \notin B
  <2> HIDE DEF B
  <2>. QED  BY <1>3, <1>4
<1>. QED  BY <1>4, <1>5

-----------------------------------------------------------------------------
(* The text without whitespace. *)
LEMMA KeptIs ==
  ASSUME NEW s \in Seq(Lexeme)
  PROVE  /\ Len(s) \in Nat /\ Ref!Kept(s)[0] = << >>
         /\ \A n \in 0..Len(s) : Ref!Kept(s)[n] \in Seq(Lexeme)
         /\ \A n \in 1..Len(s) :
              Ref!Kept(s)[n] = IF s[n].kind = "ws" THEN Ref!Kept(s)[n - 1]
                               ELSE Append(Ref!Kept(s)[n - 1], s[n])
<1> DEFINE N == Len(s)
           V(w, n) == IF s[n].kind = "ws" THEN w ELSE Append(w, s[n])
           F(f) == [n \in 0..N |-> IF n = 0 THEN << >> ELSE V(f[n - 1], n)]
           G == [x \in Seq(Lexeme) \X (1..N) |-> V(x[1], x[2])]
<1>0. N \in Nat /\ \A n \in 1..N : s[n] \in Lexeme
  BY LenProperties, ElementOfSeq
<1>1. << >> \in Seq(Lexeme) /\ \A w \in Seq(Lexeme), n \in 1..N : V(w, n) \in Seq(Lexeme)
  <2>1. << >> \in Seq(Lexeme)
    OBVIOUS
  <2>2. \A w \in Seq(Lexeme), n \in 1..N : Append(w, s[n]) \in Seq(Lexeme)
    BY <1>0, AppendProperties
  <2>. QED  BY <2>1, <2>2
<1>2. Ref!Kept(s) = CHOOSE f : f = F(f)
  BY DEF Ref!Kept
<1> HIDE DEF N, V
<1>3. \E f : f = F(f)
  <2>1. Rule(G, N, Seq(Lexeme))
    BY <1>1 DEF Rule
  <2>2. PICK f : Recurs(f, N, Seq(Lexeme), << >>, G)
    <3> HIDE DEF G
    <3>. QED  BY <1>0, <1>1, <2>1, Recursion, Zenon
  <2>3. f \in [0..N -> Seq(Lexeme)] /\ f[0] = << >> /\ \A n \in 1..N : f[n] = G[<<f[n - 1], n>>]
    <3> HIDE DEF G
    <3>. QED  BY <2>2 DEF Recurs
  <2>4. ASSUME NEW n \in 1..N PROVE f[n] = V(f[n - 1], n)
    <3>1. n - 1 \in 0..N
      BY <1>0
    <3>2. <<f[n - 1], n>> \in Seq(Lexeme) \X (1..N)
      BY <2>3, <3>1
    <3>3. G[<<f[n - 1], n>>] = V(f[n - 1], n)
      BY <3>2
    <3> HIDE DEF G
    <3>. QED  BY <2>3, <3>3
  <2>5. \A n \in 0..N : f[n] = IF n = 0 THEN << >> ELSE V(f[n - 1], n)
    <3>1. \A n \in 0..N : n = 0 \/ (n # 0 /\ n \in 1..N)
      BY <1>0
    <3>. QED  BY <2>3, <2>4, <3>1
  <2>6. f = F(f)
    <3>1. f = [n \in 0..N |-> f[n]]
      BY <2>3
    <3>. QED  BY <2>5, <3>1
  <2>. QED  BY <2>6
<1>4. Ref!Kept(s) = F(Ref!Kept(s))
  <2> HIDE DEF F
  <2>. QED  BY <1>2, <1>3
<1>5. \A n \in 0..N : Ref!Kept(s)[n] = IF n = 0 THEN << >> ELSE V(Ref!Kept(s)[n - 1], n)
  BY <1>4
<1>6. 0 \in 0..N /\ \A n \in 1..N : n \in 0..N /\ n # 0
  BY <1>0
<1>7. Ref!Kept(s)[0] = << >> /\ \A n \in 1..N : Ref!Kept(s)[n] = V(Ref!Kept(s)[n - 1], n)
  BY <1>5, <1>6
<1>8. \A n \in 0..N : Ref!Kept(s)[n] \in Seq(Lexeme)
  BY <1>0, <1>1, <1>7, Closed
<1>. QED  BY <1>0, <1>7, <1>8 DEF N, V

(* A text that goes on from another. *)
Starts(u, v) == Len(u) <= Len(v) /\ \A k \in 1..Len(u) : v[k] = u[k]

LEMMA KeptGrows ==
  ASSUME NEW s \in Seq(Lexeme), NEW m \in 0..Len(s), NEW n \in m..Len(s)
  PROVE  Starts(Ref!Kept(s)[m], Ref!Kept(s)[n])
<1> DEFINE f == Ref!Kept(s)
           B == {k \in m..Len(s) : ~Starts(f[m], f[k])}
<1>1. Len(s) \in Nat /\ \A k \in 0..Len(s) : f[k] \in Seq(Lexeme) /\ Len(f[k]) \in Nat
  BY KeptIs, LenProperties
<1>2. SUFFICES ASSUME B # {} PROVE FALSE
  OBVIOUS
<1>3. PICK k \in B : \A j \in B : k <= j
  <2>1. B \subseteq Nat
    BY <1>1
  <2> HIDE DEF B
  <2>. QED  BY <1>2, <2>1, LeastElement
<1>4. ~Starts(f[m], f[k]) /\ k \in m..Len(s)
  OBVIOUS
<1>5. k # m
  <2>1. Starts(f[m], f[m])
    BY <1>1 DEF Starts
  <2>. QED  BY <1>4, <2>1
<1>6. k \in 1..Len(s) /\ k - 1 \in m..Len(s) /\ k - 1 \in 0..Len(s) /\ ~(k <= k - 1)
  BY <1>1, <1>4, <1>5
<1>7. Starts(f[m], f[k - 1])
  <2>1. k - 1 \notin B
    <3> HIDE DEF B
    <3>. QED  BY <1>3, <1>6
  <2>. QED  BY <1>6, <2>1
<1>8. Starts(f[k - 1], f[k]) /\ Len(f[k - 1]) <= Len(f[k])
  <2>1. f[k] = f[k - 1] \/ f[k] = Append(f[k - 1], s[k])
    BY <1>6, KeptIs
  <2>2. CASE f[k] = f[k - 1]
    BY <1>1, <1>6, <2>2 DEF Starts
  <2>3. CASE f[k] = Append(f[k - 1], s[k])
    <3> HIDE DEF f
    <3>1. f[k - 1] \in Seq(Lexeme) /\ s[k] \in Lexeme
      BY <1>1, <1>6, ElementOfSeq
    <3>. QED  BY <2>3, <3>1, AppendProperties, LenProperties DEF Starts
  <2>. QED  BY <2>1, <2>2, <2>3
<1>9. Len(f[m]) \in Nat /\ Len(f[k - 1]) \in Nat /\ Len(f[k]) \in Nat
  BY <1>1, <1>6
<1>10. Starts(f[m], f[k])
  <2> HIDE DEF f, B
  <2>. QED  BY <1>7, <1>8, <1>9 DEF Starts
<1>. QED  BY <1>4, <1>10

(* how many lexemes that are no whitespace precede lexeme i of the input *)
At(i) == Len(Ref!Kept(input)[i - 1])

LEMMA TokensAre ==
  ASSUME input \in Seq(Lexeme)
  PROVE  /\ Text \in Seq(Lexeme) /\ Len(Text) \in Nat /\ End \in Nat
         /\ \A i \in 1..End : At(i) \in 0..Len(Text)
         /\ At(1) = 0 /\ At(End) = Len(Text)
         /\ \A i \in 1..Len(input) :
              IF input[i].kind = "ws" THEN At(i + 1) = At(i)
              ELSE At(i + 1) = At(i) + 1 /\ At(i) + 1 \in 1..Len(Text) /\ Text[At(i) + 1] = input[i]
<1> DEFINE f == Ref!Kept(input)
<1>1. /\ Len(input) \in Nat /\ f[0] = << >>
      /\ \A n \in 0..Len(input) : f[n] \in Seq(Lexeme) /\ Len(f[n]) \in Nat
      /\ \A n \in 1..Len(input) : f[n] = IF input[n].kind = "ws" THEN f[n - 1]
                                         ELSE Append(f[n - 1], input[n])
  BY KeptIs, LenProperties
<1>2. Text = f[Len(input)]
  BY DEF Text, Ref!NoWs
<1>3. \A n \in 0..Len(input) : Starts(f[n], Text)
  BY <1>1, <1>2, KeptGrows
<1> HIDE DEF f
<1>4. Text \in Seq(Lexeme) /\ Len(Text) \in Nat
  BY <1>1, <1>2
<1>5. \A i : At(i) = Len(f[i - 1])
  BY DEF At, f
<1>6. End \in Nat /\ \A i \in 1..End : i - 1 \in 0..Len(input)
  BY <1>1 DEF End
<1>7. \A i \in 1..End : At(i) \in 0..Len(Text)
  <2> SUFFICES ASSUME NEW i \in 1..End PROVE At(i) \in 0..Len(Text)
    OBVIOUS
  <2>1. Len(f[i - 1]) \in Nat /\ Len(f[i - 1]) <= Len(Text)
    BY <1>1, <1>3, <1>6 DEF Starts
  <2>. QED  BY <1>4, <1>5, <2>1
<1>8. At(1) = 0 /\ At(End) = Len(Text)
  <2>1. 1 - 1 = 0 /\ End - 1 = Len(input) /\ Len(<< >>) = 0
    BY <1>1 DEF End
  <2>. QED  BY <1>1, <1>2, <1>5, <2>1
<1>9. ASSUME NEW i \in 1..Len(input)
      PROVE  IF input[i].kind = "ws" THEN At(i + 1) = At(i)
             ELSE At(i + 1) = At(i) + 1 /\ At(i) + 1 \in 1..Len(Text) /\ Text[At(i) + 1] = input[i]
  <2>1. (i + 1) - 1 = i /\ i - 1 \in 0..Len(input) /\ i \in 0..Len(input)
    BY <1>1
  <2>2. At(i) = Len(f[i - 1]) /\ At(i + 1) = Len(f[i])
    BY <1>5, <2>1
  <2>3. CASE input[i].kind = "ws"
    BY <1>1, <2>2, <2>3
  <2>4. CASE input[i].kind # "ws"
    <3>1. f[i] = Append(f[i - 1], input[i]) /\ f[i - 1] \in Seq(Lexeme) /\ input[i] \in Lexeme
      BY <1>1, <2>1, <2>4, ElementOfSeq
    <3>2. /\ Len(f[i]) = Len(f[i - 1]) + 1 /\ f[i][Len(f[i - 1]) + 1] = input[i]
          /\ Len(f[i - 1]) \in Nat
      BY <3>1, AppendProperties, LenProperties
    <3>3. Len(f[i]) <= Len(Text) /\ \A k \in 1..Len(f[i]) : Text[k] = f[i][k]
      BY <1>3, <2>1 DEF Starts
    <3> DEFINE a == Len(f[i - 1])
               b == Len(f[i])
    <3>4. a \in Nat /\ b = a + 1 /\ b \in 1..b /\ b <= Len(Text)
      BY <3>2, <3>3
    <3>5. Text[b] = input[i] /\ At(i) = a /\ At(i + 1) = b
      BY <2>2, <3>2, <3>3, <3>4
    <3>6. b \in 1..Len(Text)
      <4> HIDE DEF a, b
      <4>. QED  BY <1>4, <3>4
    <3> HIDE DEF a, b
    <3>7. At(i + 1) = At(i) + 1 /\ At(i) + 1 \in 1..Len(Text) /\ Text[At(i) + 1] = input[i]
      BY <3>4, <3>5, <3>6
    <3>. QED  BY <2>4, <3>7
  <2>. QED  BY <2>3, <2>4
<1>. QED  BY <1>4, <1>6, <1>7, <1>8, <1>9

(* Skipping whitespace passes no lexeme of the text, *)
LEMMA SkippedIs ==
  ASSUME input \in Seq(Lexeme), NEW i \in 1..End, NEW j \in i..End, SkipsTo(i, j)
  PROVE  /\ At(j) = At(i)
         /\ j < End => /\ input[j].kind # "ws" /\ At(i) + 1 \in 1..Len(Text)
                       /\ Text[At(i) + 1] = input[j]
         /\ j = End => At(i) = Len(Text)
<1>0. End \in Nat /\ End = Len(input) + 1 /\ Len(input) \in Nat
  BY TokensAre, LenProperties DEF End
<1> DEFINE B == {k \in i..j : At(k) # At(i)}
<1>1. B = {}
  <2>1. SUFFICES ASSUME B # {} PROVE FALSE
    OBVIOUS
  <2>2. PICK k \in B : \A l \in B : k <= l
    <3>1. B \subseteq Nat
      BY <1>0
    <3> HIDE DEF B
    <3>. QED  BY <2>1, <3>1, LeastElement
  <2>3. k \in (i + 1)..j /\ k - 1 \in i..(j - 1) /\ k - 1 \in i..j /\ ~(k <= k - 1)
        /\ k - 1 \in 1..Len(input) /\ (k - 1) + 1 = k /\ At(k) # At(i)
    BY <1>0
  <2>4. At(k - 1) = At(i)
    <3>1. k - 1 \notin B
      <4> HIDE DEF B
      <4>. QED  BY <2>2, <2>3
    <3>. QED  BY <2>3, <3>1
  <2>5. input[k - 1].kind = "ws"
    BY <2>3 DEF SkipsTo
  <2>6. At(k) = At(k - 1)
    BY <2>3, <2>5, TokensAre
  <2>. QED  BY <2>3, <2>4, <2>6
<1>2. At(j) = At(i)
  <2>1. j \in i..j
    BY <1>0
  <2>. QED  BY <1>1, <2>1
<1>3. ASSUME j < End
      PROVE  /\ input[j].kind # "ws" /\ At(i) + 1 \in 1..Len(Text)
             /\ Text[At(i) + 1] = input[j]
  <2>1. input[j].kind # "ws" /\ j \in 1..Len(input)
    BY <1>0, <1>3 DEF SkipsTo
  <2>. QED  BY <1>2, <2>1, TokensAre
<1>4. j = End => At(i) = Len(Text)
  BY <1>2, TokensAre
<1>. QED  BY <1>2, <1>3, <1>4

-----------------------------------------------------------------------------
(* The pieces of a text.  A rule looks at shorter pieces only, *)
Agree(d, f, N, k) ==
  \A sym \in Ref!Symbols : \A i, j \in 1..N :
    i <= j /\ j - i < k => (<<sym, i, j>> \in d <=> <<sym, i, j>> \in f)

LEMMA SymbolsAre ==
  /\ "value" \in Ref!Symbols /\ "elements" \in Ref!Symbols /\ "members" \in Ref!Symbols
  /\ \A sym \in Ref!Symbols : sym = "value" \/ sym = "elements" \/ sym = "members"
BY DEF Ref!Symbols

LEMMA RuleIsLocal ==
  ASSUME NEW s, Len(s) \in Nat, NEW d, NEW f, NEW sym \in Ref!Symbols,
         NEW i \in 1..Len(s), NEW j \in 1..Len(s), i <= j, Agree(d, f, Len(s), j - i)
  PROVE  Ref!Derives(s, d, sym, i, j) <=> Ref!Derives(s, f, sym, i, j)
<1> DEFINE N == Len(s)
<1>1. ASSUME NEW x \in Ref!Symbols, NEW a \in 1..N, NEW b \in 1..N, a <= b, b - a < j - i
      PROVE  <<x, a, b>> \in d <=> <<x, a, b>> \in f
  BY <1>1 DEF Agree
<1>2. ASSUME NEW x \in {"elements", "members"}, NEW a \in i..N
      PROVE  Ref!ValueAndMore(s, d, x, a, j) <=> Ref!ValueAndMore(s, f, x, a, j)
  <2>1. ASSUME NEW e \in a..(j - 1)
        PROVE  /\ <<"value", a, e>> \in d <=> <<"value", a, e>> \in f
               /\ Ref!AfterItem(s, d, x, e + 1, j) <=> Ref!AfterItem(s, f, x, e + 1, j)
    <3>1. a \in 1..N /\ e \in 1..N /\ a <= e /\ e - a < j - i
      BY <1>2, <2>1
    <3>2. <<"value", a, e>> \in d <=> <<"value", a, e>> \in f
      BY <1>1, <3>1, SymbolsAre
    <3>3. e + 1 < j => (<<x, (e + 1) + 1, j>> \in d <=> <<x, (e + 1) + 1, j>> \in f)
      <4>1. SUFFICES ASSUME e + 1 < j
                     PROVE  <<x, (e + 1) + 1, j>> \in d <=> <<x, (e + 1) + 1, j>> \in f
        OBVIOUS
      <4>2. (e + 1) + 1 \in 1..N /\ (e + 1) + 1 <= j /\ j - ((e + 1) + 1) < j - i
        BY <1>2, <2>1, <3>1, <4>1
      <4>3. x \in Ref!Symbols
        BY <1>2, SymbolsAre
      <4>. QED  BY <1>1, <4>2, <4>3
    <3>. QED  BY <3>2, <3>3 DEF Ref!AfterItem
  <2>. QED  BY <2>1 DEF Ref!ValueAndMore
<1>3. CASE sym = "value"
  <2>1. ASSUME NEW x \in {"elements", "members"}, i < j
        PROVE  <<x, i + 1, j>> \in d <=> <<x, i + 1, j>> \in f
    <3>1. i + 1 \in 1..N /\ i + 1 <= j /\ j - (i + 1) < j - i
      BY <2>1
    <3>2. x \in Ref!Symbols
      BY <2>1, SymbolsAre
    <3>. QED  BY <1>1, <3>1, <3>2
  <2>. QED  BY <1>3, <2>1 DEF Ref!Derives
<1>4. CASE sym = "elements"
  <2>1. i \in i..N
    OBVIOUS
  <2>. QED  BY <1>2, <1>4, <2>1 DEF Ref!Derives
<1>5. CASE sym = "members"
  <2>1. i + 1 < j => i + 2 \in i..N
    OBVIOUS
  <2>. QED  BY <1>2, <1>5, <2>1 DEF Ref!Derives
<1>. QED  BY <1>3, <1>4, <1>5, SymbolsAre

(* so that every round leaves the pieces of its length as they stay. *)
LEMMA RoundsAre ==
  ASSUME NEW s, Len(s) \in Nat
  PROVE  /\ Ref!Rounds(s)[0] = {}
         /\ \A n \in 1..Len(s) : Ref!Rounds(s)[n] = Ref!Step(s, Ref!Rounds(s)[n - 1])
<1> DEFINE N == Len(s)
           U == Ref!Symbols \X (1..N) \X (1..N)
           V(d) == Ref!Step(s, d)
           F(f) == [n \in 0..N |-> IF n = 0 THEN {} ELSE V(f[n - 1])]
           G == [x \in (SUBSET U) \X (1..N) |-> V(x[1])]
<1>0. N \in Nat
  OBVIOUS
<1>1. {} \in SUBSET U /\ \A d : V(d) \in SUBSET U
  BY DEF Ref!Step
<1>2. Ref!Rounds(s) = CHOOSE f : f = F(f)
  BY DEF Ref!Rounds
<1> HIDE DEF N, V, U
<1>3. \E f : f = F(f)
  <2>1. Rule(G, N, SUBSET U)
    BY <1>1 DEF Rule
  <2>2. PICK f : Recurs(f, N, SUBSET U, {}, G)
    <3> HIDE DEF G
    <3>. QED  BY <1>0, <1>1, <2>1, Recursion, Zenon
  <2>3. f \in [0..N -> SUBSET U] /\ f[0] = {} /\ \A n \in 1..N : f[n] = G[<<f[n - 1], n>>]
    <3> HIDE DEF G
    <3>. QED  BY <2>2 DEF Recurs
  <2>4. ASSUME NEW n \in 1..N PROVE f[n] = V(f[n - 1])
    <3>1. n - 1 \in 0..N
      BY <1>0
    <3>2. <<f[n - 1], n>> \in (SUBSET U) \X (1..N)
      BY <2>3, <3>1
    <3>3. G[<<f[n - 1], n>>] = V(f[n - 1])
      BY <3>2
    <3> HIDE DEF G
    <3>. QED  BY <2>3, <3>3
  <2>5. \A n \in 0..N : f[n] = IF n = 0 THEN {} ELSE V(f[n - 1])
    <3>1. \A n \in 0..N : n = 0 \/ (n # 0 /\ n \in 1..N)
      BY <1>0
    <3>. QED  BY <2>3, <2>4, <3>1
  <2>6. f = F(f)
    <3>1. f = [n \in 0..N |-> f[n]]
      BY <2>3
    <3>. QED  BY <2>5, <3>1
  <2>. QED  BY <2>6
<1>4. Ref!Rounds(s) = F(Ref!Rounds(s))
  <2> HIDE DEF F
  <2>. QED  BY <1>2, <1>3
<1>5. \A n \in 0..N : Ref!Rounds(s)[n] = IF n = 0 THEN {} ELSE V(Ref!Rounds(s)[n - 1])
  BY <1>4
<1>6. 0 \in 0..N /\ \A n \in 1..N : n \in 0..N /\ n # 0
  BY <1>0
<1>. QED  BY <1>5, <1>6 DEF N, V

LEMMA InStep ==
  ASSUME NEW s, NEW d, NEW sym \in Ref!Symbols, NEW i \in 1..Len(s), NEW j \in 1..Len(s)
  PROVE  <<sym, i, j>> \in Ref!Step(s, d) <=> i <= j /\ Ref!Derives(s, d, sym, i, j)
<1>1. <<sym, i, j>> \in Ref!Symbols \X (1..Len(s)) \X (1..Len(s))
  OBVIOUS
<1>2. <<sym, i, j>>[1] = sym /\ <<sym, i, j>>[2] = i /\ <<sym, i, j>>[3] = j
  OBVIOUS
<1>. QED  BY <1>1, <1>2, Zenon DEF Ref!Step

LEMMA RoundsAgree ==
  ASSUME NEW s, Len(s) \in Nat, NEW k \in 0..Len(s), NEW m \in k..Len(s)
  PROVE  Agree(Ref!Rounds(s)[k], Ref!Rounds(s)[m], Len(s), k)
<1> DEFINE N == Len(s)
           R == Ref!Rounds(s)
           P(n) == \A l \in n..N : Agree(R[n], R[l], N, n)
           B == {n \in 0..N : ~P(n)}
<1>1. B = {}
  <2>1. SUFFICES ASSUME B # {} PROVE FALSE
    OBVIOUS
  <2>2. PICK n \in B : \A l \in B : n <= l
    <3>1. B \subseteq Nat
      OBVIOUS
    <3> HIDE DEF B
    <3>. QED  BY <2>1, <3>1, LeastElement
  <2>3. n \in 0..N /\ ~P(n)
    OBVIOUS
  <2>4. n # 0
    <3>1. \A i, j \in 1..N : ~(i <= j /\ j - i < 0)
      OBVIOUS
    <3>2. P(0)
      BY <3>1 DEF Agree
    <3> HIDE DEF P
    <3>. QED  BY <2>3, <3>2
  <2>5. n - 1 \in 0..N /\ ~(n <= n - 1) /\ n \in 1..N
    BY <2>3, <2>4
  <2>6. P(n - 1)
    <3>1. n - 1 \notin B
      <4> HIDE DEF B
      <4>. QED  BY <2>2, <2>5
    <3> HIDE DEF P
    <3>. QED  BY <2>5, <3>1
  <2>7. ASSUME NEW l \in n..N, NEW sym \in Ref!Symbols, NEW i \in 1..N, NEW j \in 1..N,
               i <= j, j - i < n
        PROVE  <<sym, i, j>> \in R[n] <=> <<sym, i, j>> \in R[l]
    <3>1. l \in 1..N /\ l - 1 \in (n - 1)..N
      BY <2>5, <2>7
    <3>2. R[n] = Ref!Step(s, R[n - 1]) /\ R[l] = Ref!Step(s, R[l - 1])
      BY <2>5, <3>1, RoundsAre
    <3>3. Agree(R[n - 1], R[l - 1], N, n - 1)
      BY <2>6, <3>1
    <3>4. Agree(R[n - 1], R[l - 1], N, j - i)
      <4>1. \A a, b \in 1..N : b - a < j - i => b - a < n - 1
        BY <2>5, <2>7
      <4>. QED  BY <3>3, <4>1 DEF Agree
    <3> HIDE DEF R
    <3>5. Ref!Derives(s, R[n - 1], sym, i, j) <=> Ref!Derives(s, R[l - 1], sym, i, j)
      BY <2>7, <3>4, RuleIsLocal
    <3>. QED  BY <2>7, <3>2, <3>5, InStep
  <2>8. P(n)
    BY <2>7 DEF Agree
  <2>. QED  BY <2>3, <2>8
<1>2. P(k)
  <2> HIDE DEF P
  <2>. QED  BY <1>1
<1>. QED  BY <1>2

(* The pieces are those that the rules make of them. *)
LEMMA PieceIs ==
  ASSUME NEW s, Len(s) \in Nat, NEW sym \in Ref!Symbols, NEW i \in 1..Len(s), NEW j \in 1..Len(s)
  PROVE  <<sym, i, j>> \in Ref!Pieces(s) <=> i <= j /\ Ref!Derives(s, Ref!Pieces(s), sym, i, j)
<1> DEFINE N == Len(s)
           R == Ref!Rounds(s)
<1>1. N \in 1..N /\ N - 1 \in 0..N /\ N \in (N - 1)..N
  OBVIOUS
<1>2. R[N] = Ref!Step(s, R[N - 1]) /\ Ref!Pieces(s) = R[N]
  BY <1>1, RoundsAre DEF Ref!Pieces
<1>3. Agree(R[N - 1], R[N], N, N - 1)
  BY <1>1, RoundsAgree
<1> HIDE DEF R
<1>4. ASSUME i <= j
      PROVE  Ref!Derives(s, R[N - 1], sym, i, j) <=> Ref!Derives(s, R[N], sym, i, j)
  <2>1. Agree(R[N - 1], R[N], N, j - i)
    <3>1. \A a, b \in 1..N : b - a < j - i => b - a < N - 1
      OBVIOUS
    <3>. QED  BY <1>3, <3>1 DEF Agree
  <2>. QED  BY <1>4, <2>1, RuleIsLocal
<1>. QED  BY <1>2, <1>4, InStep

LEMMA PiecesInside ==
  ASSUME NEW s, Len(s) \in Nat, NEW sym, NEW i, NEW j, <<sym, i, j>> \in Ref!Pieces(s)
  PROVE  sym \in Ref!Symbols /\ i \in 1..Len(s) /\ j \in 1..Len(s) /\ i <= j
<1> DEFINE N == Len(s)
           R == Ref!Rounds(s)
<1>0. N # 0
  BY RoundsAre DEF Ref!Pieces
<1>1. N \in 1..N
  BY <1>0
<1>2. Ref!Pieces(s) = Ref!Step(s, R[N - 1])
  BY <1>1, RoundsAre DEF Ref!Pieces
<1>3. Ref!Pieces(s) \subseteq Ref!Symbols \X (1..N) \X (1..N)
  BY <1>2 DEF Ref!Step
<1>4. <<sym, i, j>> \in Ref!Symbols \X (1..N) \X (1..N)
  BY <1>3
<1>5. sym \in Ref!Symbols /\ i \in 1..N /\ j \in 1..N
  BY <1>4
<1>. QED  BY <1>5, PieceIs

-----------------------------------------------------------------------------
(* The grammar, as the text before the parser is read by it. *)
Value(T, i, j)      == <<"value", i, j>> \in Ref!Pieces(T)
Items(T, sym, i, j) == <<sym, i, j>> \in Ref!Pieces(T)
After(T, sym, i, j) == j \in 1..Len(T) /\ Ref!AfterItem(T, Ref!Pieces(T), sym, i, j)

Scalars == {"str", "num", "lit"}
Lists   == {"elements", "members"}

LEMMA ValueInside ==
  ASSUME NEW T, Len(T) \in Nat, NEW i, NEW j, Value(T, i, j)
  PROVE  i \in 1..Len(T) /\ j \in 1..Len(T) /\ i <= j
BY PiecesInside DEF Value

LEMMA ItemsInside ==
  ASSUME NEW T, Len(T) \in Nat, NEW sym, NEW i, NEW j, Items(T, sym, i, j)
  PROVE  i \in 1..Len(T) /\ j \in 1..Len(T) /\ i <= j
BY PiecesInside DEF Items

LEMMA ValueIs ==
  ASSUME NEW T, Len(T) \in Nat, NEW i \in 1..Len(T), NEW j \in 1..Len(T)
  PROVE  Value(T, i, j) <=>
           \/ i = j /\ Ref!IsScalar(T[i])
           \/ \E sym \in Lists : /\ i < j /\ T[i].kind = Ref!OpenOf(sym)
                                 /\ \/ j = i + 1 /\ T[j].kind = Ref!CloseOf(sym)
                                    \/ Items(T, sym, i + 1, j)
<1> DEFINE D == Ref!Pieces(T)
           R == \/ i = j /\ Ref!IsScalar(T[i])
                \/ \E sym \in Lists : /\ i < j /\ T[i].kind = Ref!OpenOf(sym)
                                      /\ \/ j = i + 1 /\ T[j].kind = Ref!CloseOf(sym)
                                         \/ Items(T, sym, i + 1, j)
<1>1. Value(T, i, j) <=> i <= j /\ Ref!Derives(T, D, "value", i, j)
  BY PieceIs, SymbolsAre DEF Value
<1>2. Ref!Derives(T, D, "value", i, j) <=> R
  BY DEF Ref!Derives, Lists, Items
<1>3. R => i <= j
  OBVIOUS
<1> HIDE DEF R
<1>. QED  BY <1>1, <1>2, <1>3 DEF R

LEMMA BracketsAre ==
  /\ Ref!OpenOf("elements") = "[" /\ Ref!OpenOf("members") = "{"
  /\ Ref!CloseOf("elements") = "]" /\ Ref!CloseOf("members") = "}"
BY DEF Ref!OpenOf, Ref!CloseOf

LEMMA ScalarValue ==
  ASSUME NEW T, Len(T) \in Nat, NEW i \in 1..Len(T), T[i].kind \in Scalars, NEW j
  PROVE  Value(T, i, j) <=> j = i /\ T[i].fail = None
<1>1. \A sym \in Lists : T[i].kind # Ref!OpenOf(sym)
  BY BracketsAre DEF Lists, Scalars
<1>2. Ref!IsScalar(T[i]) <=> T[i].fail = None
  BY DEF Ref!IsScalar, Scalars, Ref!None, None
<1>3. ASSUME j \in 1..Len(T) PROVE Value(T, i, j) <=> j = i /\ T[i].fail = None
  BY <1>1, <1>2, <1>3, ValueIs
<1>. QED  BY <1>3, ValueInside

LEMMA ContainerValue ==
  ASSUME NEW T, Len(T) \in Nat, NEW i \in 1..Len(T), NEW sym \in Lists,
         T[i].kind = Ref!OpenOf(sym), NEW j
  PROVE  Value(T, i, j) <=> \/ j = i + 1 /\ j \in 1..Len(T) /\ T[j].kind = Ref!CloseOf(sym)
                         \/ Items(T, sym, i + 1, j)
<1>1. \A x \in Lists : T[i].kind = Ref!OpenOf(x) => x = sym
  BY BracketsAre DEF Lists
<1>2. ~Ref!IsScalar(T[i])
  BY BracketsAre DEF Lists, Ref!IsScalar
<1>3. ASSUME j \in 1..Len(T)
      PROVE  Value(T, i, j) <=> /\ i < j
                             /\ \/ j = i + 1 /\ T[j].kind = Ref!CloseOf(sym)
                                \/ Items(T, sym, i + 1, j)
  BY <1>1, <1>2, <1>3, ValueIs
<1>4. Items(T, sym, i + 1, j) => j \in 1..Len(T) /\ i < j
  <2>1. SUFFICES ASSUME Items(T, sym, i + 1, j) PROVE j \in 1..Len(T) /\ i < j
    OBVIOUS
  <2>2. j \in 1..Len(T) /\ i + 1 <= j
    BY <2>1, ItemsInside
  <2>. QED  BY <2>2
<1>5. j = i + 1 => i < j
  OBVIOUS
<1>. QED  BY <1>3, <1>4, <1>5, ValueInside

LEMMA NoValueHere ==
  ASSUME NEW T, Len(T) \in Nat, NEW i, NEW j,
         i \in 1..Len(T) => T[i].kind \notin Scalars \cup {"{", "["}
  PROVE  ~Value(T, i, j)
<1>1. SUFFICES ASSUME Value(T, i, j) PROVE FALSE
  OBVIOUS
<1>2. i \in 1..Len(T) /\ j \in 1..Len(T)
  BY <1>1, ValueInside
<1>. QED  BY <1>1, <1>2, ValueIs, BracketsAre DEF Lists, Scalars, Ref!IsScalar

LEMMA AfterIs ==
  ASSUME NEW T, Len(T) \in Nat, NEW sym, NEW i \in Nat \ {0}, NEW j
  PROVE  After(T, sym, i, j) <=> /\ i \in 1..Len(T)
                              /\ \/ i = j /\ T[i].kind = Ref!CloseOf(sym)
                                 \/ T[i].kind = "," /\ Items(T, sym, i + 1, j)
<1>1. ASSUME Items(T, sym, i + 1, j)
      PROVE  i \in 1..Len(T) /\ j \in 1..Len(T) /\ i < j
  <2>1. i + 1 \in 1..Len(T) /\ j \in 1..Len(T) /\ i + 1 <= j
    BY <1>1, ItemsInside
  <2>. QED  BY <2>1
<1>2. After(T, sym, i, j) <=> /\ j \in 1..Len(T)
                           /\ \/ i = j /\ T[i].kind = Ref!CloseOf(sym)
                              \/ i < j /\ T[i].kind = "," /\ Items(T, sym, i + 1, j)
  BY DEF After, Ref!AfterItem, Items
<1>. QED  BY <1>1, <1>2

LEMMA AfterInside ==
  ASSUME NEW T, Len(T) \in Nat, NEW sym, NEW e \in 1..Len(T), NEW j, After(T, sym, e + 1, j)
  PROVE  j \in 1..Len(T) /\ e + 1 <= j
<1>1. j \in 1..Len(T) /\ Ref!AfterItem(T, Ref!Pieces(T), sym, e + 1, j)
  BY DEF After
<1>2. e + 1 = j \/ e + 1 < j
  BY <1>1 DEF Ref!AfterItem
<1>3. e + 1 = j => e + 1 <= j
  BY <1>1
<1>4. e + 1 < j => e + 1 <= j
  BY <1>1
<1>. QED  BY <1>1, <1>2, <1>3, <1>4

LEMMA MoreIs ==
  ASSUME NEW T, Len(T) \in Nat, NEW sym, NEW i, NEW j \in 1..Len(T)
  PROVE  Ref!ValueAndMore(T, Ref!Pieces(T), sym, i, j)
           <=> \E e \in 1..Len(T) : Value(T, i, e) /\ After(T, sym, e + 1, j)
<1> DEFINE D == Ref!Pieces(T)
<1>1. ASSUME NEW e \in i..(j - 1), <<"value", i, e>> \in D, Ref!AfterItem(T, D, sym, e + 1, j)
      PROVE  e \in 1..Len(T) /\ Value(T, i, e) /\ After(T, sym, e + 1, j)
  <2>1. Value(T, i, e) /\ After(T, sym, e + 1, j)
    BY <1>1 DEF Value, After
  <2>. QED  BY <2>1, ValueInside
<1>2. ASSUME NEW e \in 1..Len(T), Value(T, i, e), After(T, sym, e + 1, j)
      PROVE  /\ e \in i..(j - 1) /\ <<"value", i, e>> \in D
             /\ Ref!AfterItem(T, D, sym, e + 1, j)
  <2>1. i \in 1..Len(T) /\ i <= e
    BY <1>2, ValueInside
  <2>2. e + 1 <= j
    BY <1>2, AfterInside
  <2>3. e \in i..(j - 1)
    BY <2>1, <2>2
  <2>. QED  BY <1>2, <2>3 DEF Value, After
<1>. QED  BY <1>1, <1>2 DEF Ref!ValueAndMore

LEMMA ElementsAre ==
  ASSUME NEW T, Len(T) \in Nat, NEW i, NEW j
  PROVE  Items(T, "elements", i, j) <=> \E e \in 1..Len(T) : Value(T, i, e) /\ After(T, "elements", e + 1, j)
<1> DEFINE D == Ref!Pieces(T)
           R == \E e \in 1..Len(T) : Value(T, i, e) /\ After(T, "elements", e + 1, j)
<1>1. ASSUME i \in 1..Len(T), j \in 1..Len(T) PROVE Items(T, "elements", i, j) <=> R
  <2>1. Items(T, "elements", i, j) <=> i <= j /\ Ref!Derives(T, D, "elements", i, j)
    BY <1>1, PieceIs, SymbolsAre DEF Items
  <2>2. Ref!Derives(T, D, "elements", i, j) <=> Ref!ValueAndMore(T, D, "elements", i, j)
    BY DEF Ref!Derives
  <2>3. Ref!ValueAndMore(T, D, "elements", i, j) <=> R
    BY <1>1, MoreIs
  <2>4. R => i <= j
    <3>1. ASSUME NEW e \in 1..Len(T), Value(T, i, e), After(T, "elements", e + 1, j) PROVE i <= j
      <4>1. i <= e
        BY <3>1, ValueInside
      <4>2. e + 1 <= j
        BY <3>1, AfterInside
      <4>. QED  BY <1>1, <4>1, <4>2
    <3>. QED  BY <3>1
  <2> HIDE DEF R
  <2>. QED  BY <2>1, <2>2, <2>3, <2>4
<1>2. Items(T, "elements", i, j) => i \in 1..Len(T) /\ j \in 1..Len(T)
  BY ItemsInside
<1>3. R => i \in 1..Len(T) /\ j \in 1..Len(T)
  BY ValueInside DEF After
<1> HIDE DEF R
<1>. QED  BY <1>1, <1>2, <1>3 DEF R

LEMMA MembersAre ==
  ASSUME NEW T, Len(T) \in Nat, NEW i \in Nat \ {0}, NEW j
  PROVE  Items(T, "members", i, j) <=>
           /\ i \in 1..Len(T) /\ Ref!IsName(T[i])
           /\ i + 1 \in 1..Len(T) /\ T[i + 1].kind = ":"
           /\ \E e \in 1..Len(T) : Value(T, i + 2, e) /\ After(T, "members", e + 1, j)
<1> DEFINE D == Ref!Pieces(T)
           M == \E e \in 1..Len(T) : Value(T, i + 2, e) /\ After(T, "members", e + 1, j)
<1>1. ASSUME i \in 1..Len(T), j \in 1..Len(T)
      PROVE  Items(T, "members", i, j) <=> /\ Ref!IsName(T[i]) /\ i + 1 < j
                                        /\ T[i + 1].kind = ":" /\ M
  <2>1. Items(T, "members", i, j) <=> i <= j /\ Ref!Derives(T, D, "members", i, j)
    BY <1>1, PieceIs, SymbolsAre DEF Items
  <2>2. Ref!Derives(T, D, "members", i, j) <=>
          /\ i + 1 < j /\ Ref!IsName(T[i]) /\ T[i + 1].kind = ":"
          /\ Ref!ValueAndMore(T, D, "members", i + 2, j)
    BY DEF Ref!Derives
  <2>3. Ref!ValueAndMore(T, D, "members", i + 2, j) <=> M
    BY <1>1, MoreIs
  <2>4. i + 1 < j => i <= j
    BY <1>1
  <2> HIDE DEF M
  <2>. QED  BY <2>1, <2>2, <2>3, <2>4
<1>2. Items(T, "members", i, j) => i \in 1..Len(T) /\ j \in 1..Len(T)
  BY ItemsInside
<1>3. M => j \in 1..Len(T) /\ i + 1 \in 1..Len(T) /\ i + 1 < j
  <2>1. ASSUME NEW e \in 1..Len(T), Value(T, i + 2, e), After(T, "members", e + 1, j)
        PROVE  j \in 1..Len(T) /\ i + 1 \in 1..Len(T) /\ i + 1 < j
    <3>1. i + 2 \in 1..Len(T) /\ i + 2 <= e
      BY <2>1, ValueInside
    <3>2. j \in 1..Len(T) /\ e + 1 <= j
      BY <2>1, AfterInside
    <3>. QED  BY <3>1, <3>2
  <2>. QED  BY <2>1
<1> HIDE DEF M
<1>4. i \in 1..Len(T) /\ i + 1 < j /\ j \in 1..Len(T) => i + 1 \in 1..Len(T)
  OBVIOUS
<1>. QED  BY <1>1, <1>2, <1>3, <1>4 DEF M

-----------------------------------------------------------------------------
(* What the parser still has to find: for each frame of S an end E, at     *)
(* which its container closes and the frame around it goes on; p is the    *)
(* next lexeme and c what the innermost frame is at.                       *)
Sym(f) == IF f.kind = "object" THEN "members" ELSE "elements"

Resume(T, S, E, m, p) == IF m = 0 THEN p = Len(T) + 1 ELSE After(T, Sym(S[m]), p, E[m])

Ends(T, S, E) == /\ E \in [1..Len(S) -> 1..Len(T)]
              /\ \A m \in 1..Len(S) : Resume(T, S, E, m - 1, E[m] + 1)

ValueNext(T, S, E, p) == \E e \in 1..Len(T) : Value(T, p, e) /\ Resume(T, S, E, Len(S), e + 1)

ClosesAt(T, sym, p, e) == p = e /\ T[p].kind = Ref!CloseOf(sym)

Goes(T, c, S, E, p) ==
  CASE c = "value" -> ValueNext(T, S, E, p)
    [] c = "open"  -> LET n == Len(S) IN
                      ClosesAt(T, Sym(S[n]), p, E[n]) \/ Items(T, Sym(S[n]), p, E[n])
    [] c = "key"   -> Items(T, "members", p, E[Len(S)])
    [] c = "colon" -> p \in 1..Len(T) /\ T[p].kind = ":" /\ ValueNext(T, S, E, p + 1)
    [] OTHER       -> Resume(T, S, E, Len(S), p)

Fits(T, c, S, p) == \E E : Ends(T, S, E) /\ Goes(T, c, S, E, p)

(* Of a frame only the kind matters. *)
Alike(S, Z) == Len(S) = Len(Z) /\ \A m \in 1..Len(S) : Sym(S[m]) = Sym(Z[m])

LEMMA AlikeFits ==
  ASSUME NEW T, NEW S, NEW Z, Len(S) \in Nat, Alike(S, Z), NEW c, NEW p, c = "open" => Len(S) # 0
  PROVE  Fits(T, c, S, p) <=> Fits(T, c, Z, p)
<1>1. Len(Z) = Len(S) /\ \A m \in 1..Len(S) : Sym(S[m]) = Sym(Z[m])
  BY DEF Alike
<1>2. ASSUME NEW E, NEW m \in 0..Len(S), NEW q PROVE Resume(T, S, E, m, q) <=> Resume(T, Z, E, m, q)
  <2>1. m = 0 \/ m \in 1..Len(S)
    OBVIOUS
  <2>. QED  BY <1>1, <2>1 DEF Resume
<1>3. \A E : Ends(T, S, E) <=> Ends(T, Z, E)
  <2>1. \A m \in 1..Len(S) : m - 1 \in 0..Len(S)
    OBVIOUS
  <2>. QED  BY <1>1, <1>2, <2>1 DEF Ends
<1>4. \A E, q : ValueNext(T, S, E, q) <=> ValueNext(T, Z, E, q)
  <2>1. Len(S) \in 0..Len(S)
    OBVIOUS
  <2>. QED  BY <1>1, <1>2, <2>1 DEF ValueNext
<1>5. \A E : Goes(T, c, S, E, p) <=> Goes(T, c, Z, E, p)
  <2>1. Len(S) \in 0..Len(S) /\ (c = "open" => Len(S) \in 1..Len(S))
    OBVIOUS
  <2>. QED  BY <1>1, <1>2, <1>4, <2>1 DEF Goes
<1>. QED  BY <1>3, <1>5 DEF Fits

(* A frame more, with the end of its container. *)
Above(S, Z) == Len(Z) = Len(S) + 1 /\ \A m \in 1..Len(S) : Z[m] = S[m]

LEMMA EndsBelow ==
  ASSUME NEW T, NEW S, NEW Z, Len(S) \in Nat, Above(S, Z), NEW E, Ends(T, Z, E)
  PROVE  LET F == [m \in 1..Len(S) |-> E[m]] IN
         /\ Ends(T, S, F) /\ E[Len(Z)] \in 1..Len(T)
         /\ Resume(T, S, F, Len(S), E[Len(Z)] + 1)
<1> DEFINE F == [m \in 1..Len(S) |-> E[m]]
<1>1. Len(Z) = Len(S) + 1 /\ \A m \in 1..Len(S) : Z[m] = S[m]
  BY DEF Above
<1>2. /\ \A m \in 1..(Len(S) + 1) : E[m] \in 1..Len(T)
      /\ \A m \in 1..(Len(S) + 1) : Resume(T, Z, E, m - 1, E[m] + 1)
  BY <1>1 DEF Ends
<1>3. \A m \in 1..Len(S) : F[m] = E[m] /\ m \in 1..(Len(S) + 1)
  OBVIOUS
<1>4. F \in [1..Len(S) -> 1..Len(T)]
  BY <1>2, <1>3
<1> HIDE DEF F
<1>5. ASSUME NEW m \in 0..Len(S), NEW q PROVE Resume(T, Z, E, m, q) <=> Resume(T, S, F, m, q)
  <2>1. m = 0 \/ m \in 1..Len(S)
    OBVIOUS
  <2>. QED  BY <1>1, <1>3, <2>1 DEF Resume
<1>6. ASSUME NEW m \in 1..Len(S) PROVE Resume(T, S, F, m - 1, F[m] + 1)
  <2>1. m - 1 \in 0..Len(S) /\ m \in 1..(Len(S) + 1)
    OBVIOUS
  <2>. QED  BY <1>2, <1>3, <1>5, <2>1
<1>7. Resume(T, S, F, Len(S), E[Len(Z)] + 1)
  <2>1. Len(S) \in 0..Len(S) /\ Len(S) + 1 \in 1..(Len(S) + 1) /\ (Len(S) + 1) - 1 = Len(S)
    OBVIOUS
  <2>. QED  BY <1>1, <1>2, <1>5, <2>1
<1>8. E[Len(Z)] \in 1..Len(T)
  BY <1>1, <1>2
<1>. QED  BY <1>4, <1>6, <1>7, <1>8 DEF Ends, F

LEMMA EndsAbove ==
  ASSUME NEW T, NEW S, NEW Z, Len(S) \in Nat, Above(S, Z), NEW E, Ends(T, S, E),
         NEW e \in 1..Len(T), Resume(T, S, E, Len(S), e + 1)
  PROVE  \E F : /\ Ends(T, Z, F) /\ F[Len(Z)] = e /\ \A m \in 1..Len(S) : F[m] = E[m]
<1> DEFINE F == [m \in 1..(Len(S) + 1) |-> IF m = Len(S) + 1 THEN e ELSE E[m]]
<1>1. Len(Z) = Len(S) + 1 /\ \A m \in 1..Len(S) : Z[m] = S[m]
  BY DEF Above
<1>2. E \in [1..Len(S) -> 1..Len(T)] /\ \A m \in 1..Len(S) : Resume(T, S, E, m - 1, E[m] + 1)
  BY DEF Ends
<1>3. F \in [1..Len(Z) -> 1..Len(T)] /\ F[Len(Z)] = e /\ \A m \in 1..Len(S) : F[m] = E[m]
  <2>1. \A m \in 1..(Len(S) + 1) : m # Len(S) + 1 => m \in 1..Len(S)
    OBVIOUS
  <2>2. \A m \in 1..Len(S) : m # Len(S) + 1 /\ m \in 1..(Len(S) + 1)
    OBVIOUS
  <2>. QED  BY <1>1, <1>2, <2>1, <2>2
<1> HIDE DEF F
<1>4. ASSUME NEW m \in 0..Len(S), NEW q PROVE Resume(T, Z, F, m, q) <=> Resume(T, S, E, m, q)
  <2>1. m = 0 \/ m \in 1..Len(S)
    OBVIOUS
  <2>. QED  BY <1>1, <1>3, <2>1 DEF Resume
<1>5. ASSUME NEW m \in 1..Len(Z) PROVE Resume(T, Z, F, m - 1, F[m] + 1)
  <2>1. CASE m = Len(Z)
    <3>1. Len(S) \in 0..Len(S) /\ m - 1 = Len(S)
      BY <1>1, <2>1
    <3>. QED  BY <1>3, <1>4, <2>1, <3>1
  <2>2. CASE m # Len(Z)
    <3>1. m \in 1..Len(S) /\ m - 1 \in 0..Len(S)
      BY <1>1, <2>2
    <3>. QED  BY <1>2, <1>3, <1>4, <3>1
  <2>. QED  BY <2>1, <2>2
<1>. QED  BY <1>3, <1>5 DEF Ends

Back == {"append", "next", "trailing"}

(* What is left fits before a step of the parser just if it does after. *)
LEMMA FitsStart ==
  ASSUME NEW T, Len(T) \in Nat, NEW S, Len(S) = 0
  PROVE  Fits(T, "value", S, 1) <=> Ref!IsValue(T)
<1>1. \A E, q : Resume(T, S, E, Len(S), q) <=> q = Len(T) + 1
  BY DEF Resume
<1>2. \E E : Ends(T, S, E)
  <2>1. [m \in 1..Len(S) |-> 1] \in [1..Len(S) -> 1..Len(T)] /\ 1..Len(S) = {}
    OBVIOUS
  <2>. QED  BY <2>1 DEF Ends
<1>3. Fits(T, "value", S, 1) <=> \E e \in 1..Len(T) : Value(T, 1, e) /\ e + 1 = Len(T) + 1
  BY <1>1, <1>2 DEF Fits, Goes, ValueNext
<1>4. T = << >> => Len(T) = 0
  OBVIOUS
<1>5. Value(T, 1, Len(T)) => Len(T) \in 1..Len(T) /\ T # << >>
  BY <1>4, ValueInside
<1>6. \A e \in 1..Len(T) : e + 1 = Len(T) + 1 => e = Len(T)
  OBVIOUS
<1>. QED  BY <1>3, <1>5, <1>6 DEF Ref!IsValue, Value

LEMMA FitsOpen ==
  ASSUME NEW T, Len(T) \in Nat, NEW S, NEW Z, Len(S) \in Nat, Above(S, Z), NEW q \in 1..Len(T),
         NEW sym \in Lists, sym = Sym(Z[Len(Z)]), T[q].kind = Ref!OpenOf(sym)
  PROVE  Fits(T, "value", S, q) <=> Fits(T, "open", Z, q + 1)
<1>1. \A e : Value(T, q, e) <=> \/ e = q + 1 /\ e \in 1..Len(T) /\ T[e].kind = Ref!CloseOf(sym)
                             \/ Items(T, sym, q + 1, e)
  BY ContainerValue
<1>2. ASSUME NEW E, Ends(T, S, E), NEW e \in 1..Len(T), Value(T, q, e), Resume(T, S, E, Len(S), e + 1)
      PROVE  Fits(T, "open", Z, q + 1)
  <2>1. PICK F : Ends(T, Z, F) /\ F[Len(Z)] = e
    BY <1>2, EndsAbove
  <2>2. ClosesAt(T, sym, q + 1, e) \/ Items(T, sym, q + 1, e)
    BY <1>1, <1>2 DEF ClosesAt
  <2>. QED  BY <2>1, <2>2 DEF Fits, Goes
<1>3. ASSUME NEW F, Ends(T, Z, F), ClosesAt(T, sym, q + 1, F[Len(Z)]) \/ Items(T, sym, q + 1, F[Len(Z)])
      PROVE  Fits(T, "value", S, q)
  <2> DEFINE E == [m \in 1..Len(S) |-> F[m]]
             e == F[Len(Z)]
  <2>1. Ends(T, S, E) /\ e \in 1..Len(T) /\ Resume(T, S, E, Len(S), e + 1)
    BY <1>3, EndsBelow
  <2>2. Value(T, q, e)
    BY <1>1, <1>3, <2>1 DEF ClosesAt
  <2> HIDE DEF E, e
  <2>. QED  BY <2>1, <2>2 DEF Fits, Goes, ValueNext
<1>. QED  BY <1>2, <1>3 DEF Fits, Goes, ValueNext

LEMMA FitsScalar ==
  ASSUME NEW T, Len(T) \in Nat, NEW S, NEW q \in 1..Len(T), T[q].kind \in Scalars, NEW c \in Back
  PROVE  /\ T[q].fail = None => (Fits(T, "value", S, q) <=> Fits(T, c, S, q + 1))
         /\ T[q].fail # None => ~Fits(T, "value", S, q)
<1>1. \A e : Value(T, q, e) <=> e = q /\ T[q].fail = None
  BY ScalarValue
<1>2. \A E : ValueNext(T, S, E, q) <=> T[q].fail = None /\ Resume(T, S, E, Len(S), q + 1)
  BY <1>1 DEF ValueNext
<1>3. \A E : /\ Goes(T, "value", S, E, q) <=> ValueNext(T, S, E, q)
             /\ Goes(T, c, S, E, q + 1) <=> Resume(T, S, E, Len(S), q + 1)
  BY DEF Goes, Back
<1>. QED  BY <1>2, <1>3 DEF Fits

LEMMA FitsNoValue ==
  ASSUME NEW T, Len(T) \in Nat, NEW S, NEW q,
         q \in 1..Len(T) => T[q].kind \notin Scalars \cup {"{", "["}
  PROVE  ~Fits(T, "value", S, q)
<1>1. \A e : ~Value(T, q, e)
  BY NoValueHere
<1>. QED  BY <1>1 DEF Fits, Goes, ValueNext

LEMMA NoItemsHere ==
  ASSUME NEW T, Len(T) \in Nat, NEW sym \in Lists, NEW q \in Nat \ {0}, NEW e,
         q \in 1..Len(T) => T[q].kind \notin Scalars \cup {"{", "["}
  PROVE  ~Items(T, sym, q, e)
<1>1. CASE sym = "elements"
  BY <1>1, ElementsAre, NoValueHere
<1>2. CASE sym = "members"
  BY <1>2, MembersAre DEF Scalars, Ref!IsName
<1>. QED  BY <1>1, <1>2 DEF Lists

LEMMA FitsClose ==
  ASSUME NEW T, Len(T) \in Nat, NEW S, NEW Z, Len(S) \in Nat, Above(S, Z), NEW q \in 1..Len(T),
         NEW sym \in Lists, sym = Sym(Z[Len(Z)]), T[q].kind = Ref!CloseOf(sym), NEW c \in Back,
         NEW b \in {"open", "next"}
  PROVE  Fits(T, b, Z, q) <=> Fits(T, c, S, q + 1)
<1>0. q \in Nat \ {0}
  OBVIOUS
<1>1. T[q].kind \in {"}", "]"} /\ T[q].kind # "," /\ T[q].kind \notin Scalars \cup {"{", "["}
  <2>1. T[q].kind \in {"}", "]"}
    BY BracketsAre DEF Lists
  <2>. QED  BY <2>1 DEF Scalars
<1>2. \A e : ~Items(T, sym, q, e)
  BY <1>0, <1>1, NoItemsHere
<1>3. \A e : After(T, sym, q, e) <=> q = e
  BY <1>0, <1>1, AfterIs
<1>4. Len(Z) = Len(S) + 1 /\ Len(Z) # 0
  BY DEF Above
<1>5. \A F : Goes(T, b, Z, F, q) <=> q = F[Len(Z)]
  <2>1. CASE b = "open"
    BY <1>2, <2>1 DEF Goes, ClosesAt
  <2>2. CASE b = "next"
    BY <1>3, <1>4, <2>2 DEF Goes, Resume
  <2>. QED  BY <2>1, <2>2
<1>6. ASSUME NEW F, Ends(T, Z, F), q = F[Len(Z)] PROVE Fits(T, c, S, q + 1)
  <2> DEFINE E == [m \in 1..Len(S) |-> F[m]]
  <2>1. Ends(T, S, E) /\ Resume(T, S, E, Len(S), q + 1)
    BY <1>6, EndsBelow
  <2> HIDE DEF E
  <2>. QED  BY <2>1 DEF Fits, Goes, Back
<1>7. ASSUME NEW E, Ends(T, S, E), Resume(T, S, E, Len(S), q + 1) PROVE Fits(T, b, Z, q)
  <2>1. PICK F : Ends(T, Z, F) /\ F[Len(Z)] = q
    BY <1>7, EndsAbove
  <2>. QED  BY <1>5, <2>1 DEF Fits
<1>8. \A E : Goes(T, c, S, E, q + 1) <=> Resume(T, S, E, Len(S), q + 1)
  BY DEF Goes, Back
<1>. QED  BY <1>5, <1>6, <1>7, <1>8 DEF Fits

Enters(sym) == IF sym = "members" THEN "key" ELSE "value"

LEMMA GoesIn ==
  ASSUME NEW T, Len(T) \in Nat, NEW S, Len(S) # 0, NEW q, NEW E,
         NEW sym \in Lists, sym = Sym(S[Len(S)])
  PROVE  Goes(T, Enters(sym), S, E, q) <=> Items(T, sym, q, E[Len(S)])
<1>1. CASE sym = "members"
  BY <1>1 DEF Goes, Enters
<1>2. CASE sym = "elements"
  <2>1. Goes(T, Enters(sym), S, E, q) <=> ValueNext(T, S, E, q)
    BY <1>2 DEF Goes, Enters
  <2>2. \A e : Resume(T, S, E, Len(S), e) <=> After(T, "elements", e, E[Len(S)])
    BY <1>2 DEF Resume
  <2>. QED  BY <1>2, <2>1, <2>2, ElementsAre DEF ValueNext
<1>. QED  BY <1>1, <1>2 DEF Lists

LEMMA FitsEnter ==
  ASSUME NEW T, Len(T) \in Nat, NEW S, Len(S) \in Nat \ {0}, NEW q,
         NEW sym \in Lists, sym = Sym(S[Len(S)]),
         q \in 1..Len(T) => T[q].kind # Ref!CloseOf(sym)
  PROVE  /\ Fits(T, "open", S, q) <=> Fits(T, Enters(sym), S, q)
         /\ q \notin 1..Len(T) => ~Fits(T, "open", S, q)
<1>1. ASSUME NEW E, Ends(T, S, E)
      PROVE  Goes(T, "open", S, E, q) <=> Items(T, sym, q, E[Len(S)])
  <2>1. E[Len(S)] \in 1..Len(T)
    BY <1>1 DEF Ends
  <2>2. ~ClosesAt(T, sym, q, E[Len(S)])
    BY <2>1 DEF ClosesAt
  <2>. QED  BY <2>2 DEF Goes
<1>2. \A E : Goes(T, Enters(sym), S, E, q) <=> Items(T, sym, q, E[Len(S)])
  BY GoesIn
<1>3. \A E : Items(T, sym, q, E[Len(S)]) => q \in 1..Len(T)
  BY ItemsInside
<1>. QED  BY <1>1, <1>2, <1>3 DEF Fits

LEMMA FitsKey ==
  ASSUME NEW T, Len(T) \in Nat, NEW S, Len(S) # 0, Sym(S[Len(S)]) = "members", NEW q \in Nat \ {0}
  PROVE  IF q \in 1..Len(T) /\ Ref!IsName(T[q])
         THEN Fits(T, "key", S, q) <=> Fits(T, "colon", S, q + 1)
         ELSE ~Fits(T, "key", S, q)
<1>1. ASSUME NEW E
      PROVE  Goes(T, "key", S, E, q) <=> /\ q \in 1..Len(T) /\ Ref!IsName(T[q])
                                      /\ Goes(T, "colon", S, E, q + 1)
  <2>1. \A e : Resume(T, S, E, Len(S), e) <=> After(T, "members", e, E[Len(S)])
    BY DEF Resume
  <2>2. (q + 1) + 1 = q + 2
    OBVIOUS
  <2>3. Goes(T, "colon", S, E, q + 1) <=>
          /\ q + 1 \in 1..Len(T) /\ T[q + 1].kind = ":"
          /\ \E e \in 1..Len(T) : Value(T, q + 2, e) /\ After(T, "members", e + 1, E[Len(S)])
    BY <2>1, <2>2 DEF Goes, ValueNext
  <2>4. Goes(T, "key", S, E, q) <=> Items(T, "members", q, E[Len(S)])
    BY DEF Goes
  <2>. QED  BY <2>3, <2>4, MembersAre
<1>. QED  BY <1>1 DEF Fits

LEMMA FitsColon ==
  ASSUME NEW T, Len(T) \in Nat, NEW S, NEW q
  PROVE  IF q \in 1..Len(T) /\ T[q].kind = ":"
         THEN Fits(T, "colon", S, q) <=> Fits(T, "value", S, q + 1)
         ELSE ~Fits(T, "colon", S, q)
BY DEF Fits, Goes

LEMMA FitsNext ==
  ASSUME NEW T, Len(T) \in Nat, NEW S, Len(S) # 0, NEW q \in Nat \ {0},
         NEW sym \in Lists, sym = Sym(S[Len(S)])
  PROVE  /\ q \in 1..Len(T) /\ T[q].kind = ","
              => (Fits(T, "next", S, q) <=> Fits(T, Enters(sym), S, q + 1))
         /\ (q \in 1..Len(T) => T[q].kind \notin {",", Ref!CloseOf(sym)})
              => ~Fits(T, "next", S, q)
<1>1. \A E : Goes(T, "next", S, E, q) <=> After(T, sym, q, E[Len(S)])
  BY DEF Goes, Resume
<1>2. \A E : Goes(T, Enters(sym), S, E, q + 1) <=> Items(T, sym, q + 1, E[Len(S)])
  BY GoesIn
<1>3. \A e : After(T, sym, q, e) <=> /\ q \in 1..Len(T)
                                  /\ \/ q = e /\ T[q].kind = Ref!CloseOf(sym)
                                     \/ T[q].kind = "," /\ Items(T, sym, q + 1, e)
  BY AfterIs
<1>4. Ref!CloseOf(sym) # ","
  BY BracketsAre DEF Lists
<1>. QED  BY <1>1, <1>2, <1>3, <1>4 DEF Fits

LEMMA FitsTrailing ==
  ASSUME NEW T, NEW S, Len(S) = 0, NEW q
  PROVE  Fits(T, "trailing", S, q) <=> q = Len(T) + 1
<1>1. \E E : Ends(T, S, E)
  <2>1. [m \in 1..Len(S) |-> 1] \in [1..Len(S) -> 1..Len(T)] /\ 1..Len(S) = {}
    OBVIOUS
  <2>. QED  BY <2>1 DEF Ends
<1>2. \A E : Goes(T, "trailing", S, E, q) <=> q = Len(T) + 1
  BY DEF Goes, Resume
<1>. QED  BY <1>1, <1>2 DEF Fits

-----------------------------------------------------------------------------
(* How many of X come before q. *)
Cnt(X, q) == Cardinality(X \cap (1..(q - 1)))

LEMMA CountedUpTo ==
  ASSUME NEW X, NEW q \in Nat \ {0}
  PROVE  /\ Cnt(X, q) \in Nat
         /\ Cnt(X, 1) = 0
         /\ Cnt(X, q + 1) = (IF q \in X THEN Cnt(X, q) + 1 ELSE Cnt(X, q))
         /\ IsFiniteSet(X) => Cnt(X, q) <= Cardinality(X)
         /\ X \subseteq 1..(q - 1) => Cnt(X, q) = Cardinality(X)
<1> DEFINE Y == X \cap (1..(q - 1))
<1>1. IsFiniteSet(1..(q - 1))
  BY FS_Interval
<1>2. IsFiniteSet(Y)
  BY <1>1, FS_Subset
<1>3. Cnt(X, q) = Cardinality(Y) /\ Cardinality(Y) \in Nat
  BY <1>2, FS_CardinalityType DEF Cnt
<1>4. Cnt(X, 1) = 0
  <2>1. X \cap (1..(1 - 1)) = {}
    OBVIOUS
  <2>. QED  BY <2>1, FS_EmptySet DEF Cnt
<1>5. CASE q \in X
  <2>1. X \cap (1..((q + 1) - 1)) = Y \cup {q} /\ q \notin Y
    BY <1>5
  <2>2. Cnt(X, q + 1) = Cardinality(Y) + 1
    <3> HIDE DEF Y
    <3>. QED  BY <1>2, <2>1, FS_AddElement DEF Cnt
  <2>. QED  BY <1>3, <1>4, <1>5, <2>2, FS_Subset DEF Y
<1>6. CASE q \notin X
  <2>1. X \cap (1..((q + 1) - 1)) = Y
    BY <1>6
  <2>2. Cnt(X, q + 1) = Cardinality(Y)
    BY <2>1 DEF Cnt
  <2>. QED  BY <1>3, <1>4, <1>6, <2>2, FS_Subset DEF Y
<1>. QED  BY <1>5, <1>6

LEMMA SameCardinality == \A S : Ref!Cardinality(S) = Cardinality(S)
BY DEF Ref!Cardinality, Cardinality

Nest(T, i) == Ref!Nesting(T, i)

LEMMA NestIs ==
  ASSUME NEW T, Len(T) \in Nat
  PROVE  /\ Nest(T, 1) = 0
         /\ \A q \in Nat \ {0} : Nest(T, q) \in Int
         /\ \A q \in 1..Len(T) :
              Nest(T, q + 1) = Nest(T, q) + (IF q \in Ref!Opens(T) THEN 1 ELSE 0)
                                    - (IF q \in Ref!Closes(T) THEN 1 ELSE 0)
<1> DEFINE A == Ref!Opens(T)
           B == Ref!Closes(T)
<1>1. A \subseteq 1..Len(T) /\ B \subseteq 1..Len(T)
  BY DEF Ref!Opens, Ref!Closes
<1>2. \A q : Nest(T, q) = Cardinality({j \in A : j < q}) - Cardinality({j \in B : j < q})
  BY SameCardinality DEF Nest, Ref!Nesting
<1> HIDE DEF A, B
<1>3. ASSUME NEW q \in Nat \ {0} PROVE Nest(T, q) = Cnt(A, q) - Cnt(B, q)
  <2>1. \A j \in 1..Len(T) : j < q <=> j \in 1..(q - 1)
    OBVIOUS
  <2>2. {j \in A : j < q} = A \cap (1..(q - 1)) /\ {j \in B : j < q} = B \cap (1..(q - 1))
    BY <1>1, <2>1
  <2>. QED  BY <1>2, <2>2 DEF Cnt
<1>4. \A q \in Nat \ {0} : Cnt(A, q) \in Nat /\ Cnt(B, q) \in Nat
  BY CountedUpTo
<1>5. Nest(T, 1) = 0
  <2>1. 1 \in Nat \ {0}
    OBVIOUS
  <2>2. Cnt(A, 1) = 0 /\ Cnt(B, 1) = 0
    BY <2>1, CountedUpTo
  <2>. QED  BY <1>3, <2>1, <2>2
<1>6. ASSUME NEW q \in 1..Len(T)
      PROVE  Nest(T, q + 1) = Nest(T, q) + (IF q \in A THEN 1 ELSE 0) - (IF q \in B THEN 1 ELSE 0)
  <2>1. q \in Nat \ {0} /\ q + 1 \in Nat \ {0}
    OBVIOUS
  <2>2. /\ Cnt(A, q + 1) = (IF q \in A THEN Cnt(A, q) + 1 ELSE Cnt(A, q))
        /\ Cnt(B, q + 1) = (IF q \in B THEN Cnt(B, q) + 1 ELSE Cnt(B, q))
    BY <2>1, CountedUpTo
  <2>3. /\ Nest(T, q + 1) = Cnt(A, q + 1) - Cnt(B, q + 1) /\ Nest(T, q) = Cnt(A, q) - Cnt(B, q)
        /\ Cnt(A, q) \in Nat /\ Cnt(B, q) \in Nat
    BY <1>3, <1>4, <2>1
  <2>. QED  BY <2>2, <2>3
<1>7. \A q \in Nat \ {0} : Nest(T, q) \in Int
  BY <1>3, <1>4
<1>. QED  BY <1>5, <1>6, <1>7 DEF A, B

-----------------------------------------------------------------------------
(* Where the open containers begin: O[m] is the bracket of the m-th frame. *)
Places(T, S, O, q) ==
  /\ O \in [1..Len(S) -> 1..(q - 1)]
  /\ \A m \in 1..Len(S) :
       /\ T[O[m]].kind = Ref!OpenOf(Sym(S[m]))
       /\ Nest(T, O[m]) = m - 1
       /\ \A k \in (O[m] + 1)..q : Nest(T, k) >= m
  /\ Nest(T, q) = Len(S)

(* The other brackets before q are closed, and what they hold is in order. *)
Shut(T, i, q) == \E k \in (i + 1)..q : Nest(T, k) <= Nest(T, i)

Braced(T, i) == T[i].kind = "{"

Few(T, i) ==
  Cardinality(Ref!ItemsOf(T, i)) <= (IF Braced(T, i) THEN Limit("members") ELSE Limit("elements"))

Good(T, i) == Few(T, i) /\ (Braced(T, i) => Ref!DistinctIn(T, i))

Past(T, S, O, q) ==
  \A i \in Ref!Opens(T) \cap (1..(q - 1)) :
    /\ Nest(T, i) + 1 <= Limit("depth")
    /\ (\E m \in 1..Len(S) : i = O[m]) \/ (Shut(T, i, q) /\ Good(T, i))

(* When c is "append", the innermost frame has a value that is not appended yet. *)
Held(T, S, O, c, q) ==
  \A m \in 1..Len(S) :
    Cnt(Ref!ItemsOf(T, O[m]), q) =
      IF m < Len(S) \/ c = "append" THEN Len(S[m].items) + 1 ELSE Len(S[m].items)

KeysIn(T, i, q) == Ref!KeysOf(T, i) \cap (1..(q - 1))

Seen(T, S, O, q) ==
  \A m \in 1..Len(S) : S[m].kind = "object" =>
    /\ S[m].seen = {T[j].text : j \in KeysIn(T, O[m], q)}
    /\ \A j, k \in KeysIn(T, O[m], q) : T[j].text = T[k].text => j = k

Recorded(T, S, c, q, v) ==
  /\ v = Cnt(Ref!ValuesOf(T), q)
  /\ \E O : Places(T, S, O, q) /\ Past(T, S, O, q) /\ Held(T, S, O, c, q) /\ Seen(T, S, O, q)

(* The next lexeme stands in the innermost container and in no other one, *)
LEMMA StandsIn ==
  ASSUME NEW T, Len(T) \in Nat, NEW S, Len(S) \in Nat, NEW O, NEW q \in 1..Len(T), Places(T, S, O, q),
         NEW m \in 1..Len(S)
  PROVE  q \in Ref!Directly(T, O[m]) <=> m = Len(S)
<1>1. /\ O[m] \in 1..(q - 1) /\ Nest(T, O[m]) = m - 1 /\ \A k \in (O[m] + 1)..q : Nest(T, k) >= m
      /\ Nest(T, q) = Len(S)
  BY DEF Places
<1>2. q \in (O[m] + 1)..Len(T)
  BY <1>1
<1>3. q \in Ref!Directly(T, O[m]) <=> /\ Nest(T, q) = Nest(T, O[m]) + 1
                                         /\ \A k \in (O[m] + 1)..q : Nest(T, k) > Nest(T, O[m])
  BY <1>2 DEF Ref!Directly, Nest
<1>4. \A k \in (O[m] + 1)..q : Nest(T, k) > Nest(T, O[m])
  <2>1. ASSUME NEW k \in (O[m] + 1)..q PROVE Nest(T, k) > m - 1
    <3>1. k \in Nat \ {0} /\ Nest(T, k) >= m
      BY <1>1
    <3>2. Nest(T, k) \in Int
      BY <3>1, NestIs
    <3>. QED  BY <3>1, <3>2
  <2>. QED  BY <1>1, <2>1
<1>. QED  BY <1>1, <1>3, <1>4

LEMMA InContainer ==
  ASSUME NEW T, Len(T) \in Nat, NEW S, Len(S) \in Nat, NEW O, NEW q \in 1..Len(T), Places(T, S, O, q),
         NEW m \in 1..Len(S)
  PROVE  /\ q \in Ref!ItemsOf(T, O[m]) <=> m = Len(S) /\ q \in Ref!ValuesOf(T)
         /\ q \in Ref!KeysOf(T, O[m]) <=> m = Len(S) /\ Ref!IsKey(T, q)
BY StandsIn DEF Ref!ItemsOf, Ref!KeysOf

(* and nothing is added to a container that is closed. *)
LEMMA NothingAfter ==
  ASSUME NEW T, Len(T) \in Nat, NEW i \in 1..Len(T), NEW q \in 1..(Len(T) + 1), Shut(T, i, q)
  PROVE  Ref!Directly(T, i) \subseteq 1..(q - 1)
<1>1. PICK k \in (i + 1)..q : Nest(T, k) <= Nest(T, i)
  BY DEF Shut
<1>2. ASSUME NEW j \in Ref!Directly(T, i) PROVE j \in 1..(q - 1)
  <2>1. j \in (i + 1)..Len(T) /\ \A l \in (i + 1)..j : Nest(T, l) > Nest(T, i)
    BY <1>2 DEF Ref!Directly, Nest
  <2>2. Nest(T, k) \in Int /\ Nest(T, i) \in Int
    <3>1. k \in Nat \ {0} /\ i \in Nat \ {0}
      BY <1>1
    <3>. QED  BY <3>1, NestIs
  <2>3. ~(k <= j)
    BY <1>1, <2>1, <2>2
  <2>. QED  BY <1>1, <2>1, <2>3
<1>. QED  BY <1>2

Advances(T, S, O, q, m) ==
  /\ Cnt(Ref!ItemsOf(T, O[m]), q) \in Nat
  /\ IF m = Len(S) /\ q \in Ref!ValuesOf(T)
     THEN Cnt(Ref!ItemsOf(T, O[m]), q + 1) = Cnt(Ref!ItemsOf(T, O[m]), q) + 1
     ELSE Cnt(Ref!ItemsOf(T, O[m]), q + 1) = Cnt(Ref!ItemsOf(T, O[m]), q)
  /\ IF m = Len(S) /\ Ref!IsKey(T, q)
     THEN KeysIn(T, O[m], q + 1) = KeysIn(T, O[m], q) \cup {q}
     ELSE KeysIn(T, O[m], q + 1) = KeysIn(T, O[m], q)

LEMMA HeldStep ==
  ASSUME NEW T, Len(T) \in Nat, NEW S, Len(S) \in Nat, NEW O, NEW q \in 1..Len(T), Places(T, S, O, q),
         NEW m \in 1..Len(S)
  PROVE  Advances(T, S, O, q, m)
<1>1. q \in Nat \ {0}
  OBVIOUS
<1> DEFINE X == Ref!ItemsOf(T, O[m])
<1>2. /\ Cnt(X, q) \in Nat
      /\ IF q \in X THEN Cnt(X, q + 1) = Cnt(X, q) + 1 ELSE Cnt(X, q + 1) = Cnt(X, q)
  <2> HIDE DEF X
  <2>. QED  BY <1>1, CountedUpTo
<1>3. 1..((q + 1) - 1) = (1..(q - 1)) \cup {q}
  OBVIOUS
<1>4. IF q \in Ref!KeysOf(T, O[m]) THEN KeysIn(T, O[m], q + 1) = KeysIn(T, O[m], q) \cup {q}
      ELSE KeysIn(T, O[m], q + 1) = KeysIn(T, O[m], q)
  BY <1>3 DEF KeysIn
<1>. QED  BY <1>2, <1>4, InContainer DEF Advances

(* A lexeme that is no bracket opens and closes nothing. *)
LEMMA NoBracket ==
  ASSUME NEW T, Len(T) \in Nat, NEW S, Len(S) \in Nat, NEW O, NEW q \in 1..Len(T),
         q \notin Ref!Opens(T), q \notin Ref!Closes(T), Places(T, S, O, q), Past(T, S, O, q)
  PROVE  Places(T, S, O, q + 1) /\ Past(T, S, O, q + 1)
<1>1. Nest(T, q + 1) = Nest(T, q) /\ Nest(T, q) = Len(S)
  BY NestIs DEF Places
<1>2. Places(T, S, O, q + 1)
  <2>1. O \in [1..Len(S) -> 1..(q - 1)]
    BY DEF Places
  <2>2. O \in [1..Len(S) -> 1..((q + 1) - 1)]
    BY <2>1
  <2>3. ASSUME NEW m \in 1..Len(S), NEW k \in (O[m] + 1)..(q + 1) PROVE Nest(T, k) >= m
    <3>1. O[m] \in 1..(q - 1)
      BY <2>1
    <3>2. k = q + 1 \/ k \in (O[m] + 1)..q
      BY <3>1
    <3>. QED  BY <1>1, <2>3, <3>2 DEF Places
  <2>. QED  BY <1>1, <2>2, <2>3 DEF Places
<1>3. Past(T, S, O, q + 1)
  <2>1. ASSUME NEW i \in Ref!Opens(T) \cap (1..((q + 1) - 1))
        PROVE  /\ Nest(T, i) + 1 <= Limit("depth")
               /\ (\E m \in 1..Len(S) : i = O[m]) \/ (Shut(T, i, q + 1) /\ Good(T, i))
    <3>1. i \in Ref!Opens(T) \cap (1..(q - 1))
      BY <2>1
    <3>2. Shut(T, i, q) => Shut(T, i, q + 1)
      <4>1. (i + 1)..q \subseteq (i + 1)..(q + 1)
        BY <3>1
      <4>. QED  BY <4>1 DEF Shut
    <3>. QED  BY <3>1, <3>2 DEF Past
  <2>. QED  BY <2>1 DEF Past
<1>. QED  BY <1>2, <1>3

(* What is known of the lexeme by its kind. *)
Separates(T, q) == T[q].kind \in {":", ","}

LEMMA KindsOf ==
  ASSUME NEW T, NEW q \in 1..Len(T)
  PROVE  /\ q \in Ref!Opens(T) =>
              q \notin Ref!Closes(T) /\ q \in Ref!ValuesOf(T) /\ ~Ref!IsKey(T, q)
         /\ q \in Ref!Closes(T) =>
              q \notin Ref!Opens(T) /\ q \notin Ref!ValuesOf(T) /\ ~Ref!IsKey(T, q)
         /\ Separates(T, q) =>
              /\ q \notin Ref!Opens(T) /\ q \notin Ref!Closes(T)
              /\ q \notin Ref!ValuesOf(T) /\ ~Ref!IsKey(T, q)
         /\ T[q].kind \in Scalars =>
              /\ q \notin Ref!Opens(T) /\ q \notin Ref!Closes(T)
              /\ q \in Ref!ValuesOf(T) <=> ~Ref!IsKey(T, q)
         /\ Ref!IsKey(T, q) => T[q].kind \in Scalars
BY DEF Ref!Opens, Ref!Closes, Ref!ValuesOf, Ref!IsKey, Separates, Scalars

LEMMA RecordedStart ==
  ASSUME NEW T, Len(T) \in Nat, NEW S, Len(S) = 0, NEW c
  PROVE  Recorded(T, S, c, 1, 0)
<1>1. 1..Len(S) = {} /\ 1..(1 - 1) = {} /\ 1 \in Nat \ {0}
  OBVIOUS
<1> DEFINE O == [m \in 1..Len(S) |-> 1]
<1>2. Places(T, S, O, 1)
  <2>1. O \in [1..Len(S) -> 1..(1 - 1)]
    BY <1>1
  <2>. QED  BY <1>1, <2>1, NestIs DEF Places
<1> HIDE DEF O
<1>3. Past(T, S, O, 1) /\ Held(T, S, O, c, 1) /\ Seen(T, S, O, 1)
  BY <1>1 DEF Past, Held, Seen
<1> DEFINE V == Ref!ValuesOf(T)
<1>4. Cnt(V, 1) = 0
  <2> HIDE DEF V
  <2>. QED  BY <1>1, CountedUpTo
<1>. QED  BY <1>2, <1>3, <1>4 DEF Recorded

LEMMA ValuesStep ==
  ASSUME NEW T, Len(T) \in Nat, NEW q \in 1..Len(T)
  PROVE  /\ Cnt(Ref!ValuesOf(T), q + 1) =
              (IF q \in Ref!ValuesOf(T) THEN Cnt(Ref!ValuesOf(T), q) + 1
               ELSE Cnt(Ref!ValuesOf(T), q))
         /\ Cnt(Ref!ValuesOf(T), q) \in Nat
<1> DEFINE V == Ref!ValuesOf(T)
<1>1. q \in Nat \ {0}
  OBVIOUS
<1> HIDE DEF V
<1>2. Cnt(V, q + 1) = (IF q \in V THEN Cnt(V, q) + 1 ELSE Cnt(V, q)) /\ Cnt(V, q) \in Nat
  BY <1>1, CountedUpTo
<1>. QED  BY <1>2 DEF V

(* ':' and ',' *)
LEMMA RecordedPlain ==
  ASSUME NEW T, Len(T) \in Nat, NEW S, Len(S) \in Nat, NEW q \in 1..Len(T),
         Separates(T, q), NEW c, NEW b, c # "append", b # "append", NEW v, Recorded(T, S, c, q, v)
  PROVE  Recorded(T, S, b, q + 1, v)
<1>1. /\ q \notin Ref!Opens(T) /\ q \notin Ref!Closes(T) /\ q \notin Ref!ValuesOf(T)
      /\ ~Ref!IsKey(T, q)
  BY KindsOf
<1>2. PICK O : Places(T, S, O, q) /\ Past(T, S, O, q) /\ Held(T, S, O, c, q) /\ Seen(T, S, O, q)
  BY DEF Recorded
<1>3. Places(T, S, O, q + 1) /\ Past(T, S, O, q + 1)
  BY <1>1, <1>2, NoBracket
<1>4. ASSUME NEW m \in 1..Len(S)
      PROVE  /\ Cnt(Ref!ItemsOf(T, O[m]), q + 1) = Cnt(Ref!ItemsOf(T, O[m]), q)
             /\ KeysIn(T, O[m], q + 1) = KeysIn(T, O[m], q)
  BY <1>1, <1>2, HeldStep DEF Advances
<1>6. Held(T, S, O, b, q + 1) /\ Seen(T, S, O, q + 1)
  BY <1>2, <1>4 DEF Held, Seen
<1>7. v = Cnt(Ref!ValuesOf(T), q + 1)
  BY <1>1, ValuesStep DEF Recorded
<1>. QED  BY <1>3, <1>6, <1>7 DEF Recorded

(* A string, number or literal read as a value. *)
LEMMA RecordedScalar ==
  ASSUME NEW T, Len(T) \in Nat, NEW S, Len(S) \in Nat, NEW q \in 1..Len(T),
         T[q].kind \in Scalars, ~Ref!IsKey(T, q), NEW c, c # "append", NEW b, b = "append" \/ Len(S) = 0,
         NEW v, Recorded(T, S, c, q, v),
         \A m \in 1..Len(S) : Len(S[m].items) \in Nat
  PROVE  Recorded(T, S, b, q + 1, v + 1)
<1>1. q \notin Ref!Opens(T) /\ q \notin Ref!Closes(T) /\ q \in Ref!ValuesOf(T)
  BY KindsOf
<1>2. PICK O : Places(T, S, O, q) /\ Past(T, S, O, q) /\ Held(T, S, O, c, q) /\ Seen(T, S, O, q)
  BY DEF Recorded
<1>3. Places(T, S, O, q + 1) /\ Past(T, S, O, q + 1)
  BY <1>1, <1>2, NoBracket
<1>4. ASSUME NEW m \in 1..Len(S)
      PROVE  /\ Cnt(Ref!ItemsOf(T, O[m]), q + 1) = Len(S[m].items) + 1
             /\ KeysIn(T, O[m], q + 1) = KeysIn(T, O[m], q)
  <2>1. /\ IF m = Len(S)
           THEN Cnt(Ref!ItemsOf(T, O[m]), q + 1) = Cnt(Ref!ItemsOf(T, O[m]), q) + 1
           ELSE Cnt(Ref!ItemsOf(T, O[m]), q + 1) = Cnt(Ref!ItemsOf(T, O[m]), q)
        /\ KeysIn(T, O[m], q + 1) = KeysIn(T, O[m], q)
    BY <1>1, <1>2, HeldStep DEF Advances
  <2>2. Cnt(Ref!ItemsOf(T, O[m]), q) = (IF m < Len(S) THEN Len(S[m].items) + 1 ELSE Len(S[m].items))
    BY <1>2 DEF Held
  <2>3. Cnt(Ref!ItemsOf(T, O[m]), q + 1) = Len(S[m].items) + 1
    BY <2>1, <2>2
  <2>. QED  BY <2>1, <2>3
<1>5. Held(T, S, O, b, q + 1) /\ Seen(T, S, O, q + 1)
  BY <1>2, <1>4 DEF Held, Seen
<1>6. v + 1 = Cnt(Ref!ValuesOf(T), q + 1)
  BY <1>1, ValuesStep DEF Recorded
<1>. QED  BY <1>3, <1>5, <1>6 DEF Recorded

(* The stack with another frame on top. *)
Replaced(S, Z, g) == Len(Z) = Len(S) /\ \A m \in 1..Len(S) : Z[m] = IF m = Len(S) THEN g ELSE S[m]

LEMMA PlacesAlike ==
  ASSUME NEW T, NEW S, NEW Z, Len(S) \in Nat, Alike(S, Z), NEW O, NEW q, Places(T, S, O, q), Past(T, S, O, q)
  PROVE  Places(T, Z, O, q) /\ Past(T, Z, O, q)
BY DEF Alike, Places, Past

LEMMA KeyStep ==
  ASSUME NEW T, Len(T) \in Nat, NEW S, Len(S) \in Nat, NEW O, NEW q \in 1..Len(T), Places(T, S, O, q),
         q \notin Ref!ValuesOf(T), Ref!IsKey(T, q), NEW m \in 1..Len(S)
  PROVE  /\ Cnt(Ref!ItemsOf(T, O[m]), q + 1) = Cnt(Ref!ItemsOf(T, O[m]), q)
         /\ m = Len(S) => KeysIn(T, O[m], q + 1) = KeysIn(T, O[m], q) \cup {q}
         /\ m # Len(S) => KeysIn(T, O[m], q + 1) = KeysIn(T, O[m], q)
<1>1. Advances(T, S, O, q, m)
  BY HeldStep
<1>. QED  BY <1>1, Zenon DEF Advances

(* A key that the object has not seen. *)
LEMMA RecordedKey ==
  ASSUME NEW T, Len(T) \in Nat, NEW S, Len(S) \in Nat \ {0}, NEW q \in 1..Len(T),
         Ref!IsKey(T, q), NEW c, NEW b, c # "append", b # "append", NEW v, Recorded(T, S, c, q, v), NEW Z, NEW g, Replaced(S, Z, g),
         S[Len(S)].kind = "object", g.kind = "object", g.items = S[Len(S)].items,
         T[q].text \notin S[Len(S)].seen, g.seen = S[Len(S)].seen \cup {T[q].text}
  PROVE  Recorded(T, Z, b, q + 1, v)
<1> DEFINE d == Len(S)
<1>1. q \notin Ref!Opens(T) /\ q \notin Ref!Closes(T) /\ q \notin Ref!ValuesOf(T)
  BY KindsOf
<1>2. PICK O : Places(T, S, O, q) /\ Past(T, S, O, q) /\ Held(T, S, O, c, q) /\ Seen(T, S, O, q)
  BY DEF Recorded
<1>3. Len(Z) = d /\ Z[d] = g /\ \A m \in 1..d : m # d => Z[m] = S[m]
  BY DEF Replaced
<1>4. Places(T, Z, O, q + 1) /\ Past(T, Z, O, q + 1)
  <2>1. Places(T, S, O, q + 1) /\ Past(T, S, O, q + 1)
    BY <1>1, <1>2, NoBracket
  <2>2. Alike(S, Z)
    BY <1>3 DEF Alike, Sym
  <2>. QED  BY <2>1, <2>2, PlacesAlike
<1>5. ASSUME NEW m \in 1..d
      PROVE  /\ Cnt(Ref!ItemsOf(T, O[m]), q + 1) = Cnt(Ref!ItemsOf(T, O[m]), q)
             /\ m = d => KeysIn(T, O[m], q + 1) = KeysIn(T, O[m], q) \cup {q}
             /\ m # d => KeysIn(T, O[m], q + 1) = KeysIn(T, O[m], q)
  <2>1. Len(S) \in Nat /\ m \in 1..Len(S)
    OBVIOUS
  <2>. QED  BY <1>1, <1>2, <2>1, KeyStep
<1>6. Held(T, Z, O, b, q + 1)
  <2>1. \A m \in 1..d : Z[m].items = S[m].items
    BY <1>3
  <2>. QED  BY <1>2, <1>3, <1>5, <2>1 DEF Held
<1>7. Seen(T, Z, O, q + 1)
  <2>1. ASSUME NEW m \in 1..d, Z[m].kind = "object"
        PROVE  /\ Z[m].seen = {T[j].text : j \in KeysIn(T, O[m], q + 1)}
               /\ \A j, k \in KeysIn(T, O[m], q + 1) : T[j].text = T[k].text => j = k
    <3>1. CASE m # d
      <4>1. Z[m] = S[m] /\ KeysIn(T, O[m], q + 1) = KeysIn(T, O[m], q)
        BY <1>3, <1>5, <3>1
      <4>. QED  BY <1>2, <2>1, <4>1 DEF Seen
    <3>2. CASE m = d
      <4> DEFINE K == KeysIn(T, O[m], q)
      <4>1. KeysIn(T, O[m], q + 1) = K \cup {q} /\ Z[m].seen = S[m].seen \cup {T[q].text}
        BY <1>3, <1>5, <3>2
      <4>2. /\ S[m].seen = {T[j].text : j \in K}
            /\ \A j, k \in K : T[j].text = T[k].text => j = k
            /\ T[q].text \notin S[m].seen
        BY <1>2, <3>2 DEF Seen
      <4> HIDE DEF K
      <4>. QED  BY <4>1, <4>2
    <3>. QED  BY <3>1, <3>2
  <2>. QED  BY <1>3, <2>1 DEF Seen
<1>8. v = Cnt(Ref!ValuesOf(T), q + 1)
  BY <1>1, ValuesStep DEF Recorded
<1>. QED  BY <1>4, <1>6, <1>7, <1>8 DEF Recorded

(* The value is appended. *)
LEMMA RecordedAppend ==
  ASSUME NEW T, NEW S, Len(S) \in Nat \ {0}, NEW q, NEW v, Recorded(T, S, "append", q, v),
         NEW Z, NEW g, Replaced(S, Z, g), g.kind = S[Len(S)].kind, g.seen = S[Len(S)].seen,
         Len(S[Len(S)].items) \in Nat, Len(g.items) = Len(S[Len(S)].items) + 1
  PROVE  Recorded(T, Z, "next", q, v)
<1> DEFINE d == Len(S)
<1>1. PICK O : Places(T, S, O, q) /\ Past(T, S, O, q) /\ Held(T, S, O, "append", q) /\ Seen(T, S, O, q)
  BY DEF Recorded
<1>2. Len(Z) = d /\ Z[d] = g /\ d \in 1..d /\ \A m \in 1..d : m # d => Z[m] = S[m]
  BY DEF Replaced
<1>3. Places(T, Z, O, q) /\ Past(T, Z, O, q)
  <2>1. Alike(S, Z)
    BY <1>2 DEF Alike, Sym
  <2>. QED  BY <1>1, <2>1, PlacesAlike
<1>4. ASSUME NEW m \in 1..d
      PROVE  Cnt(Ref!ItemsOf(T, O[m]), q) = (IF m < d THEN Len(Z[m].items) + 1 ELSE Len(Z[m].items))
  <2>1. Cnt(Ref!ItemsOf(T, O[m]), q) = Len(S[m].items) + 1
    BY <1>1 DEF Held
  <2>2. CASE m = d
    BY <1>2, <2>1, <2>2
  <2>3. CASE m # d
    BY <1>2, <2>1, <2>3
  <2>. QED  BY <2>2, <2>3
<1>5. Held(T, Z, O, "next", q) /\ Seen(T, Z, O, q)
  <2>1. \A m \in 1..d : Z[m].kind = S[m].kind /\ Z[m].seen = S[m].seen
    BY <1>2
  <2>2. Seen(T, Z, O, q)
    BY <1>1, <1>2, <2>1 DEF Seen
  <2>3. Held(T, Z, O, "next", q)
    BY <1>2, <1>4 DEF Held
  <2>. QED  BY <2>2, <2>3
<1>. QED  BY <1>3, <1>5 DEF Recorded

(* An opening bracket: the container is an item of the one around it. *)
LEMMA PlacesOpen ==
  ASSUME NEW T, Len(T) \in Nat, NEW S, Len(S) \in Nat, NEW Z, Above(S, Z), NEW q \in 1..Len(T),
         T[q].kind = Ref!OpenOf(Sym(Z[Len(Z)])), q \in Ref!Opens(T), q \notin Ref!Closes(T),
         NEW O, Places(T, S, O, q), Past(T, S, O, q), Len(S) + 1 <= Limit("depth"),
         NEW P, P \in [1..Len(Z) -> 1..q], P[Len(Z)] = q, \A m \in 1..Len(S) : P[m] = O[m]
  PROVE  Places(T, Z, P, q + 1) /\ Past(T, Z, P, q + 1)
<1>1. Len(Z) = Len(S) + 1 /\ \A m \in 1..Len(S) : Z[m] = S[m]
  BY DEF Above
<1>2. Nest(T, q) = Len(S) /\ Nest(T, q + 1) = Len(S) + 1
  BY NestIs DEF Places
<1>3. (q + 1) - 1 = q
  OBVIOUS
<1>4. ASSUME NEW m \in 1..Len(Z)
      PROVE  /\ T[P[m]].kind = Ref!OpenOf(Sym(Z[m]))
             /\ Nest(T, P[m]) = m - 1
             /\ \A k \in (P[m] + 1)..(q + 1) : Nest(T, k) >= m
  <2>1. CASE m = Len(Z)
    <3>1. P[m] = q /\ \A k \in (q + 1)..(q + 1) : k = q + 1
      BY <2>1
    <3>. QED  BY <1>1, <1>2, <2>1, <3>1
  <2>2. CASE m # Len(Z)
    <3>1. m \in 1..Len(S) /\ P[m] = O[m] /\ Z[m] = S[m] /\ O[m] \in 1..(q - 1)
      BY <1>1, <2>2 DEF Places
    <3>2. \A k \in (O[m] + 1)..(q + 1) : k = q + 1 \/ k \in (O[m] + 1)..q
      BY <3>1
    <3>3. Nest(T, q + 1) >= m
      BY <1>2, <3>1
    <3>4. \A k \in (O[m] + 1)..(q + 1) : Nest(T, k) >= m
      BY <3>1, <3>2, <3>3 DEF Places
    <3>. QED  BY <3>1, <3>4 DEF Places
  <2>. QED  BY <2>1, <2>2
<1>5. ASSUME NEW i \in Ref!Opens(T) \cap (1..q)
      PROVE  /\ Nest(T, i) + 1 <= Limit("depth")
             /\ (\E m \in 1..Len(Z) : i = P[m]) \/ (Shut(T, i, q + 1) /\ Good(T, i))
  <2>1. CASE i = q
    <3>1. Len(Z) \in 1..Len(Z)
      BY <1>1
    <3>. QED  BY <1>2, <2>1, <3>1
  <2>2. CASE i # q
    <3>1. i \in Ref!Opens(T) \cap (1..(q - 1))
      BY <2>2
    <3>2. Shut(T, i, q) => Shut(T, i, q + 1)
      <4>1. (i + 1)..q \subseteq (i + 1)..(q + 1)
        BY <3>1
      <4>. QED  BY <4>1 DEF Shut
    <3>3. \A m \in 1..Len(S) : m \in 1..Len(Z) /\ P[m] = O[m]
      BY <1>1
    <3>. QED  BY <3>1, <3>2, <3>3 DEF Past
  <2>. QED  BY <2>1, <2>2
<1>6. Places(T, Z, P, q + 1)
  BY <1>1, <1>2, <1>3, <1>4 DEF Places
<1>7. Past(T, Z, P, q + 1)
  BY <1>3, <1>5 DEF Past
<1>. QED  BY <1>6, <1>7

LEMMA NothingYet ==
  ASSUME NEW T, NEW q \in Nat
  PROVE  /\ Cnt(Ref!ItemsOf(T, q), q + 1) = 0
         /\ KeysIn(T, q, q + 1) = {}
<1>1. \A j \in Ref!Directly(T, q) : j \in (q + 1)..Len(T)
  BY DEF Ref!Directly
<1>2. Ref!ItemsOf(T, q) \cap (1..((q + 1) - 1)) = {} /\ KeysIn(T, q, q + 1) = {}
  BY <1>1 DEF Ref!ItemsOf, Ref!KeysOf, KeysIn
<1>. QED  BY <1>2, FS_EmptySet DEF Cnt

LEMMA RecordedOpen ==
  ASSUME NEW T, Len(T) \in Nat, NEW S, Len(S) \in Nat, NEW Z, Above(S, Z), NEW q \in 1..Len(T),
         q \in Ref!Opens(T), T[q].kind = Ref!OpenOf(Sym(Z[Len(Z)])),
         Len(S) + 1 <= Limit("depth"), Len(Z[Len(Z)].items) = 0, Z[Len(Z)].seen = {},
         NEW c, NEW b, c # "append", b # "append", NEW v, Recorded(T, S, c, q, v)
  PROVE  Recorded(T, Z, b, q + 1, v + 1)
<1>1. q \in Ref!Opens(T) /\ q \notin Ref!Closes(T) /\ q \in Ref!ValuesOf(T) /\ ~Ref!IsKey(T, q)
  BY KindsOf
<1>2. PICK O : Places(T, S, O, q) /\ Past(T, S, O, q) /\ Held(T, S, O, c, q) /\ Seen(T, S, O, q)
  BY DEF Recorded
<1>3. Len(Z) = Len(S) + 1 /\ \A m \in 1..Len(S) : Z[m] = S[m]
  BY DEF Above
<1> DEFINE P == [m \in 1..Len(Z) |-> IF m = Len(Z) THEN q ELSE O[m]]
<1>4. P \in [1..Len(Z) -> 1..q] /\ P[Len(Z)] = q /\ \A m \in 1..Len(S) : P[m] = O[m]
  <2>1. \A m \in 1..Len(S) : O[m] \in 1..q /\ m \in 1..Len(Z) /\ m # Len(Z)
    <3>1. \A m \in 1..Len(S) : O[m] \in 1..(q - 1)
      BY <1>2 DEF Places
    <3>. QED  BY <1>3, <3>1
  <2>2. Len(Z) \in 1..Len(Z) /\ \A m \in 1..Len(Z) : m = Len(Z) \/ m \in 1..Len(S)
    BY <1>3
  <2>. QED  BY <2>1, <2>2
<1> HIDE DEF P
<1>5. Places(T, Z, P, q + 1) /\ Past(T, Z, P, q + 1)
  BY <1>1, <1>2, <1>4, PlacesOpen
<1>6. ASSUME NEW m \in 1..Len(S)
      PROVE  /\ Cnt(Ref!ItemsOf(T, O[m]), q + 1) = Len(S[m].items) + 1
             /\ KeysIn(T, O[m], q + 1) = KeysIn(T, O[m], q)
  <2>1. /\ IF m = Len(S)
           THEN Cnt(Ref!ItemsOf(T, O[m]), q + 1) = Cnt(Ref!ItemsOf(T, O[m]), q) + 1
           ELSE Cnt(Ref!ItemsOf(T, O[m]), q + 1) = Cnt(Ref!ItemsOf(T, O[m]), q)
        /\ KeysIn(T, O[m], q + 1) = KeysIn(T, O[m], q)
    BY <1>1, <1>2, HeldStep DEF Advances
  <2>2. Cnt(Ref!ItemsOf(T, O[m]), q) = IF m < Len(S) THEN Len(S[m].items) + 1 ELSE Len(S[m].items)
    BY <1>2 DEF Held
  <2>3. m < Len(S) \/ m = Len(S)
    OBVIOUS
  <2>. QED  BY <2>1, <2>2, <2>3
<1>7. ASSUME NEW m \in 1..Len(Z)
      PROVE  /\ Cnt(Ref!ItemsOf(T, P[m]), q + 1) =
                  IF m < Len(Z) THEN Len(Z[m].items) + 1 ELSE Len(Z[m].items)
             /\ Z[m].kind = "object" =>
                  /\ Z[m].seen = {T[j].text : j \in KeysIn(T, P[m], q + 1)}
                  /\ \A j, k \in KeysIn(T, P[m], q + 1) : T[j].text = T[k].text => j = k
  <2>1. CASE m = Len(Z)
    <3>1. Cnt(Ref!ItemsOf(T, P[m]), q + 1) = 0 /\ KeysIn(T, P[m], q + 1) = {}
      <4>1. P[m] = q /\ q \in Nat
        BY <1>4, <2>1
      <4>2. Cnt(Ref!ItemsOf(T, q), q + 1) = 0 /\ KeysIn(T, q, q + 1) = {}
        BY <4>1, NothingYet
      <4>. QED  BY <4>1, <4>2
    <3>2. ~(m < Len(Z))
      BY <1>3, <2>1
    <3>. QED  BY <2>1, <3>1, <3>2
  <2>2. CASE m # Len(Z)
    <3>1. m \in 1..Len(S) /\ m < Len(Z)
      BY <1>3, <2>2
    <3>2. P[m] = O[m] /\ Z[m] = S[m]
      BY <1>3, <1>4, <3>1
    <3>. QED  BY <1>2, <1>6, <3>1, <3>2 DEF Seen
  <2>. QED  BY <2>1, <2>2
<1>8. Held(T, Z, P, b, q + 1) /\ Seen(T, Z, P, q + 1)
  BY <1>7 DEF Held, Seen
<1>9. v + 1 = Cnt(Ref!ValuesOf(T), q + 1)
  BY <1>1, ValuesStep DEF Recorded
<1>. QED  BY <1>5, <1>8, <1>9 DEF Recorded

LEMMA ObjectIs ==
  ASSUME NEW T, NEW f, f.kind \in {"object", "array"}, NEW i, T[i].kind = Ref!OpenOf(Sym(f))
  PROVE  f.kind = "object" <=> Braced(T, i)
BY DEF Sym, Ref!OpenOf, Braced

LEMMA FewIs ==
  ASSUME NEW T, NEW f, f.kind \in {"object", "array"}, NEW i, T[i].kind = Ref!OpenOf(Sym(f))
  PROVE  Few(T, i) <=> Cardinality(Ref!ItemsOf(T, i)) <= CountLimit(f.kind)
<1>1. f.kind = "object" <=> Braced(T, i)
  BY ObjectIs
<1>. QED  BY <1>1 DEF Few, CountLimit

LEMMA ItemsFinite ==
  ASSUME NEW T, Len(T) \in Nat, NEW i
  PROVE  IsFiniteSet(Ref!ItemsOf(T, i)) /\ IsFiniteSet(Ref!ValuesOf(T))
<1>1. IsFiniteSet(1..Len(T))
  BY FS_Interval
<1>2. Ref!ValuesOf(T) \subseteq 1..Len(T)
  BY DEF Ref!ValuesOf
<1>3. Ref!ItemsOf(T, i) \subseteq Ref!ValuesOf(T)
  BY DEF Ref!ItemsOf
<1>4. Ref!ItemsOf(T, i) \subseteq 1..Len(T)
  BY <1>2, <1>3
<1>. QED  BY <1>1, <1>2, <1>4, FS_Subset

(* A closing bracket: its container is complete. *)
LEMMA Completed ==
  ASSUME NEW T, Len(T) \in Nat, NEW S, Len(S) \in Nat \ {0}, NEW q \in 1..Len(T),
         q \in Ref!Closes(T), S[Len(S)].kind \in {"object", "array"}, WithinCount(S[Len(S)]),
         NEW c, c # "append", NEW O, Places(T, S, O, q), Held(T, S, O, c, q), Seen(T, S, O, q)
  PROVE  Shut(T, O[Len(S)], q + 1) /\ Good(T, O[Len(S)])
<1> DEFINE d == Len(S)
           i == O[Len(S)]
<1>1. d \in 1..d /\ ~(d < d) /\ q \in Nat \ {0}
  OBVIOUS
<1>2. i \in 1..(q - 1) /\ Nest(T, i) = d - 1 /\ T[i].kind = Ref!OpenOf(Sym(S[d])) /\ Nest(T, q) = d
  BY <1>1 DEF Places
<1>3. q \notin Ref!Opens(T) /\ q \notin Ref!ValuesOf(T) /\ ~Ref!IsKey(T, q)
  BY KindsOf
<1>4. Nest(T, q + 1) = d - 1
  <2>1. Nest(T, q + 1) = Nest(T, q) + (IF q \in Ref!Opens(T) THEN 1 ELSE 0)
                                    - (IF q \in Ref!Closes(T) THEN 1 ELSE 0)
    BY NestIs
  <2>2. Nest(T, q + 1) = Nest(T, q) + 0 - 1
    BY <1>3, <2>1
  <2>. QED  BY <1>2, <2>2
<1>5. Shut(T, i, q + 1)
  <2>1. q + 1 \in (i + 1)..(q + 1)
    BY <1>2
  <2>. QED  BY <1>2, <1>4, <2>1 DEF Shut
<1>6. Ref!Directly(T, i) \subseteq 1..q
  <2>1. i \in 1..Len(T) /\ q + 1 \in 1..(Len(T) + 1) /\ (q + 1) - 1 = q
    BY <1>2
  <2> HIDE DEF i
  <2>2. Ref!Directly(T, i) \subseteq 1..((q + 1) - 1)
    BY <1>5, <2>1, NothingAfter
  <2>. QED  BY <2>1, <2>2
<1>7. Ref!ItemsOf(T, i) \subseteq 1..(q - 1) /\ KeysIn(T, i, q) = Ref!KeysOf(T, i)
  <2>1. \A j \in 1..q : j # q => j \in 1..(q - 1)
    OBVIOUS
  <2>2. \A j \in Ref!ItemsOf(T, i) : j \in 1..q /\ j # q
    BY <1>3, <1>6 DEF Ref!ItemsOf
  <2>3. \A j \in Ref!KeysOf(T, i) : j \in 1..q /\ j # q
    BY <1>3, <1>6 DEF Ref!KeysOf
  <2>. QED  BY <2>1, <2>2, <2>3 DEF KeysIn
<1>8. Cardinality(Ref!ItemsOf(T, i)) = Len(S[d].items)
  <2> DEFINE X == Ref!ItemsOf(T, i)
  <2>1. Cnt(X, q) = Cardinality(X)
    <3> HIDE DEF X
    <3>. QED  BY <1>1, <1>7, CountedUpTo DEF X
  <2>2. Cnt(X, q) = Len(S[d].items)
    BY <1>1 DEF Held
  <2>. QED  BY <2>1, <2>2
<1> DEFINE f == S[d]
<1>9. f.kind \in {"object", "array"} /\ WithinCount(f) /\ T[i].kind = Ref!OpenOf(Sym(f))
      /\ Cardinality(Ref!ItemsOf(T, i)) = Len(f.items)
  BY <1>2, <1>8
<1>10. f.kind = "object" => Ref!DistinctIn(T, i)
  BY <1>1, <1>7 DEF Seen, Ref!DistinctIn
<1> HIDE DEF f, i, d
<1>11. Few(T, i)
  BY <1>9, FewIs DEF WithinCount
<1>12. Braced(T, i) => Ref!DistinctIn(T, i)
  <2>1. f.kind = "object" <=> Braced(T, i)
    BY <1>9, ObjectIs
  <2>. QED  BY <1>10, <2>1
<1>13. Good(T, i)
  BY <1>11, <1>12 DEF Good
<1>. QED  BY <1>5, <1>13 DEF i, d

LEMMA PlacesClose ==
  ASSUME NEW T, Len(T) \in Nat, NEW S, Len(S) \in Nat, NEW Z, Above(S, Z), NEW q \in 1..Len(T),
         q \in Ref!Closes(T), NEW O, Places(T, Z, O, q), Past(T, Z, O, q),
         Shut(T, O[Len(Z)], q + 1), Good(T, O[Len(Z)]),
         NEW P, P \in [1..Len(S) -> 1..q], \A m \in 1..Len(S) : P[m] = O[m]
  PROVE  Places(T, S, P, q + 1) /\ Past(T, S, P, q + 1)
<1>1. Len(Z) = Len(S) + 1 /\ \A m \in 1..Len(S) : Z[m] = S[m] /\ m \in 1..Len(Z)
  BY DEF Above
<1>2. Nest(T, q + 1) = Len(S)
  <2>1. q \notin Ref!Opens(T)
    BY KindsOf
  <2>2. Nest(T, q) = Len(S) + 1
    BY <1>1 DEF Places
  <2>3. Nest(T, q + 1) = Nest(T, q) - 1
    BY <2>1, NestIs
  <2>. QED  BY <2>2, <2>3
<1>3. (q + 1) - 1 = q
  OBVIOUS
<1>4. ASSUME NEW m \in 1..Len(S)
      PROVE  /\ T[P[m]].kind = Ref!OpenOf(Sym(S[m]))
             /\ Nest(T, P[m]) = m - 1
             /\ \A k \in (P[m] + 1)..(q + 1) : Nest(T, k) >= m
  <2>1. P[m] = O[m] /\ Z[m] = S[m] /\ m \in 1..Len(Z) /\ O[m] \in 1..(q - 1)
    BY <1>1 DEF Places
  <2>2. \A k \in (O[m] + 1)..(q + 1) : k = q + 1 \/ k \in (O[m] + 1)..q
    BY <2>1
  <2>3. Nest(T, q + 1) >= m
    BY <1>2
  <2>4. \A k \in (O[m] + 1)..(q + 1) : Nest(T, k) >= m
    BY <2>1, <2>2, <2>3 DEF Places
  <2>. QED  BY <2>1, <2>4 DEF Places
<1>5. ASSUME NEW i \in Ref!Opens(T) \cap (1..q)
      PROVE  /\ Nest(T, i) + 1 <= Limit("depth")
             /\ (\E m \in 1..Len(S) : i = P[m]) \/ (Shut(T, i, q + 1) /\ Good(T, i))
  <2>1. i # q /\ i \in Ref!Opens(T) \cap (1..(q - 1))
    <3>1. q \notin Ref!Opens(T)
      BY KindsOf
    <3>2. i # q
      BY <3>1
    <3>. QED  BY <3>2
  <2>2. Shut(T, i, q) => Shut(T, i, q + 1)
    <3>1. (i + 1)..q \subseteq (i + 1)..(q + 1)
      BY <2>1
    <3>. QED  BY <3>1 DEF Shut
  <2>3. \A m \in 1..Len(Z) : m = Len(Z) \/ m \in 1..Len(S)
    BY <1>1
  <2>4. Nest(T, i) + 1 <= Limit("depth") /\ ((\E m \in 1..Len(Z) : i = O[m]) \/ (Shut(T, i, q) /\ Good(T, i)))
    BY <2>1 DEF Past
  <2>. QED  BY <2>2, <2>3, <2>4
<1>6. Places(T, S, P, q + 1)
  BY <1>2, <1>3, <1>4 DEF Places
<1>7. Past(T, S, P, q + 1)
  BY <1>3, <1>5 DEF Past
<1>. QED  BY <1>6, <1>7

LEMMA RecordedClose ==
  ASSUME NEW T, Len(T) \in Nat, NEW S, Len(S) \in Nat, NEW Z, Above(S, Z), NEW q \in 1..Len(T),
         q \in Ref!Closes(T), Z[Len(Z)].kind \in {"object", "array"}, WithinCount(Z[Len(Z)]),
         NEW c, c # "append", NEW b, b = "append" \/ Len(S) = 0, NEW v, Recorded(T, Z, c, q, v)
  PROVE  Recorded(T, S, b, q + 1, v)
<1>1. q \notin Ref!ValuesOf(T) /\ ~Ref!IsKey(T, q)
  BY KindsOf
<1>2. PICK O : Places(T, Z, O, q) /\ Past(T, Z, O, q) /\ Held(T, Z, O, c, q) /\ Seen(T, Z, O, q)
  BY DEF Recorded
<1>3. Len(Z) = Len(S) + 1 /\ \A m \in 1..Len(S) : Z[m] = S[m] /\ m \in 1..Len(Z) /\ m < Len(Z) /\ m # Len(Z)
  BY DEF Above
<1>4. Shut(T, O[Len(Z)], q + 1) /\ Good(T, O[Len(Z)])
  <2>1. Len(Z) \in Nat \ {0}
    BY <1>3
  <2>. QED  BY <1>2, <2>1, Completed
<1> DEFINE P == [m \in 1..Len(S) |-> O[m]]
<1>5. P \in [1..Len(S) -> 1..q] /\ \A m \in 1..Len(S) : P[m] = O[m]
  <2>1. \A m \in 1..Len(S) : O[m] \in 1..(q - 1)
    BY <1>2, <1>3 DEF Places
  <2>2. 1..(q - 1) \subseteq 1..q
    OBVIOUS
  <2>. QED  BY <2>1, <2>2
<1> HIDE DEF P
<1>6. Places(T, S, P, q + 1) /\ Past(T, S, P, q + 1)
  BY <1>2, <1>4, <1>5, PlacesClose
<1>7. ASSUME NEW m \in 1..Len(S)
      PROVE  /\ Cnt(Ref!ItemsOf(T, P[m]), q + 1) = Len(S[m].items) + 1
             /\ KeysIn(T, P[m], q + 1) = KeysIn(T, P[m], q)
  <2>1. m \in 1..Len(Z) /\ m < Len(Z) /\ P[m] = O[m] /\ Z[m] = S[m] /\ Len(Z) \in Nat
    BY <1>3, <1>5
  <2>2. /\ Cnt(Ref!ItemsOf(T, O[m]), q + 1) = Cnt(Ref!ItemsOf(T, O[m]), q)
        /\ KeysIn(T, O[m], q + 1) = KeysIn(T, O[m], q)
    BY <1>1, <1>2, <2>1, HeldStep DEF Advances
  <2>3. Cnt(Ref!ItemsOf(T, O[m]), q) = Len(S[m].items) + 1
    BY <1>2, <2>1 DEF Held
  <2>. QED  BY <2>1, <2>2, <2>3
<1>8. Held(T, S, P, b, q + 1)
  <2>1. \A m \in 1..Len(S) : Len(S) # 0
    OBVIOUS
  <2>. QED  BY <1>7, <2>1 DEF Held
<1>9. Seen(T, S, P, q + 1)
  <2>1. ASSUME NEW m \in 1..Len(S), S[m].kind = "object"
        PROVE  /\ S[m].seen = {T[j].text : j \in KeysIn(T, P[m], q + 1)}
               /\ \A j, k \in KeysIn(T, P[m], q + 1) : T[j].text = T[k].text => j = k
    <3>1. KeysIn(T, P[m], q + 1) = KeysIn(T, O[m], q) /\ Z[m] = S[m] /\ m \in 1..Len(Z)
      BY <1>3, <1>5, <1>7
    <3>. QED  BY <1>2, <2>1, <3>1 DEF Seen
  <2>. QED  BY <2>1 DEF Seen
<1>10. v = Cnt(Ref!ValuesOf(T), q + 1)
  BY <1>1, ValuesStep DEF Recorded
<1>. QED  BY <1>6, <1>8, <1>9, <1>10 DEF Recorded

-----------------------------------------------------------------------------
(* What the record says of the limits and of the keys of the whole text. *)
LEMMA WithinCountsIs ==
  ASSUME NEW T
  PROVE  WithinCounts(T) <=> /\ \A i \in Ref!Opens(T) : Nest(T, i) + 1 <= Limit("depth")
                             /\ Cardinality(Ref!ValuesOf(T)) <= Limit("values")
                             /\ \A i \in Ref!Opens(T) : Few(T, i)
BY DEF WithinCounts, Nest, Few, Braced

KeysDiffer(T) == \A i \in Ref!Opens(T) : Braced(T, i) => Ref!DistinctIn(T, i)

LEMMA AcceptsIs ==
  RefAccepts <=> /\ ~TooLarge /\ InvalidBytes = {}
                 /\ Ref!IsValue(Text) /\ WithinCounts(Text) /\ KeysDiffer(Text)
BY DEF RefAccepts, KeysDiffer, Braced

LEMMA TooManyValues ==
  ASSUME NEW T, Len(T) \in Nat, NEW q \in 1..Len(T), NEW S, NEW c, NEW v, Recorded(T, S, c, q, v),
         q \in Ref!ValuesOf(T), v + 1 > Limit("values")
  PROVE  ~WithinCounts(T)
<1> DEFINE V == Ref!ValuesOf(T)
<1>1. q \in Nat \ {0} /\ q + 1 \in Nat \ {0} /\ Limit("values") \in Nat
  BY Limits
<1>2. IsFiniteSet(V)
  BY ItemsFinite
<1>3. v = Cnt(V, q) /\ q \in V
  BY DEF Recorded
<1> HIDE DEF V
<1>4. Cnt(V, q) \in Nat /\ Cnt(V, q + 1) = Cnt(V, q) + 1
  BY <1>1, <1>3, CountedUpTo
<1>5. Cnt(V, q + 1) <= Cardinality(V) /\ Cardinality(V) \in Nat
  BY <1>1, <1>2, CountedUpTo, FS_CardinalityType
<1>6. ~(Cardinality(V) <= Limit("values"))
  BY <1>1, <1>3, <1>4, <1>5
<1>. QED  BY <1>6, WithinCountsIs DEF V

LEMMA TooDeep ==
  ASSUME NEW T, Len(T) \in Nat, NEW q \in 1..Len(T), NEW S, Len(S) \in Nat,
         NEW c, NEW v, Recorded(T, S, c, q, v),
         q \in Ref!Opens(T), Len(S) + 1 > Limit("depth")
  PROVE  ~WithinCounts(T)
<1>1. Nest(T, q) = Len(S)
  BY DEF Recorded, Places
<1>2. ~(Nest(T, q) + 1 <= Limit("depth"))
  BY <1>1, Limits
<1>. QED  BY <1>2, WithinCountsIs

LEMMA TooManyItems ==
  ASSUME NEW T, Len(T) \in Nat, NEW q \in 1..(Len(T) + 1), NEW S, Len(S) \in Nat \ {0},
         NEW v, Recorded(T, S, "append", q, v), S[Len(S)].kind \in {"object", "array"},
         Len(S[Len(S)].items) \in Nat, ~(Len(S[Len(S)].items) < CountLimit(S[Len(S)].kind))
  PROVE  ~WithinCounts(T)
<1> DEFINE f == S[Len(S)]
<1>0. Len(S) \in 1..Len(S) /\ q \in Nat \ {0} /\ ~(Len(S) < Len(S))
  OBVIOUS
<1>1. PICK O : Places(T, S, O, q) /\ Held(T, S, O, "append", q)
  BY DEF Recorded
<1> DEFINE i == O[Len(S)]
           X == Ref!ItemsOf(T, i)
<1>2. i \in 1..(q - 1) /\ T[i].kind = Ref!OpenOf(Sym(f)) /\ Cnt(X, q) = Len(f.items) + 1
  BY <1>0, <1>1 DEF Places, Held
<1>3. IsFiniteSet(X)
  BY ItemsFinite
<1>4. i \in Ref!Opens(T)
  <2>1. i \in 1..Len(T)
    BY <1>0, <1>2
  <2>. QED  BY <1>2, <2>1, BracketsAre DEF Ref!Opens, Sym
<1>5. CountLimit(f.kind) \in Nat /\ f.kind \in {"object", "array"} /\ Len(f.items) \in Nat
      /\ ~(Len(f.items) < CountLimit(f.kind))
  BY Limits
<1>6. Few(T, i) => Cardinality(X) <= CountLimit(f.kind)
  <2> HIDE DEF f, i
  <2>. QED  BY <1>2, <1>5, FewIs
<1> HIDE DEF f, X
<1>7. Cnt(X, q) <= Cardinality(X) /\ Cardinality(X) \in Nat
  BY <1>0, <1>3, CountedUpTo, FS_CardinalityType
<1>8. ~(Cardinality(X) <= CountLimit(f.kind))
  BY <1>2, <1>5, <1>7
<1> HIDE DEF i
<1>. QED  BY <1>4, <1>6, <1>8, WithinCountsIs

LEMMA SeenTwice ==
  ASSUME NEW T, Len(T) \in Nat, NEW q \in 1..Len(T), NEW S, Len(S) \in Nat \ {0},
         NEW c, NEW v, Recorded(T, S, c, q, v), S[Len(S)].kind = "object",
         Ref!IsKey(T, q), T[q].text \in S[Len(S)].seen
  PROVE  ~KeysDiffer(T)
<1> DEFINE d == Len(S)
<1>0. d \in 1..d
  OBVIOUS
<1>1. PICK O : Places(T, S, O, q) /\ Seen(T, S, O, q)
  BY DEF Recorded
<1> DEFINE i == O[d]
<1>2. i \in 1..(q - 1) /\ T[i].kind = Ref!OpenOf(Sym(S[d])) /\ Sym(S[d]) = "members"
  BY <1>0, <1>1 DEF Places, Sym
<1>3. PICK j \in KeysIn(T, i, q) : T[q].text = T[j].text
  BY <1>0, <1>1 DEF Seen
<1>4. j \in Ref!KeysOf(T, i) /\ j # q
  BY <1>3 DEF KeysIn
<1>5. q \in Ref!KeysOf(T, i)
  BY <1>0, <1>1, InContainer
<1>6. ~Ref!DistinctIn(T, i)
  BY <1>3, <1>4, <1>5 DEF Ref!DistinctIn
<1>7. i \in 1..Len(T)
  BY <1>2
<1>8. i \in Ref!Opens(T) /\ Braced(T, i)
  BY <1>2, <1>7, BracketsAre DEF Ref!Opens, Braced
<1>. QED  BY <1>6, <1>8 DEF KeysDiffer

LEMMA AllRead ==
  ASSUME NEW T, Len(T) \in Nat, NEW S, Len(S) = 0, NEW c, NEW v, Recorded(T, S, c, Len(T) + 1, v),
         v <= Limit("values")
  PROVE  WithinCounts(T) /\ KeysDiffer(T)
<1> DEFINE n == Len(T)
           V == Ref!ValuesOf(T)
<1>1. n + 1 \in Nat \ {0} /\ (n + 1) - 1 = n
  OBVIOUS
<1>2. PICK O : Past(T, S, O, n + 1)
  BY DEF Recorded
<1>3. Ref!Opens(T) \subseteq 1..n /\ V \subseteq 1..n
  BY DEF Ref!Opens, Ref!ValuesOf
<1>4. \A i \in Ref!Opens(T) : Nest(T, i) + 1 <= Limit("depth") /\ Good(T, i)
  <2>1. 1..Len(S) = {}
    OBVIOUS
  <2>. QED  BY <1>1, <1>2, <1>3, <2>1 DEF Past
<1>5. Cardinality(V) <= Limit("values")
  <2>1. v = Cnt(V, n + 1)
    BY DEF Recorded
  <2> HIDE DEF V
  <2>2. Cnt(V, n + 1) = Cardinality(V)
    BY <1>1, <1>3, CountedUpTo
  <2>. QED  BY <2>1, <2>2
<1>. QED  BY <1>4, <1>5, WithinCountsIs DEF Good, KeysDiffer

-----------------------------------------------------------------------------
(* The parser is on the track of the grammar when the text is a value just *)
(* if what is left fits, and has then recorded what it has read.           *)
Tracks(T, c, S, q, v) ==
  /\ Ref!IsValue(T) <=> Fits(T, c, S, q)
  /\ Ref!IsValue(T) => Recorded(T, S, c, q, v)

Refused(T) == ~(Ref!IsValue(T) /\ WithinCounts(T) /\ KeysDiffer(T))

(* Each step of the parser, as a step on the track or off it. *)
LEMMA TrackStart ==
  ASSUME NEW T, Len(T) \in Nat, NEW S, Len(S) = 0
  PROVE  Tracks(T, "value", S, 1, 0)
BY FitsStart, RecordedStart DEF Tracks

LEMMA NoColonNext ==
  ASSUME NEW T, Len(T) \in Nat, NEW S, Len(S) \in Nat, NEW q \in Nat \ {0}, Fits(T, "next", S, q),
         q \in 1..Len(T)
  PROVE  T[q].kind # ":"
<1>1. PICK E : Goes(T, "next", S, E, q)
  BY DEF Fits
<1>2. Resume(T, S, E, Len(S), q)
  BY <1>1 DEF Goes
<1>3. CASE Len(S) = 0
  BY <1>2, <1>3 DEF Resume
<1>4. CASE Len(S) # 0
  <2>1. After(T, Sym(S[Len(S)]), q, E[Len(S)])
    BY <1>2, <1>4 DEF Resume
  <2>2. T[q].kind = Ref!CloseOf(Sym(S[Len(S)])) \/ T[q].kind = ","
    BY <2>1, AfterIs
  <2>. QED  BY <2>2 DEF Ref!CloseOf
<1>. QED  BY <1>3, <1>4

LEMMA ScalarIsNoKey ==
  ASSUME NEW T, Len(T) \in Nat, NEW S, Len(S) \in Nat, NEW q \in 1..Len(T), T[q].kind \in Scalars,
         Fits(T, "value", S, q)
  PROVE  T[q].fail = None /\ ~Ref!IsKey(T, q)
<1>1. T[q].fail = None /\ Fits(T, "next", S, q + 1)
  BY FitsScalar DEF Back
<1>2. SUFFICES ASSUME Ref!IsKey(T, q) PROVE FALSE
  BY <1>1
<1>3. q < Len(T) /\ T[q + 1].kind = ":"
  BY <1>2 DEF Ref!IsKey
<1>4. q + 1 \in 1..Len(T) /\ q + 1 \in Nat \ {0}
  <2>1. q < Len(T)
    BY <1>2 DEF Ref!IsKey
  <2>. QED  BY <2>1
<1>. QED  BY <1>1, <1>3, <1>4, NoColonNext

LEMMA ValueDue ==
  ASSUME NEW T, Len(T) \in Nat, NEW S, Len(S) \in Nat, NEW q, Fits(T, "value", S, q)
  PROVE  q \in 1..Len(T) /\ q \in Ref!ValuesOf(T)
<1>1. q \in 1..Len(T) /\ T[q].kind \in Scalars \cup {"{", "["}
  BY FitsNoValue
<1>2. CASE T[q].kind \in Scalars
  BY <1>1, <1>2, ScalarIsNoKey, KindsOf
<1>3. CASE T[q].kind \in {"{", "["}
  BY <1>1, <1>3 DEF Ref!ValuesOf
<1>. QED  BY <1>1, <1>2, <1>3

LEMMA TrackValueOver ==
  ASSUME NEW T, Len(T) \in Nat, NEW S, Len(S) \in Nat, NEW q, NEW v, Tracks(T, "value", S, q, v),
         v + 1 > Limit("values")
  PROVE  Refused(T)
<1>1. SUFFICES ASSUME Ref!IsValue(T) PROVE ~WithinCounts(T)
  BY DEF Refused
<1>2. q \in 1..Len(T) /\ q \in Ref!ValuesOf(T)
  BY <1>1, ValueDue DEF Tracks
<1>3. Recorded(T, S, "value", q, v)
  BY <1>1 DEF Tracks
<1>. QED  BY <1>2, <1>3, TooManyValues

LEMMA TrackDepthOver ==
  ASSUME NEW T, Len(T) \in Nat, NEW S, Len(S) \in Nat, NEW q \in 1..Len(T), NEW v,
         Tracks(T, "value", S, q, v), q \in Ref!Opens(T), Len(S) + 1 > Limit("depth")
  PROVE  Refused(T)
<1>1. SUFFICES ASSUME Ref!IsValue(T) PROVE ~WithinCounts(T)
  BY DEF Refused
<1>2. Recorded(T, S, "value", q, v)
  BY <1>1 DEF Tracks
<1>. QED  BY <1>2, TooDeep

LEMMA TrackOpen ==
  ASSUME NEW T, Len(T) \in Nat, NEW S, Len(S) \in Nat, NEW q \in 1..Len(T), NEW v,
         Tracks(T, "value", S, q, v), q \in Ref!Opens(T), NEW Z, Above(S, Z),
         T[q].kind = Ref!OpenOf(Sym(Z[Len(Z)])), Len(S) + 1 <= Limit("depth"),
         Len(Z[Len(Z)].items) = 0, Z[Len(Z)].seen = {}
  PROVE  Tracks(T, "open", Z, q + 1, v + 1)
<1>1. Sym(Z[Len(Z)]) \in Lists
  BY DEF Sym, Lists
<1>2. Fits(T, "value", S, q) <=> Fits(T, "open", Z, q + 1)
  BY <1>1, FitsOpen
<1>3. Recorded(T, S, "value", q, v) => Recorded(T, Z, "open", q + 1, v + 1)
  BY RecordedOpen
<1>. QED  BY <1>2, <1>3 DEF Tracks

LEMMA TrackScalar ==
  ASSUME NEW T, Len(T) \in Nat, NEW S, Len(S) \in Nat, NEW q \in 1..Len(T), NEW v,
         Tracks(T, "value", S, q, v), T[q].kind \in Scalars,
         \A m \in 1..Len(S) : Len(S[m].items) \in Nat,
         NEW b \in Back, b = "append" \/ Len(S) = 0
  PROVE  /\ T[q].fail = None => Tracks(T, b, S, q + 1, v + 1)
         /\ T[q].fail # None => Refused(T)
<1>1. /\ T[q].fail = None => (Fits(T, "value", S, q) <=> Fits(T, b, S, q + 1))
      /\ T[q].fail # None => ~Fits(T, "value", S, q)
  BY FitsScalar
<1>2. ASSUME Ref!IsValue(T) PROVE Recorded(T, S, b, q + 1, v + 1)
  <2>1. Fits(T, "value", S, q) /\ Recorded(T, S, "value", q, v)
    BY <1>2 DEF Tracks
  <2>2. ~Ref!IsKey(T, q)
    BY <2>1, ScalarIsNoKey
  <2>3. "value" # "append"
    OBVIOUS
  <2>. QED  BY <2>1, <2>2, <2>3, RecordedScalar
<1>. QED  BY <1>1, <1>2 DEF Tracks, Refused

LEMMA TrackNoValue ==
  ASSUME NEW T, Len(T) \in Nat, NEW S, NEW q, NEW v, Tracks(T, "value", S, q, v),
         q \in 1..Len(T) => T[q].kind \notin Scalars \cup {"{", "["}
  PROVE  Refused(T)
BY FitsNoValue DEF Tracks, Refused

LEMMA TrackClose ==
  ASSUME NEW T, Len(T) \in Nat, NEW S, Len(S) \in Nat, NEW Z, Above(S, Z), NEW q \in 1..Len(T), NEW v,
         NEW c \in {"open", "next"}, Tracks(T, c, Z, q, v), T[q].kind = Ref!CloseOf(Sym(Z[Len(Z)])),
         Z[Len(Z)].kind \in {"object", "array"}, WithinCount(Z[Len(Z)]),
         NEW b \in Back, b = "append" \/ Len(S) = 0
  PROVE  Tracks(T, b, S, q + 1, v)
<1>1. Sym(Z[Len(Z)]) \in Lists /\ q \in Ref!Closes(T)
  BY BracketsAre DEF Sym, Lists, Ref!Closes
<1>2. Fits(T, c, Z, q) <=> Fits(T, b, S, q + 1)
  BY <1>1, FitsClose
<1>3. c # "append"
  OBVIOUS
<1>4. Recorded(T, Z, c, q, v) => Recorded(T, S, b, q + 1, v)
  BY <1>1, <1>3, RecordedClose
<1>. QED  BY <1>2, <1>4 DEF Tracks

LEMMA TrackEnter ==
  ASSUME NEW T, Len(T) \in Nat, NEW S, Len(S) \in Nat \ {0}, NEW q, NEW v,
         Tracks(T, "open", S, q, v),
         q \in 1..Len(T) => T[q].kind # Ref!CloseOf(Sym(S[Len(S)]))
  PROVE  /\ Tracks(T, Enters(Sym(S[Len(S)])), S, q, v)
         /\ q \notin 1..Len(T) => Refused(T)
<1> DEFINE c == Enters(Sym(S[Len(S)]))
<1>1. Sym(S[Len(S)]) \in Lists /\ c # "append"
  BY DEF Sym, Lists, Enters
<1>2. /\ Fits(T, "open", S, q) <=> Fits(T, c, S, q)
      /\ q \notin 1..Len(T) => ~Fits(T, "open", S, q)
  BY <1>1, FitsEnter
<1>3. Recorded(T, S, "open", q, v) => Recorded(T, S, c, q, v)
  <2>1. \A O : Held(T, S, O, "open", q) => Held(T, S, O, c, q)
    BY <1>1 DEF Held
  <2>. QED  BY <2>1 DEF Recorded
<1> HIDE DEF c
<1>. QED  BY <1>2, <1>3 DEF Tracks, Refused, c

LEMMA KeyAhead ==
  ASSUME NEW T, Len(T) \in Nat, NEW S, NEW q \in 1..Len(T), Ref!IsName(T[q]),
         Fits(T, "colon", S, q + 1)
  PROVE  Ref!IsKey(T, q)
<1>1. q + 1 \in 1..Len(T) /\ T[q + 1].kind = ":"
  BY FitsColon
<1>2. q < Len(T)
  <2>1. q + 1 \in 1..Len(T)
    BY <1>1
  <2>. QED  BY <2>1
<1>. QED  BY <1>1, <1>2 DEF Ref!IsKey, Ref!IsName

LEMMA TrackKey ==
  ASSUME NEW T, Len(T) \in Nat, NEW S, Len(S) \in Nat \ {0}, NEW q \in 1..Len(T), NEW v,
         Tracks(T, "key", S, q, v), S[Len(S)].kind = "object", Ref!IsName(T[q]),
         NEW Z, NEW g, Replaced(S, Z, g), g.kind = "object", g.items = S[Len(S)].items,
         g.seen = S[Len(S)].seen \cup {T[q].text}, T[q].text \notin S[Len(S)].seen
  PROVE  Tracks(T, "colon", Z, q + 1, v)
<1>1. Sym(S[Len(S)]) = "members" /\ q \in Nat \ {0} /\ Len(S) # 0
  BY DEF Sym
<1>2. Fits(T, "key", S, q) <=> Fits(T, "colon", S, q + 1)
  BY <1>1, FitsKey
<1>3. Fits(T, "colon", S, q + 1) <=> Fits(T, "colon", Z, q + 1)
  <2>1. Alike(S, Z)
    BY DEF Alike, Replaced, Sym
  <2>. QED  BY <2>1, AlikeFits
<1>4. ASSUME Ref!IsValue(T) PROVE Recorded(T, Z, "colon", q + 1, v)
  <2>1. Recorded(T, S, "key", q, v) /\ Ref!IsKey(T, q)
    BY <1>2, <1>4, KeyAhead DEF Tracks
  <2>2. "key" # "append" /\ "colon" # "append"
    OBVIOUS
  <2>. QED  BY <2>1, <2>2, RecordedKey
<1>. QED  BY <1>2, <1>3, <1>4 DEF Tracks

LEMMA TrackDuplicate ==
  ASSUME NEW T, Len(T) \in Nat, NEW S, Len(S) \in Nat \ {0}, NEW q \in 1..Len(T), NEW v,
         Tracks(T, "key", S, q, v), S[Len(S)].kind = "object", Ref!IsName(T[q]),
         T[q].text \in S[Len(S)].seen
  PROVE  Refused(T)
<1>1. SUFFICES ASSUME Ref!IsValue(T) PROVE ~KeysDiffer(T)
  BY DEF Refused
<1>2. Sym(S[Len(S)]) = "members" /\ q \in Nat \ {0} /\ Len(S) # 0
  BY DEF Sym
<1>3. Fits(T, "colon", S, q + 1) /\ Recorded(T, S, "key", q, v)
  BY <1>1, <1>2, FitsKey DEF Tracks
<1>4. Ref!IsKey(T, q)
  BY <1>3, KeyAhead
<1>. QED  BY <1>3, <1>4, SeenTwice

LEMMA TrackNoKey ==
  ASSUME NEW T, Len(T) \in Nat, NEW S, Len(S) \in Nat \ {0}, NEW q \in Nat \ {0}, NEW v,
         Tracks(T, "key", S, q, v), S[Len(S)].kind = "object",
         ~(q \in 1..Len(T) /\ Ref!IsName(T[q]))
  PROVE  Refused(T)
<1>1. Sym(S[Len(S)]) = "members" /\ Len(S) # 0
  BY DEF Sym
<1>2. ~Fits(T, "key", S, q)
  BY <1>1, FitsKey
<1>. QED  BY <1>2 DEF Tracks, Refused

LEMMA TrackColon ==
  ASSUME NEW T, Len(T) \in Nat, NEW S, Len(S) \in Nat, NEW q, NEW v, Tracks(T, "colon", S, q, v)
  PROVE  IF q \in 1..Len(T) /\ T[q].kind = ":" THEN Tracks(T, "value", S, q + 1, v) ELSE Refused(T)
<1>1. CASE q \in 1..Len(T) /\ T[q].kind = ":"
  <2>1. Fits(T, "colon", S, q) <=> Fits(T, "value", S, q + 1)
    BY <1>1, FitsColon
  <2>2. "colon" # "append" /\ "value" # "append" /\ Separates(T, q)
    BY <1>1 DEF Separates
  <2>3. Recorded(T, S, "colon", q, v) => Recorded(T, S, "value", q + 1, v)
    BY <1>1, <2>2, RecordedPlain
  <2>. QED  BY <1>1, <2>1, <2>3 DEF Tracks
<1>2. CASE ~(q \in 1..Len(T) /\ T[q].kind = ":")
  <2>1. ~Fits(T, "colon", S, q)
    BY <1>2, FitsColon
  <2>. QED  BY <1>2, <2>1 DEF Tracks, Refused
<1>. QED  BY <1>1, <1>2

LEMMA TrackAppend ==
  ASSUME NEW T, Len(T) \in Nat, NEW S, Len(S) \in Nat \ {0}, NEW q, NEW v,
         Tracks(T, "append", S, q, v), NEW Z, NEW g, Replaced(S, Z, g), g.kind = S[Len(S)].kind,
         g.seen = S[Len(S)].seen, Len(S[Len(S)].items) \in Nat,
         Len(g.items) = Len(S[Len(S)].items) + 1
  PROVE  Tracks(T, "next", Z, q, v)
<1>1. Fits(T, "append", S, q) <=> Fits(T, "next", S, q)
  BY DEF Fits, Goes
<1>2. Fits(T, "next", S, q) <=> Fits(T, "next", Z, q)
  <2>1. Alike(S, Z) /\ Len(S) \in Nat
    BY DEF Alike, Replaced, Sym
  <2>. QED  BY <2>1, AlikeFits
<1>3. Recorded(T, S, "append", q, v) => Recorded(T, Z, "next", q, v)
  BY RecordedAppend
<1>. QED  BY <1>1, <1>2, <1>3 DEF Tracks

LEMMA TrackCountOver ==
  ASSUME NEW T, Len(T) \in Nat, NEW S, Len(S) \in Nat \ {0}, NEW q \in 1..(Len(T) + 1), NEW v,
         Tracks(T, "append", S, q, v), S[Len(S)].kind \in {"object", "array"},
         Len(S[Len(S)].items) \in Nat, ~(Len(S[Len(S)].items) < CountLimit(S[Len(S)].kind))
  PROVE  Refused(T)
<1>1. SUFFICES ASSUME Ref!IsValue(T) PROVE ~WithinCounts(T)
  BY DEF Refused
<1>2. Recorded(T, S, "append", q, v)
  BY <1>1 DEF Tracks
<1>. QED  BY <1>2, TooManyItems

LEMMA PlaceIs ==
  /\ \A T, q : Len(T) \in Nat /\ q \in 1..Len(T) => q \in Nat \ {0}
  /\ \A S : Len(S) \in Nat \ {0} => Len(S) # 0 /\ Len(S) \in Nat
OBVIOUS

LEMMA TrackComma ==
  ASSUME NEW T, Len(T) \in Nat, NEW S, Len(S) \in Nat \ {0}, NEW q \in 1..Len(T), NEW v,
         Tracks(T, "next", S, q, v), T[q].kind = ","
  PROVE  Tracks(T, Enters(Sym(S[Len(S)])), S, q + 1, v)
<1> DEFINE c == Enters(Sym(S[Len(S)]))
<1>1. Sym(S[Len(S)]) \in Lists /\ c # "append" /\ "next" # "append"
  BY DEF Sym, Lists, Enters
<1>2. Separates(T, q)
  BY DEF Separates
<1>3. q \in Nat \ {0} /\ Len(S) # 0 /\ Len(S) \in Nat
  BY PlaceIs
<1>4. Fits(T, "next", S, q) <=> Fits(T, c, S, q + 1)
  BY <1>1, <1>3, FitsNext
<1> HIDE DEF c
<1>5. Recorded(T, S, "next", q, v) => Recorded(T, S, c, q + 1, v)
  BY <1>1, <1>2, <1>3, RecordedPlain
<1>. QED  BY <1>4, <1>5 DEF Tracks, c

LEMMA TrackNoNext ==
  ASSUME NEW T, Len(T) \in Nat, NEW S, Len(S) \in Nat \ {0}, NEW q \in Nat \ {0}, NEW v,
         Tracks(T, "next", S, q, v),
         q \in 1..Len(T) => T[q].kind \notin {",", Ref!CloseOf(Sym(S[Len(S)]))}
  PROVE  Refused(T)
<1>1. Sym(S[Len(S)]) \in Lists /\ Len(S) # 0
  BY DEF Sym, Lists
<1>2. ~Fits(T, "next", S, q)
  BY <1>1, FitsNext
<1>. QED  BY <1>2 DEF Tracks, Refused

LEMMA TrackEnd ==
  ASSUME NEW T, Len(T) \in Nat, NEW S, Len(S) = 0, NEW q, NEW v, Tracks(T, "trailing", S, q, v),
         v <= Limit("values")
  PROVE  Refused(T) <=> q # Len(T) + 1
<1>1. Fits(T, "trailing", S, q) <=> q = Len(T) + 1
  BY FitsTrailing
<1>2. ASSUME q = Len(T) + 1 PROVE ~Refused(T)
  <2>1. Ref!IsValue(T) /\ Recorded(T, S, "trailing", Len(T) + 1, v)
    BY <1>1, <1>2 DEF Tracks
  <2>. QED  BY <2>1, AllRead DEF Refused
<1>. QED  BY <1>1, <1>2 DEF Tracks, Refused

-----------------------------------------------------------------------------
(* What comes is not known yet: the parser is on the track of every text   *)
(* that goes on from what it has read.                                     *)
(*                                                                         *)
(* U is what T is up to lexeme q.  A parser that waits for a value or a    *)
(* key has seen that no empty container closes there.                      *)
SameSoFar(T, U, c, q) ==
  /\ Len(U) \in Nat
  /\ q \in 1..(Len(U) + 1)
  /\ \A k \in 1..(q - 1) : U[k] = T[k]
  /\ c \in {"value", "key"} /\ q \in Ref!Closes(U) => q \in 1..Len(T) /\ T[q].kind = U[q].kind

(* What the parser does up to there does not depend on the rest.           *)
Steers(T, c, S, q, v) == \A U : SameSoFar(T, U, c, q) => Tracks(U, c, S, q, v)

LEMMA SteersTracks ==
  ASSUME NEW T, Len(T) \in Nat, NEW c, NEW S, NEW q \in 1..(Len(T) + 1), NEW v, Steers(T, c, S, q, v)
  PROVE  Tracks(T, c, S, q, v)
<1>1. SameSoFar(T, T, c, q)
  BY DEF SameSoFar, Ref!Closes
<1>. QED  BY <1>1 DEF Steers

LEMMA SameLess ==
  ASSUME NEW T, Len(T) \in Nat, NEW U, NEW b, NEW c, NEW q \in 1..Len(T), SameSoFar(T, U, b, q + 1)
  PROVE  /\ SameSoFar(T, U, c, q) /\ Len(U) \in Nat /\ q \in 1..Len(U) /\ U[q] = T[q]
         /\ q \in Ref!Opens(T) => q \in Ref!Opens(U)
<1>1. /\ Len(U) \in Nat /\ q + 1 \in 1..(Len(U) + 1)
      /\ \A k \in 1..((q + 1) - 1) : U[k] = T[k]
  BY DEF SameSoFar
<1>2. q \in 1..Len(U) /\ q \in 1..(Len(U) + 1) /\ \A k \in 1..q : U[k] = T[k]
  BY <1>1
<1>3. U[q] = T[q] /\ \A k \in 1..(q - 1) : U[k] = T[k]
  BY <1>2
<1>. QED  BY <1>1, <1>2, <1>3 DEF SameSoFar, Ref!Opens

LEMMA SteerStart ==
  ASSUME NEW T, NEW S, Len(S) = 0
  PROVE  Steers(T, "value", S, 1, 0)
BY TrackStart DEF Steers, SameSoFar

LEMMA SteerOpen ==
  ASSUME NEW T, Len(T) \in Nat, NEW S, Len(S) \in Nat, NEW q \in 1..Len(T), NEW v,
         Steers(T, "value", S, q, v), q \in Ref!Opens(T), NEW Z, Above(S, Z),
         T[q].kind = Ref!OpenOf(Sym(Z[Len(Z)])), Len(S) + 1 <= Limit("depth"),
         Len(Z[Len(Z)].items) = 0, Z[Len(Z)].seen = {}
  PROVE  Steers(T, "open", Z, q + 1, v + 1)
<1> SUFFICES ASSUME NEW U, SameSoFar(T, U, "open", q + 1) PROVE Tracks(U, "open", Z, q + 1, v + 1)
  BY DEF Steers
<1>1. /\ SameSoFar(T, U, "value", q) /\ Len(U) \in Nat /\ q \in 1..Len(U) /\ U[q] = T[q]
      /\ q \in Ref!Opens(U)
  BY SameLess
<1>2. Tracks(U, "value", S, q, v)
  BY <1>1 DEF Steers
<1>3. U[q].kind = Ref!OpenOf(Sym(Z[Len(Z)]))
  BY <1>1
<1>. QED  BY <1>1, <1>2, <1>3, TrackOpen

LEMMA SteerScalar ==
  ASSUME NEW T, Len(T) \in Nat, NEW S, Len(S) \in Nat, NEW q \in 1..Len(T), NEW v,
         Steers(T, "value", S, q, v), T[q].kind \in Scalars, T[q].fail = None,
         \A m \in 1..Len(S) : Len(S[m].items) \in Nat,
         NEW b \in Back, b = "append" \/ Len(S) = 0
  PROVE  Steers(T, b, S, q + 1, v + 1)
<1> SUFFICES ASSUME NEW U, SameSoFar(T, U, b, q + 1) PROVE Tracks(U, b, S, q + 1, v + 1)
  BY DEF Steers
<1>1. SameSoFar(T, U, "value", q) /\ Len(U) \in Nat /\ q \in 1..Len(U) /\ U[q] = T[q]
  BY SameLess
<1>2. Tracks(U, "value", S, q, v) /\ U[q].kind \in Scalars /\ U[q].fail = None
  BY <1>1 DEF Steers
<1>. QED  BY <1>1, <1>2, TrackScalar

LEMMA SteerClose ==
  ASSUME NEW T, Len(T) \in Nat, NEW S, Len(S) \in Nat, NEW Z, Above(S, Z), NEW q \in 1..Len(T), NEW v,
         NEW c \in {"open", "next"}, Steers(T, c, Z, q, v), T[q].kind = Ref!CloseOf(Sym(Z[Len(Z)])),
         Z[Len(Z)].kind \in {"object", "array"}, WithinCount(Z[Len(Z)]),
         NEW b \in Back, b = "append" \/ Len(S) = 0
  PROVE  Steers(T, b, S, q + 1, v)
<1> SUFFICES ASSUME NEW U, SameSoFar(T, U, b, q + 1) PROVE Tracks(U, b, S, q + 1, v)
  BY DEF Steers
<1>1. SameSoFar(T, U, c, q) /\ Len(U) \in Nat /\ q \in 1..Len(U) /\ U[q] = T[q]
  BY SameLess
<1>2. Tracks(U, c, Z, q, v) /\ U[q].kind = Ref!CloseOf(Sym(Z[Len(Z)]))
  BY <1>1 DEF Steers
<1>. QED  BY <1>1, <1>2, TrackClose

LEMMA SteerEnter ==
  ASSUME NEW T, Len(T) \in Nat, NEW S, Len(S) \in Nat \ {0}, NEW q \in 1..Len(T), NEW v,
         Steers(T, "open", S, q, v), T[q].kind # Ref!CloseOf(Sym(S[Len(S)]))
  PROVE  Steers(T, Enters(Sym(S[Len(S)])), S, q, v)
<1> DEFINE sym == Sym(S[Len(S)])
           c == Enters(sym)
<1> SUFFICES ASSUME NEW U, SameSoFar(T, U, c, q) PROVE Tracks(U, c, S, q, v)
  BY DEF Steers
<1>1. c \in {"value", "key"} /\ sym \in Lists
  BY DEF Enters, Sym, Lists
<1> HIDE DEF c, sym
<1>2. SameSoFar(T, U, "open", q) /\ Len(U) \in Nat
  BY DEF SameSoFar
<1>3. Tracks(U, "open", S, q, v)
  BY <1>2 DEF Steers
<1>4. ASSUME q \in 1..Len(U), U[q].kind = Ref!CloseOf(sym) PROVE FALSE
  <2>1. q \in Ref!Closes(U)
    BY <1>1, <1>4, BracketsAre DEF Lists, Ref!Closes
  <2>2. T[q].kind = U[q].kind
    BY <1>1, <2>1 DEF SameSoFar
  <2>. QED  BY <1>4, <2>2 DEF sym
<1>. QED  BY <1>2, <1>3, <1>4, TrackEnter DEF c, sym

LEMMA SteerKey ==
  ASSUME NEW T, Len(T) \in Nat, NEW S, Len(S) \in Nat \ {0}, NEW q \in 1..Len(T), NEW v,
         Steers(T, "key", S, q, v), S[Len(S)].kind = "object", Ref!IsName(T[q]),
         NEW Z, NEW g, Replaced(S, Z, g), g.kind = "object", g.items = S[Len(S)].items,
         g.seen = S[Len(S)].seen \cup {T[q].text}, T[q].text \notin S[Len(S)].seen
  PROVE  Steers(T, "colon", Z, q + 1, v)
<1> SUFFICES ASSUME NEW U, SameSoFar(T, U, "colon", q + 1) PROVE Tracks(U, "colon", Z, q + 1, v)
  BY DEF Steers
<1>1. SameSoFar(T, U, "key", q) /\ Len(U) \in Nat /\ q \in 1..Len(U) /\ U[q] = T[q]
  BY SameLess
<1>2. /\ Tracks(U, "key", S, q, v) /\ Ref!IsName(U[q])
      /\ g.seen = S[Len(S)].seen \cup {U[q].text} /\ U[q].text \notin S[Len(S)].seen
  BY <1>1 DEF Steers
<1>. QED  BY <1>1, <1>2, TrackKey

LEMMA SteerColon ==
  ASSUME NEW T, Len(T) \in Nat, NEW S, Len(S) \in Nat, NEW q \in 1..Len(T), NEW v,
         Steers(T, "colon", S, q, v), T[q].kind = ":"
  PROVE  Steers(T, "value", S, q + 1, v)
<1> SUFFICES ASSUME NEW U, SameSoFar(T, U, "value", q + 1) PROVE Tracks(U, "value", S, q + 1, v)
  BY DEF Steers
<1>1. SameSoFar(T, U, "colon", q) /\ Len(U) \in Nat /\ q \in 1..Len(U) /\ U[q] = T[q]
  BY SameLess
<1>2. Tracks(U, "colon", S, q, v) /\ U[q].kind = ":"
  BY <1>1 DEF Steers
<1>. QED  BY <1>1, <1>2, TrackColon

LEMMA SteerAppend ==
  ASSUME NEW T, NEW S, Len(S) \in Nat \ {0}, NEW q, NEW v,
         Steers(T, "append", S, q, v), NEW Z, NEW g, Replaced(S, Z, g), g.kind = S[Len(S)].kind,
         g.seen = S[Len(S)].seen, Len(S[Len(S)].items) \in Nat,
         Len(g.items) = Len(S[Len(S)].items) + 1
  PROVE  Steers(T, "next", Z, q, v)
<1> SUFFICES ASSUME NEW U, SameSoFar(T, U, "next", q) PROVE Tracks(U, "next", Z, q, v)
  BY DEF Steers
<1>1. SameSoFar(T, U, "append", q) /\ Len(U) \in Nat
  BY DEF SameSoFar
<1>2. Tracks(U, "append", S, q, v)
  BY <1>1 DEF Steers
<1>. QED  BY <1>1, <1>2, TrackAppend

IsComma(l) == l.kind = ","

LEMMA SteerComma ==
  ASSUME NEW T, Len(T) \in Nat, NEW S, Len(S) \in Nat \ {0}, NEW q \in 1..Len(T), NEW v,
         Steers(T, "next", S, q, v), IsComma(T[q])
  PROVE  Steers(T, Enters(Sym(S[Len(S)])), S, q + 1, v)
<1> SUFFICES ASSUME NEW U, SameSoFar(T, U, Enters(Sym(S[Len(S)])), q + 1)
             PROVE  Tracks(U, Enters(Sym(S[Len(S)])), S, q + 1, v)
  BY DEF Steers
<1>1. SameSoFar(T, U, "next", q) /\ Len(U) \in Nat /\ q \in 1..Len(U) /\ U[q] = T[q]
  BY SameLess
<1>2. Tracks(U, "next", S, q, v) /\ IsComma(U[q])
  BY <1>1 DEF Steers
<1>. QED  BY <1>1, <1>2, TrackComma DEF IsComma

-----------------------------------------------------------------------------
(* The lexeme of Text that the parser looks at next. *)
Here == At(pos) + 1

OnLexeme(c) == c \in {"open", "value", "key", "colon", "next"}

(* The inductive invariant: a running parser is on the track of the        *)
(* grammar in every text that begins with what it has read, and one that   *)
(* is done has answered as the whole text asks.                            *)
Exact ==
  /\ OnLexeme(pc) /\ pos < End => input[pos].kind # "ws"
  /\ pc # "done" => verdict.class = None
  /\ pc = "start" => pos = 1 /\ valueCount = 0
  /\ Running => ~TooLarge /\ InvalidBytes = {} /\ Steers(Text, pc, stack, Here, valueCount)
  /\ AcceptsExactly

LEMMA TextSame ==
  ASSUME UNCHANGED input
  PROVE  /\ Text' = Text /\ End' = End /\ TooLarge' = TooLarge /\ InvalidBytes' = InvalidBytes
         /\ RefAccepts' = RefAccepts
<1>1. Text' = Text /\ End' = End /\ TooLarge' = TooLarge
  BY DEF Text, End, TooLarge
<1>2. InvalidBytes' = InvalidBytes
  BY DEF InvalidBytes
<1>. QED  BY <1>1, <1>2, AcceptsIs DEF RefAccepts

LEMMA HereIs ==
  ASSUME UNCHANGED input
  PROVE  Here' = At(pos') + 1
BY DEF Here, At

LEMMA AcceptsWhat == RefAccepts <=> ~TooLarge /\ InvalidBytes = {} /\ ~Refused(Text)
BY AcceptsIs DEF Refused

(* Whitespace is skipped up to a lexeme or the end of the text. *)
LEMMA Lands ==
  ASSUME IInv, UNCHANGED input, NEW i \in 1..End, SkipWs(i)
  PROVE  /\ Here' = At(i) + 1
         /\ pos' < End' => input'[pos'].kind # "ws"
<1>1. PICK j \in i..End : SkipsTo(i, j) /\ pos' = j
  BY DEF SkipWs
<1>2. input \in Seq(Lexeme)
  BY DEF IInv, TypeOK
<1>3. At(j) = At(i) /\ (j < End => input[j].kind # "ws")
  BY <1>1, <1>2, SkippedIs
<1>. QED  BY <1>1, <1>3, HereIs, TextSame

(* What stands at pos is a lexeme of Text, and pos + 1 is past it. *)
LEMMA Looks ==
  ASSUME IInv, pos < End, input[pos].kind # "ws"
  PROVE  /\ pos \in 1..Len(input) /\ pos + 1 \in 1..End
         /\ Here \in 1..Len(Text) /\ Here \in Nat \ {0}
         /\ Text[Here] = input[pos] /\ Text[Here] \in Lexeme
         /\ At(pos + 1) + 1 = Here + 1
         /\ Peek = Text[Here].kind /\ Peek # None
<1>1. input \in Seq(Lexeme) /\ Len(input) \in Nat /\ pos \in 1..Len(input) /\ pos \in 1..End
  BY LenProperties DEF IInv, TypeOK, End
<1>2. At(pos + 1) = At(pos) + 1 /\ At(pos) + 1 \in 1..Len(Text) /\ Text[At(pos) + 1] = input[pos]
  BY <1>1, TokensAre
<1>3. input[pos] \in Lexeme
  BY <1>1, ElementOfSeq
<1>4. Peek = input[pos].kind
  BY DEF Peek
<1>5. input[pos].kind # None
  BY <1>3 DEF Lexeme, LexKind, Punctuation, None
<1>6. pos + 1 \in 1..End
  BY <1>1 DEF End
<1>7. Here \in Nat \ {0}
  <2>1. \A n \in 1..Len(Text) : n \in Nat \ {0}
    OBVIOUS
  <2>. QED  BY <1>2, <2>1 DEF Here
<1>. QED  BY <1>1, <1>2, <1>3, <1>4, <1>5, <1>6, <1>7 DEF Here

LEMMA AtEnd ==
  ASSUME IInv, ~(pos < End)
  PROVE  /\ pos = End /\ Here = Len(Text) + 1 /\ Peek = None
         /\ Here \notin 1..Len(Text) /\ Here \in Nat \ {0}
<1>1. input \in Seq(Lexeme) /\ pos \in 1..End
  BY DEF IInv, TypeOK
<1>2. At(End) = Len(Text) /\ End \in Nat /\ Len(Text) \in Nat
  BY <1>1, TokensAre
<1>3. pos = End
  BY <1>1, <1>2
<1>. QED  BY <1>2, <1>3 DEF Here, Peek

(* A step on the track: nothing is answered yet. *)
LEMMA KeepsExact ==
  ASSUME verdict.class = None, ~TooLarge, InvalidBytes = {},
         UNCHANGED <<input, verdict>>, pc' \in Control \ {"start", "done"},
         OnLexeme(pc') /\ pos' < End' => input'[pos'].kind # "ws",
         Steers(Text, pc', stack', Here', valueCount')
  PROVE  Exact'
<1>1. /\ Text' = Text /\ End' = End /\ TooLarge' = TooLarge /\ InvalidBytes' = InvalidBytes
      /\ RefAccepts' = RefAccepts
  BY TextSame
<1>3. pc' # "done" /\ pc' # "start" /\ verdict'.class = None
  OBVIOUS
<1>4. AcceptsExactly'
  BY <1>3 DEF AcceptsExactly
<1>5. (~TooLarge /\ InvalidBytes = {} /\ Steers(Text, pc, stack, Here, valueCount))'
  <2>1. ~TooLarge' /\ InvalidBytes' = {}
    BY <1>1
  <2>2. Steers(Text, pc, stack, Here, valueCount)'
    BY <1>1
  <2>. QED  BY <2>1, <2>2
<1>. QED  BY <1>3, <1>4, <1>5 DEF Exact, OnLexeme, Running

(* An error is returned only for a text that is not to be accepted. *)
LEMMA RejectExact ==
  ASSUME UNCHANGED input, pc' = "done", verdict'.class # None, ~RefAccepts
  PROVE  Exact'
<1>1. ~RefAccepts'
  BY TextSame
<1>. QED  BY <1>1 DEF Exact, OnLexeme, Running, AcceptsExactly

LEMMA RejectsExact ==
  ASSUME NEW class \in FailureClass, NEW lex, NEW byte, NEW d, RejectAt(class, lex, byte, d),
         ~RefAccepts
  PROVE  Exact'
<1>1. UNCHANGED input /\ pc' = "done" /\ verdict'.class = class
  BY DEF RejectAt
<1>2. class # None
  BY DEF FailureClass, None
<1>. QED  BY <1>1, <1>2, RejectExact

(* The errors of the descent: the text is none to be accepted. *)
LEMMA RefusedExact ==
  ASSUME NEW class \in FailureClass, NEW lex, NEW byte, NEW d, RejectAt(class, lex, byte, d),
         Refused(Text)
  PROVE  Exact'
BY AcceptsWhat, RejectsExact

(* What a running parser is known to be. *)
LEMMA RunningIs ==
  ASSUME IInv, Exact, Running
  PROVE  /\ stack \in Seq(Frame) /\ Len(stack) \in Nat /\ Len(Text) \in Nat
         /\ Here \in Nat \ {0} /\ Here \in 1..(Len(Text) + 1)
         /\ depth = Len(stack) /\ valueCount \in Nat /\ valueCount <= Limit("values")
         /\ ~TooLarge /\ InvalidBytes = {} /\ verdict.class = None
         /\ Steers(Text, pc, stack, Here, valueCount) /\ Tracks(Text, pc, stack, Here, valueCount)
<1>1. /\ stack \in Seq(Frame) /\ Len(stack) \in Nat /\ depth = Len(stack) /\ valueCount \in Nat
      /\ valueCount <= Limit("values") /\ input \in Seq(Lexeme) /\ pos \in 1..End
  BY LenProperties DEF IInv, TypeOK, HeldWithinLimits, OpenIsCounted, Running
<1>2. Len(Text) \in Nat /\ Here \in 1..(Len(Text) + 1) /\ Here \in Nat \ {0}
  <2>1. Len(Text) \in Nat /\ At(pos) \in 0..Len(Text)
    BY <1>1, TokensAre
  <2>. QED  BY <2>1 DEF Here
<1>3. /\ ~TooLarge /\ InvalidBytes = {} /\ verdict.class = None
      /\ Steers(Text, pc, stack, Here, valueCount)
  BY DEF Exact, Running
<1>4. Tracks(Text, pc, stack, Here, valueCount)
  BY <1>2, <1>3, SteersTracks
<1>. QED  BY <1>1, <1>2, <1>3, <1>4

LEMMA FrameIs ==
  ASSUME IInv, Running, NEW m \in 1..Len(stack)
  PROVE  /\ stack[m] \in Frame /\ stack[m].kind \in {"object", "array"}
         /\ stack[m].items \in Seq(Texts \cup {NoKey}) /\ Len(stack[m].items) \in Nat
         /\ WithinCount(stack[m])
<1>1. stack[m] \in Frame
  BY ElementOfSeq DEF IInv, TypeOK
<1>. QED  BY <1>1, LenProperties DEF IInv, HeldWithinLimits, Frame

LEMMA SeesNext ==
  ASSUME IInv, Exact, OnLexeme(pc)
  PROVE  /\ Running
         /\ Peek = None => Here \notin 1..Len(Text)
         /\ Peek # None => /\ pos < End /\ pos + 1 \in 1..End
                           /\ Here \in 1..Len(Text) /\ Text[Here] = input[pos]
                           /\ Text[Here] \in Lexeme /\ Peek = Text[Here].kind
                           /\ At(pos + 1) + 1 = Here + 1
<1>1. Running
  BY DEF OnLexeme, Running
<1>2. CASE pos < End
  <2>1. input[pos].kind # "ws"
    BY <1>2 DEF Exact
  <2>. QED  BY <1>1, <1>2, <2>1, Looks
<1>3. CASE ~(pos < End)
  BY <1>1, <1>3, AtEnd
<1>. QED  BY <1>2, <1>3

LEMMA StartExact == IInv /\ Exact /\ Start => Exact'
<1>. SUFFICES ASSUME IInv, Exact, Start PROVE Exact'  OBVIOUS
<1>1. CASE StartTooLarge
  BY <1>1, AcceptsWhat, RejectsExact DEF StartTooLarge, FailureClass
<1>2. CASE StartInvalidUTF8
  <2>1. PICK i \in InvalidBytes : RejectAt("InvalidUTF8", i, 0, depth)
    BY <1>2 DEF StartInvalidUTF8
  <2>2. InvalidBytes # {} /\ "InvalidUTF8" \in FailureClass
    BY DEF FailureClass
  <2>. QED  BY <2>1, <2>2, AcceptsWhat, RejectsExact
<1>3. CASE StartDescent
  <2>1. /\ pc = "start" /\ ~TooLarge /\ InvalidBytes = {} /\ SkipWs(pos) /\ pc' = "value"
        /\ UNCHANGED <<input, verdict, stack, valueCount>>
    BY <1>3 DEF StartDescent
  <2>2. pos = 1 /\ valueCount = 0 /\ verdict.class = None /\ stack = << >>
    BY <2>1 DEF Exact, IInv, KeyPhases
  <2>3. input \in Seq(Lexeme) /\ pos \in 1..End
    BY DEF IInv, TypeOK
  <2>4. Here' = 1 /\ Len(Text) \in Nat /\ (pos' < End' => input'[pos'].kind # "ws")
    <3>1. Here' = At(1) + 1 /\ (pos' < End' => input'[pos'].kind # "ws")
      BY <2>1, <2>2, <2>3, Lands
    <3>. QED  BY <2>3, <3>1, TokensAre
  <2>5. Steers(Text, "value", stack, 1, 0)
    <3>1. Len(stack) = 0
      BY <2>2
    <3>. QED  BY <2>4, <3>1, SteerStart
  <2>6. "value" \in Control \ {"start", "done"}
    BY DEF Control
  <2>7. Steers(Text, pc', stack', Here', valueCount')
    BY <2>1, <2>2, <2>4, <2>5
  <2>. QED  BY <2>1, <2>2, <2>4, <2>6, <2>7, KeepsExact
<1>. QED  BY <1>1, <1>2, <1>3 DEF Start

-----------------------------------------------------------------------------
(* The steps of the parser, each from the lemma on its track. *)
LEMMA OpenExact == IInv /\ Exact /\ OpenContainer => Exact'
<1>. SUFFICES ASSUME IInv, Exact, OpenContainer PROVE Exact'  OBVIOUS
<1>. DEFINE f == OpenFrame(Peek)
<1>1. /\ pc = "value" /\ valueCount' = valueCount + 1 /\ Peek \in {"{", "["}
      /\ depth + 1 <= Limit("depth") /\ stack' = Append(stack, f) /\ SkipWs(pos + 1)
      /\ pc' = "open" /\ UNCHANGED <<input, verdict>>
  BY DEF OpenContainer, CountValue
<1>2. OnLexeme(pc) /\ Peek # None
  BY <1>1 DEF OnLexeme, None
<1>3. Running /\ Here \in 1..Len(Text) /\ Peek = Text[Here].kind /\ pos + 1 \in 1..End
      /\ At(pos + 1) + 1 = Here + 1
  BY <1>2, SeesNext
<1>4. f \in Frame /\ f.items = << >> /\ f.seen = {} /\ Peek = Ref!OpenOf(Sym(f))
  <2>1. f \in Frame /\ f.items = << >> /\ f.seen = {}
    BY DEF OpenFrame, Frame
  <2>2. CASE Peek = "{"
    <3>1. f.kind = "object"
      BY <2>2 DEF OpenFrame
    <3>. QED  BY <2>1, <2>2, <3>1 DEF Ref!OpenOf, Sym
  <2>3. CASE Peek = "["
    <3>1. f.kind = "array"
      BY <2>3 DEF OpenFrame
    <3>. QED  BY <2>1, <2>3, <3>1 DEF Ref!OpenOf, Sym
  <2>. QED  BY <1>1, <2>1, <2>2, <2>3
<1>5. Here \in Ref!Opens(Text)
  BY <1>1, <1>3 DEF Ref!Opens
<1>6. Above(stack, stack') /\ stack'[Len(stack')] = f /\ Len(f.items) = 0
  <2> HIDE DEF f
  <2>1. stack \in Seq(Frame) /\ Len(stack) \in Nat
    BY <1>3, RunningIs
  <2>2. Len(<< >>) = 0
    OBVIOUS
  <2>3. stack' = Append(stack, f)
    BY <1>1
  <2>. QED  BY <1>4, <2>1, <2>2, <2>3, AppendProperties DEF Above
<1> HIDE DEF f
<1>7. Steers(Text, "open", stack', Here + 1, valueCount + 1)
  <2>1. Steers(Text, "value", stack, Here, valueCount) /\ Len(stack) \in Nat /\ Len(Text) \in Nat
        /\ depth = Len(stack)
    BY <1>1, <1>3, RunningIs
  <2>2. Len(stack) + 1 <= Limit("depth")
    BY <1>1, <2>1
  <2>3. Text[Here].kind = Ref!OpenOf(Sym(stack'[Len(stack')]))
    BY <1>3, <1>4, <1>6
  <2>4. Len(stack'[Len(stack')].items) = 0 /\ stack'[Len(stack')].seen = {}
    BY <1>4, <1>6
  <2>. QED  BY <1>3, <1>5, <1>6, <2>1, <2>2, <2>3, <2>4, SteerOpen
<1>8. Here' = Here + 1 /\ (pos' < End' => input'[pos'].kind # "ws")
  BY <1>1, <1>3, Lands
<1>9. "open" \in Control \ {"start", "done"}
  BY DEF Control
<1>10. verdict.class = None /\ ~TooLarge /\ InvalidBytes = {}
  BY <1>3, RunningIs
<1>. QED  BY <1>1, <1>7, <1>8, <1>9, <1>10, KeepsExact

LEMMA ScalarExact == IInv /\ Exact /\ (Scalar \/ ScalarError) => Exact'
<1>. SUFFICES ASSUME IInv, Exact, Scalar \/ ScalarError PROVE Exact'  OBVIOUS
<1>1. pc = "value" /\ valueCount' = valueCount + 1 /\ Peek \in Scalars
  BY DEF Scalar, ScalarError, CountValue, Scalars
<1>2. OnLexeme(pc) /\ Peek # None
  BY <1>1 DEF OnLexeme, None, Scalars
<1>3. /\ Running /\ Here \in 1..Len(Text) /\ Text[Here] = input[pos] /\ Text[Here] \in Lexeme
      /\ Peek = Text[Here].kind /\ pos + 1 \in 1..End /\ At(pos + 1) + 1 = Here + 1
  BY <1>2, SeesNext
<1>4. /\ Steers(Text, "value", stack, Here, valueCount) /\ Tracks(Text, "value", stack, Here, valueCount)
      /\ Len(stack) \in Nat /\ Len(Text) \in Nat
      /\ stack \in Seq(Frame) /\ verdict.class = None /\ ~TooLarge /\ InvalidBytes = {}
      /\ \A m \in 1..Len(stack) : Len(stack[m].items) \in Nat
  BY <1>1, <1>3, RunningIs, FrameIs
<1> DEFINE b == IF stack = << >> THEN "trailing" ELSE "append"
<1>5. b \in Back /\ b \in {"append", "trailing"} /\ (b = "append" \/ Len(stack) = 0)
  BY DEF Back
<1> HIDE DEF b
<1>6. /\ Text[Here].fail = None => Steers(Text, b, stack, Here + 1, valueCount + 1)
      /\ Text[Here].fail # None => Refused(Text)
  <2>1. Text[Here].kind \in Scalars
    BY <1>1, <1>3
  <2>2. ASSUME Text[Here].fail = None PROVE Steers(Text, b, stack, Here + 1, valueCount + 1)
    <3>1. /\ Steers(Text, "value", stack, Here, valueCount) /\ Len(Text) \in Nat /\ Len(stack) \in Nat
          /\ Here \in 1..Len(Text) /\ \A m \in 1..Len(stack) : Len(stack[m].items) \in Nat
          /\ b \in Back /\ (b = "append" \/ Len(stack) = 0)
      BY <1>3, <1>4, <1>5
    <3>. QED  BY <2>1, <2>2, <3>1, SteerScalar
  <2>3. Text[Here].fail # None => Refused(Text)
    BY <1>3, <1>4, <1>5, <2>1, TrackScalar
  <2>. QED  BY <2>2, <2>3
<1>7. CASE Scalar
  <2>1. /\ input[pos].fail = None /\ pos' = pos + 1 /\ pc' = b /\ UNCHANGED <<input, stack, verdict>>
    BY <1>7 DEF Scalar, ReturnTo, b
  <2>2. Here' = Here + 1
    BY <1>3, <2>1, HereIs
  <2>3. b \in Control \ {"start", "done"} /\ ~OnLexeme(b)
    BY <1>5 DEF Control, OnLexeme
  <2>4. Steers(Text, pc', stack', Here', valueCount')
    BY <1>1, <1>3, <1>6, <2>1, <2>2
  <2>. QED  BY <1>4, <2>1, <2>3, <2>4, KeepsExact
<1>8. CASE ScalarError
  <2>1. input[pos].fail # None /\ RejectAt(input[pos].fail, pos, input[pos].at, depth)
    BY <1>8 DEF ScalarError
  <2>2. input[pos].fail \in FailureClass
    BY <1>3, <2>1 DEF Lexeme
  <2>. QED  BY <1>3, <1>6, <2>1, <2>2, RefusedExact
<1>. QED  BY <1>7, <1>8

LEMMA ParseValueExact == IInv /\ Exact /\ ParseValue => Exact'
<1>. SUFFICES ASSUME IInv, Exact, ParseValue PROVE Exact'  OBVIOUS
<1>0. pc = "value"
  BY DEF ParseValue, ValueOverLimit, OpenContainer, DepthOverLimit, Scalar, ScalarError, NoValue,
         CountValue
<1>1. OnLexeme(pc) /\ {"BoundExceeded", "InvalidGrammar"} \subseteq FailureClass
  BY <1>0 DEF OnLexeme, FailureClass
<1>2. /\ Running /\ Peek = None => Here \notin 1..Len(Text)
      /\ Peek # None => Here \in 1..Len(Text) /\ Peek = Text[Here].kind
  BY <1>1, SeesNext
<1>3. /\ Tracks(Text, "value", stack, Here, valueCount) /\ Len(stack) \in Nat /\ Len(Text) \in Nat
      /\ depth = Len(stack) /\ valueCount \in Nat /\ Here \in Nat \ {0}
  BY <1>0, <1>1, SeesNext, RunningIs
<1>4. CASE ValueOverLimit
  <2>1. valueCount + 1 > Limit("values")
    BY <1>3, <1>4, Limits DEF ValueOverLimit, WithinValues
  <2>. QED  BY <1>1, <1>3, <1>4, <2>1, TrackValueOver, RefusedExact DEF ValueOverLimit
<1>5. CASE DepthOverLimit
  <2>1. Peek \in {"{", "["} /\ Len(stack) + 1 > Limit("depth")
        /\ RejectAt("BoundExceeded", pos, 0, depth + 1)
    BY <1>3, <1>5 DEF DepthOverLimit
  <2>2. Here \in 1..Len(Text) /\ Here \in Ref!Opens(Text)
    BY <1>2, <2>1 DEF Ref!Opens, None
  <2>. QED  BY <1>1, <1>3, <2>1, <2>2, TrackDepthOver, RefusedExact
<1>6. CASE NoValue
  <2>1. Peek \notin Scalars \cup {"{", "["} /\ RejectAt("InvalidGrammar", pos, 0, depth)
    BY <1>6 DEF NoValue, Scalars
  <2>2. Here \in 1..Len(Text) => Text[Here].kind \notin Scalars \cup {"{", "["}
    BY <1>1, <2>1, SeesNext
  <2>3. Refused(Text)
    BY <1>3, <2>2, TrackNoValue
  <2>. QED  BY <1>1, <2>1, <2>3, RefusedExact
<1>. QED  BY <1>4, <1>5, <1>6, OpenExact, ScalarExact DEF ParseValue

InLoop == {"open", "key", "colon", "append", "next"}

(* What the frame on top is known to be. *)
LEMMA TopIs ==
  ASSUME IInv, Exact, pc \in InLoop
  PROVE  /\ Running /\ Len(stack) \in Nat \ {0} /\ Top = stack[Len(stack)]
         /\ Top \in Frame /\ Top.kind \in {"object", "array"} /\ Len(Top.items) \in Nat
         /\ Top.items \in Seq(Texts \cup {NoKey}) /\ WithinCount(Top)
         /\ pc \in {"key", "colon"} => Top.kind = "object"
<1>1. Running
  BY DEF Running, InLoop
<1>2. stack # << >> /\ Top = stack[Len(stack)] /\ stack \in Seq(Frame)
  BY TopFrame DEF InLoop, IInv, TypeOK
<1>3. Len(stack) \in Nat \ {0} /\ Len(stack) \in 1..Len(stack)
  BY <1>2, EmptySeq
<1>4. pc \in {"key", "colon"} => Top.kind = "object"
  BY DEF IInv, KeyPhases
<1>. QED  BY <1>1, <1>2, <1>3, <1>4, FrameIs

LEMMA ClosingIs ==
  ASSUME NEW f, f.kind \in {"object", "array"}
  PROVE  Closing(f.kind) = Ref!CloseOf(Sym(f))
BY DEF Closing, Ref!CloseOf, Sym

LEMMA ClosingFound ==
  ASSUME IInv, Exact, pc \in {"open", "next"}
  PROVE  /\ Peek # None => (Peek = Closing(Top.kind) <=> Text[Here].kind = Ref!CloseOf(Sym(Top)))
         /\ Closing(Top.kind) # None /\ OnLexeme(pc)
<1>1. OnLexeme(pc) /\ pc \in InLoop
  BY DEF OnLexeme, InLoop
<1>2. Closing(Top.kind) = Ref!CloseOf(Sym(Top))
  BY <1>1, TopIs, ClosingIs
<1>3. Closing(Top.kind) # None
  BY DEF Closing, None
<1>. QED  BY <1>1, <1>2, <1>3, SeesNext

LEMMA CloseExact ==
  ASSUME IInv, Exact, pc \in {"open", "next"}, Peek = Closing(Top.kind), CloseFrame
  PROVE  Exact'
<1>1. OnLexeme(pc) /\ pc \in InLoop /\ Peek # None /\ Text[Here].kind = Ref!CloseOf(Sym(Top))
  BY ClosingFound DEF InLoop
<1>2. /\ Running /\ Here \in 1..Len(Text) /\ At(pos + 1) + 1 = Here + 1
  BY <1>1, SeesNext
<1>3. /\ Steers(Text, pc, stack, Here, valueCount) /\ Len(Text) \in Nat
      /\ stack \in Seq(Frame) /\ verdict.class = None /\ ~TooLarge /\ InvalidBytes = {}
  BY <1>2, RunningIs
<1>4. /\ Len(stack) \in Nat \ {0} /\ Top = stack[Len(stack)] /\ Top.kind \in {"object", "array"}
      /\ WithinCount(Top)
  BY <1>1, TopIs
<1> DEFINE S == Front(stack)
           b == IF S = << >> THEN "trailing" ELSE "append"
<1>5. /\ pos' = pos + 1 /\ stack' = S /\ pc' = b /\ UNCHANGED <<input, valueCount, verdict>>
  BY DEF CloseFrame, ReturnTo
<1>6. Above(S, stack) /\ Len(S) \in Nat /\ (S = << >> => Len(S) = 0)
  <2>1. stack # << >>
    BY <1>4
  <2>2. /\ Len(S) = Len(stack) - 1 /\ \A i \in 1..Len(S) : S[i] = stack[i]
    BY <1>3, <2>1, FrontOf
  <2> HIDE DEF S
  <2>. QED  BY <1>4, <2>2 DEF Above
<1> HIDE DEF S
<1>7. b \in Back /\ b \in {"append", "trailing"} /\ (b = "append" \/ Len(S) = 0)
  BY <1>6 DEF Back
<1> HIDE DEF b
<1>8. Steers(Text, b, S, Here + 1, valueCount)
  <2>1. Text[Here].kind = Ref!CloseOf(Sym(stack[Len(stack)]))
    BY <1>1, <1>4
  <2>. QED  BY <1>2, <1>3, <1>4, <1>6, <1>7, <2>1, SteerClose
<1>9. b \in Control \ {"start", "done"} /\ ~OnLexeme(b)
  BY <1>7 DEF Control, OnLexeme
<1>10. Here' = Here + 1
  BY <1>2, <1>5, HereIs
<1>11. Steers(Text, pc', stack', Here', valueCount')
  BY <1>5, <1>8, <1>10
<1>. QED  BY <1>3, <1>5, <1>9, <1>11, KeepsExact

LEMMA OpenStepExact == IInv /\ Exact /\ OpenStep => Exact'
<1>. SUFFICES ASSUME IInv, Exact, OpenStep PROVE Exact'  OBVIOUS
<1>0. pc = "open" /\ pc \in InLoop
  BY DEF OpenStep, CloseEmpty, EnterLoop, OpenAtEnd, InLoop
<1>1. OnLexeme(pc)
  BY <1>0 DEF OnLexeme
<1>2. /\ Steers(Text, "open", stack, Here, valueCount) /\ Tracks(Text, "open", stack, Here, valueCount)
      /\ Len(Text) \in Nat
      /\ verdict.class = None /\ ~TooLarge /\ InvalidBytes = {}
      /\ Len(stack) \in Nat \ {0} /\ Top = stack[Len(stack)] /\ Top.kind \in {"object", "array"}
  BY <1>0, RunningIs, TopIs
<1>3. CASE CloseEmpty
  BY <1>0, <1>3, CloseExact DEF CloseEmpty
<1>4. ASSUME Peek # Closing(Top.kind)
      PROVE  /\ Peek # None => Steers(Text, Enters(Sym(stack[Len(stack)])), stack, Here, valueCount)
             /\ Peek = None => Refused(Text)
  <2>1. Here \in 1..Len(Text) => Text[Here].kind # Ref!CloseOf(Sym(stack[Len(stack)]))
    BY <1>0, <1>1, <1>2, <1>4, SeesNext, ClosingFound
  <2>2. /\ Peek = None => Here \notin 1..Len(Text)
        /\ Peek # None => Here \in 1..Len(Text)
    BY <1>1, SeesNext
  <2>3. Peek = None => Refused(Text)
    BY <1>2, <2>1, <2>2, TrackEnter
  <2>4. ASSUME Peek # None
        PROVE  Steers(Text, Enters(Sym(stack[Len(stack)])), stack, Here, valueCount)
    BY <1>2, <2>1, <2>2, <2>4, SteerEnter, PlaceIs
  <2>. QED  BY <2>3, <2>4
<1>5. CASE EnterLoop
  <2>1. /\ pc' = (IF Top.kind = "object" THEN "key" ELSE "value")
        /\ Peek # Closing(Top.kind) /\ Peek # None
        /\ UNCHANGED <<input, pos, depth, valueCount, stack, verdict>>
    BY <1>5 DEF EnterLoop
  <2>2. pc' = Enters(Sym(stack[Len(stack)])) /\ pc' \in Control \ {"start", "done"}
    BY <1>2, <2>1 DEF Enters, Sym, Control
  <2>3. Here' = Here /\ End' = End
    BY <2>1, HereIs, TextSame DEF Here
  <2>4. pos' < End' => input'[pos'].kind # "ws"
    BY <1>1, <2>1, <2>3 DEF Exact
  <2>5. Steers(Text, pc', stack', Here', valueCount')
    BY <1>4, <2>1, <2>2, <2>3
  <2>. QED  BY <1>2, <2>1, <2>2, <2>4, <2>5, KeepsExact
<1>6. CASE OpenAtEnd
  <2>1. Peek = None /\ RejectAt("InvalidGrammar", pos, 0, depth) /\ "InvalidGrammar" \in FailureClass
    BY <1>6 DEF OpenAtEnd, Reject, FailureClass
  <2>2. Refused(Text)
    BY <1>0, <1>4, <2>1, ClosingFound
  <2>. QED  BY <2>1, <2>2, RefusedExact
<1>. QED  BY <1>3, <1>5, <1>6 DEF OpenStep

LEMMA ReplacedTop ==
  ASSUME NEW S \in Seq(Frame), Len(S) \in Nat \ {0}, NEW g, NEW Z, Z = [S EXCEPT ![Len(S)] = g]
  PROVE  Replaced(S, Z, g)
<1>1. Len(Z) = Len(S) /\ DOMAIN S = 1..Len(S)
  <2>1. Len(S) \in 1..Len(S)
    OBVIOUS
  <2>. QED  BY LenProperties
<1>2. \A m \in 1..Len(S) : Z[m] = IF m = Len(S) THEN g ELSE S[m]
  BY <1>1
<1>. QED  BY <1>1, <1>2 DEF Replaced

LEMMA KeyExact == IInv /\ Exact /\ Key => Exact'
<1>. SUFFICES ASSUME IInv, Exact, Key PROVE Exact'  OBVIOUS
<1>. DEFINE k == input[pos].text
            g == [Top EXCEPT !.seen = @ \cup {k}, !.key = k]
<1>1. /\ pc = "key" /\ Peek = "str" /\ input[pos].fail = None /\ k \notin Top.seen
      /\ stack' = [stack EXCEPT ![Len(stack)] = g] /\ SkipWs(pos + 1)
      /\ pc' = "colon" /\ UNCHANGED <<input, valueCount, verdict>>
  BY DEF Key, ReplaceTop, Duplicate
<1>2. OnLexeme(pc) /\ Peek # None /\ pc \in InLoop
  BY <1>1 DEF OnLexeme, None, InLoop
<1>3. /\ Running /\ Here \in 1..Len(Text) /\ Text[Here] = input[pos]
      /\ Peek = Text[Here].kind /\ pos + 1 \in 1..End /\ At(pos + 1) + 1 = Here + 1
  BY <1>2, SeesNext
<1>4. /\ Steers(Text, "key", stack, Here, valueCount) /\ stack \in Seq(Frame) /\ Len(Text) \in Nat
      /\ verdict.class = None /\ ~TooLarge /\ InvalidBytes = {}
  BY <1>1, <1>3, RunningIs
<1>5. /\ Len(stack) \in Nat \ {0} /\ Top = stack[Len(stack)] /\ Top.kind = "object" /\ Top \in Frame
  BY <1>1, <1>2, TopIs
<1>6. Ref!IsName(Text[Here]) /\ Text[Here].text = k
  BY <1>1, <1>3 DEF Ref!IsName, Ref!None, None
<1>7. g.kind = "object" /\ g.items = Top.items /\ g.seen = Top.seen \cup {k}
  BY <1>5 DEF Frame
<1> HIDE DEF g, k
<1>8. Replaced(stack, stack', g)
  BY <1>1, <1>4, <1>5, ReplacedTop
<1>9. Steers(Text, "colon", stack', Here + 1, valueCount)
  <2>1. /\ g.items = stack[Len(stack)].items /\ stack[Len(stack)].kind = "object"
        /\ g.seen = stack[Len(stack)].seen \cup {Text[Here].text}
        /\ Text[Here].text \notin stack[Len(stack)].seen
    BY <1>1, <1>5, <1>6, <1>7
  <2>. QED  BY <1>3, <1>4, <1>5, <1>6, <1>7, <1>8, <2>1, SteerKey
<1>10. Here' = Here + 1 /\ (pos' < End' => input'[pos'].kind # "ws")
  BY <1>1, <1>3, Lands
<1>11. "colon" \in Control \ {"start", "done"}
  BY DEF Control
<1>. QED  BY <1>1, <1>4, <1>9, <1>10, <1>11, KeepsExact

LEMMA MemberKeyExact == IInv /\ Exact /\ MemberKey => Exact'
<1>. SUFFICES ASSUME IInv, Exact, MemberKey PROVE Exact'  OBVIOUS
<1>0. pc \in {"key", "colon"}
  BY DEF MemberKey, Key, DuplicateKeyError, KeyError, NoKeyError, Colon, NoColonError
<1>1. OnLexeme(pc) /\ pc \in InLoop /\ {"InvalidGrammar", "DuplicateKey"} \subseteq FailureClass
  BY <1>0 DEF OnLexeme, InLoop, FailureClass
<1>2. /\ Peek = None => Here \notin 1..Len(Text)
      /\ Peek # None => /\ Here \in 1..Len(Text) /\ Peek = Text[Here].kind /\ pos + 1 \in 1..End
                        /\ Text[Here] = input[pos] /\ Text[Here] \in Lexeme
                        /\ At(pos + 1) + 1 = Here + 1
  BY <1>1, SeesNext
<1>3. /\ Steers(Text, pc, stack, Here, valueCount) /\ Tracks(Text, pc, stack, Here, valueCount)
      /\ Len(Text) \in Nat /\ Here \in Nat \ {0}
      /\ verdict.class = None /\ ~TooLarge /\ InvalidBytes = {}
      /\ Len(stack) \in Nat \ {0} /\ Len(stack) \in Nat
      /\ Top = stack[Len(stack)] /\ stack[Len(stack)].kind = "object"
  BY <1>0, <1>1, RunningIs, TopIs
<1>4. CASE Key
  BY <1>4, KeyExact
<1>5. CASE DuplicateKeyError
  <2>1. /\ pc = "key" /\ Peek = "str" /\ input[pos].fail = None /\ input[pos].text \in Top.seen
        /\ RejectAt("DuplicateKey", pos, 0, depth) /\ Peek # None
    BY <1>5 DEF DuplicateKeyError, Duplicate, Reject, None
  <2>2. Ref!IsName(Text[Here])
    BY <1>2, <2>1 DEF Ref!IsName, Ref!None, None
  <2>3. Text[Here].text \in stack[Len(stack)].seen
    BY <1>2, <1>3, <2>1
  <2>4. Refused(Text)
    BY <1>2, <1>3, <2>1, <2>2, <2>3, TrackDuplicate
  <2>. QED  BY <1>1, <2>1, <2>4, RefusedExact
<1>6. ASSUME pc = "key", ~(Here \in 1..Len(Text) /\ Ref!IsName(Text[Here])) PROVE Refused(Text)
  BY <1>3, <1>6, TrackNoKey
<1>7. CASE KeyError
  <2>1. /\ pc = "key" /\ Peek = "str" /\ input[pos].fail # None /\ Peek # None
        /\ RejectAt(input[pos].fail, pos, input[pos].at, depth)
    BY <1>7 DEF KeyError, Reject, None
  <2>2. input[pos].fail \in FailureClass
    BY <1>2, <2>1 DEF Lexeme
  <2>3. ~Ref!IsName(Text[Here])
    BY <1>2, <2>1 DEF Ref!IsName, Ref!None, None
  <2>. QED  BY <1>6, <2>1, <2>2, <2>3, RefusedExact
<1>8. CASE NoKeyError
  <2>1. /\ pc = "key" /\ Peek # "str"
        /\ RejectAt("InvalidGrammar", pos, IF Peek = None THEN 0 ELSE 1, depth)
    BY <1>8 DEF NoKeyError, ExpectFails, Reject
  <2>2. ~(Here \in 1..Len(Text) /\ Ref!IsName(Text[Here]))
    BY <1>2, <2>1 DEF Ref!IsName
  <2>. QED  BY <1>1, <1>6, <2>1, <2>2, RefusedExact
<1>9. CASE Colon
  <2>1. /\ pc = "colon" /\ Peek = ":" /\ SkipWs(pos + 1) /\ pc' = "value" /\ Peek # None
        /\ UNCHANGED <<input, valueCount, stack, verdict>>
    BY <1>9 DEF Colon, None
  <2>2. Steers(Text, "value", stack, Here + 1, valueCount)
    <3>1. Here \in 1..Len(Text) /\ Text[Here].kind = ":" /\ Steers(Text, "colon", stack, Here, valueCount)
      BY <1>2, <1>3, <2>1
    <3>. QED  BY <1>3, <3>1, SteerColon
  <2>3. Here' = Here + 1 /\ (pos' < End' => input'[pos'].kind # "ws")
    BY <1>2, <2>1, Lands
  <2>4. "value" \in Control \ {"start", "done"}
    BY DEF Control
  <2>. QED  BY <1>3, <2>1, <2>2, <2>3, <2>4, KeepsExact
<1>10. CASE NoColonError
  <2>1. /\ pc = "colon" /\ Peek # ":"
        /\ RejectAt("InvalidGrammar", pos, IF Peek = None THEN 0 ELSE 1, depth)
    BY <1>10 DEF NoColonError, ExpectFails, Reject
  <2>2. ~(Here \in 1..Len(Text) /\ Text[Here].kind = ":")
    BY <1>2, <2>1
  <2>3. Refused(Text)
    <3>1. Tracks(Text, "colon", stack, Here, valueCount)
      BY <1>3, <2>1
    <3>. QED  BY <1>3, <2>2, <3>1, TrackColon
  <2>. QED  BY <1>1, <2>1, <2>3, RefusedExact
<1>. QED  BY <1>4, <1>5, <1>7, <1>8, <1>9, <1>10 DEF MemberKey

LEMMA AppendExact == IInv /\ Exact /\ AppendItem => Exact'
<1>. SUFFICES ASSUME IInv, Exact, AppendItem PROVE Exact'  OBVIOUS
<1>. DEFINE g == [Top EXCEPT !.items = Append(@, Top.key), !.key = NoKey]
<1>1. /\ pc = "append" /\ stack' = [stack EXCEPT ![Len(stack)] = g] /\ SkipWs(pos)
      /\ pc' = "next" /\ UNCHANGED <<input, valueCount, verdict>>
  BY DEF AppendItem, ReplaceTop
<1>2. pc \in InLoop /\ "next" \in Control \ {"start", "done"}
  BY <1>1 DEF InLoop, Control
<1>3. /\ Len(stack) \in Nat \ {0} /\ Top = stack[Len(stack)] /\ Top \in Frame /\ Running
      /\ Len(Top.items) \in Nat /\ Top.items \in Seq(Texts \cup {NoKey})
  BY <1>2, TopIs
<1>4. /\ Steers(Text, "append", stack, Here, valueCount) /\ stack \in Seq(Frame) /\ Len(Text) \in Nat
      /\ verdict.class = None /\ ~TooLarge /\ InvalidBytes = {}
  BY <1>1, <1>3, RunningIs
<1>5. g.kind = Top.kind /\ g.seen = Top.seen /\ Len(g.items) = Len(Top.items) + 1
  <2>1. Top.key \in Texts \cup {NoKey}
    BY <1>3 DEF Frame
  <2>2. g.kind = Top.kind /\ g.seen = Top.seen /\ g.items = Append(Top.items, Top.key)
    BY <1>3 DEF Frame
  <2>. QED  BY <1>3, <2>1, <2>2, AppendProperties
<1> HIDE DEF g
<1>6. Replaced(stack, stack', g)
  BY <1>1, <1>3, <1>4, ReplacedTop
<1>7. Steers(Text, "next", stack', Here, valueCount)
  <2>1. /\ g.kind = stack[Len(stack)].kind /\ g.seen = stack[Len(stack)].seen
        /\ Len(stack[Len(stack)].items) \in Nat /\ Len(g.items) = Len(stack[Len(stack)].items) + 1
    BY <1>3, <1>5
  <2>. QED  BY <1>3, <1>4, <1>6, <2>1, SteerAppend
<1>8. Here' = Here /\ (pos' < End' => input'[pos'].kind # "ws")
  <2>1. pos \in 1..End
    BY DEF IInv, TypeOK
  <2>. QED  BY <1>1, <2>1, Lands DEF Here
<1>. QED  BY <1>1, <1>2, <1>4, <1>7, <1>8, KeepsExact

LEMMA LoopStepExact == IInv /\ Exact /\ LoopStep => Exact'
<1>. SUFFICES ASSUME IInv, Exact, LoopStep PROVE Exact'  OBVIOUS
<1>0. pc \in {"append", "next"}
  BY DEF LoopStep, AppendItem, CountOverLimit, NextItem, CloseContainer, NoNextError
<1>1. pc \in InLoop /\ {"InvalidGrammar", "BoundExceeded"} \subseteq FailureClass
  BY <1>0 DEF InLoop, FailureClass
<1>2. /\ Steers(Text, pc, stack, Here, valueCount) /\ Tracks(Text, pc, stack, Here, valueCount)
      /\ Len(Text) \in Nat /\ Here \in Nat \ {0}
      /\ Here \in 1..(Len(Text) + 1) /\ verdict.class = None /\ ~TooLarge /\ InvalidBytes = {}
      /\ Len(stack) \in Nat \ {0} /\ Top = stack[Len(stack)] /\ Top.kind \in {"object", "array"}
      /\ Len(Top.items) \in Nat
  BY <1>1, RunningIs, TopIs
<1>3. CASE AppendItem
  BY <1>3, AppendExact
<1>4. CASE CountOverLimit
  <2>1. pc = "append" /\ ~HasRoom /\ RejectAt("BoundExceeded", pos, 0, depth)
    BY <1>4 DEF CountOverLimit, Reject
  <2>2. ~(Len(stack[Len(stack)].items) < CountLimit(stack[Len(stack)].kind))
    BY <1>2, <2>1 DEF HasRoom
  <2>3. Refused(Text)
    <3>1. Tracks(Text, "append", stack, Here, valueCount)
      BY <1>2, <2>1
    <3>2. stack[Len(stack)].kind \in {"object", "array"} /\ Len(stack[Len(stack)].items) \in Nat
      BY <1>2
    <3>. QED  BY <1>2, <2>2, <3>1, <3>2, TrackCountOver
  <2>. QED  BY <1>1, <2>1, <2>3, RefusedExact
<1>5. CASE NextItem
  <2>1. /\ pc = "next" /\ Peek = "," /\ SkipWs(pos + 1) /\ Peek # None
        /\ pc' = (IF Top.kind = "object" THEN "key" ELSE "value")
        /\ UNCHANGED <<input, valueCount, stack, verdict>>
    BY <1>5 DEF NextItem, None
  <2>2. OnLexeme(pc)
    BY <2>1 DEF OnLexeme
  <2>3. /\ Here \in 1..Len(Text) /\ Peek = Text[Here].kind /\ pos + 1 \in 1..End
        /\ At(pos + 1) + 1 = Here + 1
    BY <2>1, <2>2, SeesNext
  <2>4. pc' = Enters(Sym(stack[Len(stack)])) /\ pc' \in Control \ {"start", "done"}
    BY <1>2, <2>1 DEF Enters, Sym, Control
  <2>5. Steers(Text, Enters(Sym(stack[Len(stack)])), stack, Here + 1, valueCount)
    <3>1. Steers(Text, "next", stack, Here, valueCount)
      BY <1>2, <2>1
    <3>2. IsComma(Text[Here])
      BY <2>1, <2>3 DEF IsComma
    <3>. QED  BY <1>2, <2>3, <3>1, <3>2, SteerComma
  <2>6. Here' = Here + 1 /\ (pos' < End' => input'[pos'].kind # "ws")
    <3>1. SkipWs(pos + 1) /\ UNCHANGED input
      BY <2>1
    <3>2. Here' = At(pos + 1) + 1 /\ (pos' < End' => input'[pos'].kind # "ws")
      BY <2>3, <3>1, Lands
    <3>. QED  BY <2>3, <3>2
  <2>7. Steers(Text, pc', stack', Here', valueCount')
    BY <2>1, <2>4, <2>5, <2>6
  <2>8. UNCHANGED <<input, verdict>>
    BY <2>1
  <2>. QED  BY <1>2, <2>4, <2>6, <2>7, <2>8, KeepsExact
<1>6. CASE CloseContainer
  <2>1. pc \in {"open", "next"} /\ Peek = Closing(Top.kind) /\ CloseFrame
    BY <1>6 DEF CloseContainer
  <2>. QED  BY <2>1, CloseExact
<1>7. CASE NoNextError
  <2>1. pc = "next" /\ Peek # "," /\ Peek # Closing(Top.kind)
        /\ RejectAt("InvalidGrammar", pos, 0, depth)
    BY <1>7 DEF NoNextError, Reject
  <2>2. Here \in 1..Len(Text) => /\ Text[Here].kind # ","
                                 /\ Text[Here].kind # Ref!CloseOf(Sym(stack[Len(stack)]))
    <3>1. OnLexeme(pc)
      BY <2>1 DEF OnLexeme
    <3>. QED  BY <1>2, <2>1, <3>1, SeesNext, ClosingFound
  <2>3. Refused(Text)
    <3>1. Tracks(Text, "next", stack, Here, valueCount)
      BY <1>2, <2>1
    <3>2. Here \in 1..Len(Text) => Text[Here].kind \notin {",", Ref!CloseOf(Sym(stack[Len(stack)]))}
      BY <2>2
    <3>. QED  BY <1>2, <3>1, <3>2, TrackNoNext
  <2>. QED  BY <1>1, <2>1, <2>3, RefusedExact
<1>. QED  BY <1>3, <1>4, <1>5, <1>6, <1>7 DEF LoopStep

LEMMA FinishExact == IInv /\ Exact /\ Finish => Exact'
<1>. SUFFICES ASSUME IInv, Exact, Finish PROVE Exact'  OBVIOUS
<1>0. pc = "trailing" /\ Running
  BY DEF Finish, Accept, TrailingContent, Running
<1>1. /\ Tracks(Text, "trailing", stack, Here, valueCount) /\ Len(Text) \in Nat
      /\ verdict.class = None /\ ~TooLarge /\ InvalidBytes = {} /\ valueCount <= Limit("values")
  BY <1>0, RunningIs
<1>2. stack = << >> /\ Len(stack) = 0 /\ input \in Seq(Lexeme) /\ pos \in 1..End /\ End \in Nat
  BY <1>0, TokensAre DEF IInv, KeyPhases, TypeOK
<1>3. Refused(Text) <=> Here # Len(Text) + 1
  BY <1>1, <1>2, TrackEnd
<1>4. CASE Accept
  <2>1. SkipsTo(pos, End) /\ pc' = "done" /\ UNCHANGED <<input, verdict>>
    BY <1>4 DEF Accept
  <2>2. Here = Len(Text) + 1
    <3>1. End \in pos..End
      BY <1>2
    <3>. QED  BY <1>2, <2>1, <3>1, SkippedIs DEF Here
  <2>3. RefAccepts'
    BY <1>1, <1>3, <2>1, <2>2, AcceptsWhat, TextSame
  <2>4. verdict'.class = None
    BY <1>1, <2>1
  <2>. QED  BY <2>1, <2>3, <2>4 DEF Exact, OnLexeme, Running, AcceptsExactly
<1>5. CASE TrailingContent
  <2>1. PICK j \in pos..(End - 1) : SkipsTo(pos, j) /\ RejectAt("InvalidGrammar", j, 0, depth)
    BY <1>5 DEF TrailingContent
  <2>2. j \in pos..End /\ j < End
    BY <1>2
  <2>3. Here \in 1..Len(Text)
    BY <1>2, <2>1, <2>2, SkippedIs DEF Here
  <2>4. Here # Len(Text) + 1 /\ "InvalidGrammar" \in FailureClass
    BY <1>1, <2>3 DEF FailureClass
  <2>. QED  BY <1>3, <2>1, <2>4, RefusedExact
<1>. QED  BY <1>4, <1>5 DEF Finish

LEMMA StutterExact == Exact /\ UNCHANGED vars => Exact'
<1>. SUFFICES ASSUME Exact, UNCHANGED vars PROVE Exact'  OBVIOUS
<1>1. UNCHANGED <<input, pos, valueCount, stack, pc, verdict>>
  BY DEF vars
<1>2. /\ Text' = Text /\ End' = End /\ TooLarge' = TooLarge /\ InvalidBytes' = InvalidBytes
      /\ RefAccepts' = RefAccepts /\ Here' = Here
  BY <1>1, TextSame, HereIs DEF Here
<1>3. AcceptsExactly'
  BY <1>1, <1>2 DEF Exact, AcceptsExactly
<1>4. Running' = Running
  BY <1>1 DEF Running
<1>5. Running' => (~TooLarge /\ InvalidBytes = {} /\ Steers(Text, pc, stack, Here, valueCount))'
  <2> SUFFICES ASSUME Running'
               PROVE  (~TooLarge /\ InvalidBytes = {} /\ Steers(Text, pc, stack, Here, valueCount))'
    OBVIOUS
  <2>1. ~TooLarge /\ InvalidBytes = {} /\ Steers(Text, pc, stack, Here, valueCount)
    BY <1>4 DEF Exact
  <2>. QED  BY <1>1, <1>2, <2>1
<1>. QED  BY <1>1, <1>2, <1>3, <1>5 DEF Exact, OnLexeme

LEMMA InitExact == Init => Exact
BY DEF Init, Exact, OnLexeme, Running, AcceptsExactly

(* ParseWithOptions returns a value for the JSON texts with distinct       *)
(* decoded keys that respect every limit and for no other text, whatever   *)
(* the text, the options and the defaults: counting a value before it is   *)
(* looked at, and checking a list after its next value is parsed, neither  *)
(* lets a text through nor refuses a good one.                             *)
THEOREM AcceptedIsExact == Spec => []AcceptsExactly
<1>1. Init => Exact
  BY InitExact
<1>2. IInv /\ Exact /\ [Next]_vars => Exact'
  BY StartExact, ParseValueExact, OpenStepExact, MemberKeyExact, LoopStepExact, FinishExact,
     StutterExact DEF Next
<1>3. Exact => AcceptsExactly
  BY DEF Exact
<1>. QED  BY <1>1, <1>2, <1>3, Invariance, PTL DEF Spec

-----------------------------------------------------------------------------
(* What a text says of its containers, of a text that goes on from it. *)
LEMMA StartsIs ==
  ASSUME NEW s, NEW U, Len(s) \in Nat, Len(U) \in Nat, Starts(s, U)
  PROVE  /\ \A j \in 1..Len(s) : j \in 1..Len(U) /\ U[j] = s[j]
         /\ \A j \in 1..Len(s) : /\ j \in Ref!Opens(s) <=> j \in Ref!Opens(U)
                                 /\ j \in Ref!Closes(s) <=> j \in Ref!Closes(U)
         /\ Ref!Opens(s) \subseteq 1..Len(s) /\ Ref!Closes(s) \subseteq 1..Len(s)
         /\ Ref!Opens(U) \subseteq 1..Len(U) /\ Ref!Closes(U) \subseteq 1..Len(U)
<1>1. \A j \in 1..Len(s) : j \in 1..Len(U) /\ U[j] = s[j]
  BY DEF Starts
<1>. QED  BY <1>1 DEF Ref!Opens, Ref!Closes

LEMMA NestAlike ==
  ASSUME NEW s, NEW U, Len(s) \in Nat, Len(U) \in Nat, Starts(s, U), NEW i \in 1..(Len(s) + 1)
  PROVE  Nest(s, i) = Nest(U, i)
<1> DEFINE A == Ref!Opens(s)
           B == Ref!Closes(s)
           C == Ref!Opens(U)
           D == Ref!Closes(U)
<1>1. /\ \A j \in 1..Len(s) : j \in 1..Len(U) /\ (j \in A <=> j \in C) /\ (j \in B <=> j \in D)
      /\ A \subseteq 1..Len(s) /\ B \subseteq 1..Len(s) /\ C \subseteq 1..Len(U) /\ D \subseteq 1..Len(U)
  BY StartsIs
<1>2. \A j \in 1..Len(U) : j < i => j \in 1..Len(s)
  OBVIOUS
<1> HIDE DEF A, B, C, D
<1>3. {j \in A : j < i} = {j \in C : j < i} /\ {j \in B : j < i} = {j \in D : j < i}
  BY <1>1, <1>2
<1>. QED  BY <1>3 DEF Nest, Ref!Nesting, A, B, C, D

LEMMA DirectlyAlike ==
  ASSUME NEW s, NEW U, Len(s) \in Nat, Len(U) \in Nat, Starts(s, U), NEW i \in 1..Len(s),
         NEW j \in 1..Len(s)
  PROVE  j \in Ref!Directly(s, i) <=> j \in Ref!Directly(U, i)
<1>1. \A k \in 1..Len(s) : Nest(s, k) = Nest(U, k)
  BY NestAlike
<1>2. \A k \in (i + 1)..j : k \in 1..Len(s)
  OBVIOUS
<1>3. j \in (i + 1)..Len(s) <=> j \in (i + 1)..Len(U)
  BY DEF Starts
<1>. QED  BY <1>1, <1>2, <1>3 DEF Ref!Directly, Nest

LEMMA DirectlyInside == \A T, i : Ref!Directly(T, i) \subseteq (i + 1)..Len(T)
BY DEF Ref!Directly

(* A key is one by the colon after it: the last lexeme is none. *)
LEMMA KeyAlike ==
  ASSUME NEW s, NEW U, Len(s) \in Nat, Len(U) \in Nat, Starts(s, U), NEW j \in 1..Len(s)
  PROVE  /\ Ref!IsKey(s, j) => Ref!IsKey(U, j)
         /\ Ref!IsKey(U, j) /\ j # Len(s) => Ref!IsKey(s, j)
<1>1. /\ \A k \in 1..Len(s) : k \in 1..Len(U) /\ U[k] = s[k]
      /\ Len(s) <= Len(U)
  BY StartsIs DEF Starts
<1>2. j < Len(s) => j + 1 \in 1..Len(s) /\ j < Len(U)
  BY <1>1
<1>3. j # Len(s) => j < Len(s)
  OBVIOUS
<1>. QED  BY <1>1, <1>2, <1>3 DEF Ref!IsKey

LEMMA KeysAlike ==
  ASSUME NEW s, NEW U, Len(s) \in Nat, Len(U) \in Nat, Starts(s, U), NEW i \in 1..Len(s)
  PROVE  /\ Ref!KeysOf(s, i) \subseteq Ref!KeysOf(U, i) \cap (1..Len(s))
         /\ \A j \in Ref!KeysOf(U, i) \cap (1..Len(s)) : j # Len(s) => j \in Ref!KeysOf(s, i)
<1>1. \A j \in Ref!Directly(s, i) : j \in 1..Len(s)
  BY DirectlyInside
<1>. QED  BY <1>1, DirectlyAlike, KeyAlike DEF Ref!KeysOf

LEMMA DistinctAlike ==
  ASSUME NEW s, NEW U, Len(s) \in Nat, Len(U) \in Nat, Starts(s, U), NEW i \in 1..Len(s),
         \A j, k \in Ref!KeysOf(U, i) \cap (1..Len(s)) : U[j].text = U[k].text => j = k
  PROVE  Ref!DistinctIn(s, i)
<1>1. \A j \in Ref!KeysOf(s, i) : j \in Ref!KeysOf(U, i) \cap (1..Len(s)) /\ U[j] = s[j]
  BY KeysAlike, StartsIs
<1>. QED  BY <1>1 DEF Ref!DistinctIn

(* A value is one before anything follows it, unless a colon does. *)
LEMMA ValuesAlike ==
  ASSUME NEW s, NEW U, Len(s) \in Nat, Len(U) \in Nat, Starts(s, U)
  PROVE  /\ Ref!ValuesOf(U) \cap (1..Len(s)) \subseteq Ref!ValuesOf(s)
         /\ ~(Len(s) < Len(U) /\ U[Len(s) + 1].kind = ":")
              => Ref!ValuesOf(s) = Ref!ValuesOf(U) \cap (1..Len(s))
<1>1. /\ \A k \in 1..Len(s) : k \in 1..Len(U) /\ U[k] = s[k]
      /\ \A k \in 1..Len(s) : Ref!IsKey(s, k) => Ref!IsKey(U, k)
      /\ \A k \in 1..Len(s) : Ref!IsKey(U, k) /\ k # Len(s) => Ref!IsKey(s, k)
  BY StartsIs, KeyAlike
<1>2. Ref!ValuesOf(U) \cap (1..Len(s)) \subseteq Ref!ValuesOf(s)
  BY <1>1 DEF Ref!ValuesOf
<1>3. ASSUME ~(Len(s) < Len(U) /\ U[Len(s) + 1].kind = ":")
      PROVE  Ref!ValuesOf(s) \subseteq Ref!ValuesOf(U) \cap (1..Len(s))
  <2>1. \A k \in 1..Len(s) : Ref!IsKey(U, k) => Ref!IsKey(s, k)
    BY <1>1, <1>3 DEF Ref!IsKey
  <2>. QED  BY <1>1, <2>1 DEF Ref!ValuesOf
<1>. QED  BY <1>2, <1>3

LEMMA ItemsAlike ==
  ASSUME NEW s, NEW U, Len(s) \in Nat, Len(U) \in Nat, Starts(s, U), NEW i \in 1..Len(s)
  PROVE  Ref!ItemsOf(U, i) \cap (1..Len(s)) \subseteq Ref!ItemsOf(s, i)
BY DirectlyAlike, ValuesAlike DEF Ref!ItemsOf

-----------------------------------------------------------------------------
(* The text before lexeme i of the input. *)
LEMMA PrefixKept ==
  ASSUME input \in Seq(Lexeme), NEW i \in 1..End
  PROVE  Prefix(i - 1) = Ref!Kept(input)[i - 1]
<1> DEFINE w == SubSeq(input, 1, i - 1)
           f == Ref!Kept(input)
           g == Ref!Kept(w)
<1>0. Len(input) \in Nat /\ End = Len(input) + 1 /\ i - 1 \in Nat /\ i - 1 <= Len(input)
  BY LenProperties DEF End
<1>1. w \in Seq(Lexeme) /\ Len(w) = i - 1 /\ \A k \in 1..(i - 1) : w[k] = input[k]
  <2>1. \A k \in 1..Len(input) : input[k] \in Lexeme
    BY <1>0, ElementOfSeq
  <2>2. \A k \in 1..(i - 1) : input[k] \in Lexeme
    BY <1>0, <2>1
  <2>3. /\ w \in Seq(Lexeme) /\ Len(w) = IF 1 <= i - 1 THEN (i - 1) - 1 + 1 ELSE 0
        /\ \A k \in 1..((i - 1) - 1 + 1) : w[k] = input[1 + k - 1]
    BY <1>0, <2>2, SubSeqProperties
  <2>. QED  BY <1>0, <2>3
<1>2. /\ f[0] = << >> /\ g[0] = << >>
      /\ \A n \in 1..(i - 1) : f[n] = IF input[n].kind = "ws" THEN f[n - 1] ELSE Append(f[n - 1], input[n])
      /\ \A n \in 1..(i - 1) : g[n] = IF input[n].kind = "ws" THEN g[n - 1] ELSE Append(g[n - 1], input[n])
  <2> HIDE DEF w
  <2>. QED  BY <1>0, <1>1, KeptIs
<1>3. Prefix(i - 1) = g[i - 1]
  BY <1>1 DEF Prefix, Ref!NoWs
<1> HIDE DEF f, g, w
<1> DEFINE B == {n \in 0..(i - 1) : f[n] # g[n]}
<1>4. B = {}
  <2>1. SUFFICES ASSUME B # {} PROVE FALSE
    OBVIOUS
  <2>2. PICK n \in B : \A l \in B : n <= l
    <3>1. B \subseteq Nat
      BY <1>0
    <3> HIDE DEF B
    <3>. QED  BY <2>1, <3>1, LeastElement
  <2>3. n \in 1..(i - 1) /\ n - 1 \in 0..(i - 1) /\ ~(n <= n - 1) /\ f[n] # g[n]
    <3>1. n # 0
      BY <1>2
    <3>. QED  BY <1>0, <3>1
  <2>4. f[n - 1] = g[n - 1]
    <3>1. n - 1 \notin B
      <4> HIDE DEF B
      <4>. QED  BY <2>2, <2>3
    <3>. QED  BY <2>3, <3>1
  <2>. QED  BY <1>2, <2>3, <2>4
<1>5. i - 1 \in 0..(i - 1)
  BY <1>0
<1>. QED  BY <1>3, <1>4, <1>5 DEF f

LEMMA PrefixIs ==
  ASSUME input \in Seq(Lexeme), NEW i \in 1..End
  PROVE  /\ Prefix(i - 1) \in Seq(Lexeme) /\ Len(Prefix(i - 1)) \in Nat
         /\ Len(Prefix(i - 1)) = At(i) /\ Starts(Prefix(i - 1), Text)
<1>1. i - 1 \in 0..Len(input) /\ Len(input) \in (i - 1)..Len(input)
  BY LenProperties DEF End
<1>2. Prefix(i - 1) = Ref!Kept(input)[i - 1] /\ Text = Ref!Kept(input)[Len(input)]
  BY PrefixKept DEF Text, Ref!NoWs
<1>3. Starts(Ref!Kept(input)[i - 1], Ref!Kept(input)[Len(input)])
  BY <1>1, KeptGrows
<1>4. Ref!Kept(input)[i - 1] \in Seq(Lexeme)
  BY <1>1, KeptIs
<1>. QED  BY <1>2, <1>3, <1>4, LenProperties DEF At

-----------------------------------------------------------------------------
(* What completes a text: the brackets of its containers, from the         *)
(* innermost one on, after the value or the member that is due.            *)
Bits == Lexeme \cup {Ref!Lex(k) : k \in LexKind}

Brackets(S) == [m \in 1..Len(S) |-> Ref!Lex(Ref!CloseOf(Sym(S[Len(S) + 1 - m])))]

EndsAll(U, p, S) ==
  /\ Len(U) = p - 1 + Len(S)
  /\ \A m \in 1..Len(S) : U[p + Len(S) - m].kind = Ref!CloseOf(Sym(S[m]))

LEMMA FunctionIsSeq ==
  ASSUME NEW N \in Nat, NEW X, NEW f \in [1..N -> X]
  PROVE  f \in Seq(X) /\ Len(f) = N
OBVIOUS

LEMMA LexIs ==
  /\ \A k : Ref!Lex(k).kind = k /\ Ref!Lex(k).fail = None
  /\ \A k \in LexKind : Ref!Lex(k) \in Bits
BY DEF Ref!Lex, Bits, Ref!None, None

(* Such brackets fit where a container closes, after a number where a      *)
(* value is due, after a whole member where a key is due.                  *)
LEMMA FitsEnds ==
  ASSUME NEW U, Len(U) \in Nat, NEW S, Len(S) \in Nat, NEW p \in Nat \ {0}, EndsAll(U, p, S)
  PROVE  /\ \A b \in Back : Fits(U, b, S, p)
         /\ Len(S) # 0 => Fits(U, "open", S, p)
<1> DEFINE n == Len(S)
           E == [m \in 1..n |-> p + n - m]
<1>0. Len(U) = p - 1 + n /\ \A m \in 1..n : U[p + n - m].kind = Ref!CloseOf(Sym(S[m]))
  BY DEF EndsAll
<1>1. E \in [1..n -> 1..Len(U)] /\ \A m \in 1..n : E[m] = p + n - m
  <2>1. \A m \in 1..n : p + n - m \in 1..Len(U)
    BY <1>0
  <2>. QED  BY <2>1
<1> HIDE DEF E
<1>2. ASSUME NEW m \in 1..n PROVE Resume(U, S, E, m, E[m])
  <2>1. E[m] \in 1..Len(U) /\ E[m] \in Nat \ {0} /\ U[E[m]].kind = Ref!CloseOf(Sym(S[m]))
    BY <1>0, <1>1
  <2>2. After(U, Sym(S[m]), E[m], E[m])
    BY <2>1, AfterIs
  <2>. QED  BY <2>2 DEF Resume
<1>3. ASSUME NEW m \in 1..n PROVE Resume(U, S, E, m - 1, E[m] + 1)
  <2>1. CASE m = 1
    <3>1. E[m] + 1 = Len(U) + 1 /\ m - 1 = 0
      BY <1>0, <1>1, <2>1
    <3>. QED  BY <3>1 DEF Resume
  <2>2. CASE m # 1
    <3>1. m - 1 \in 1..n /\ E[m] + 1 = E[m - 1]
      BY <1>1, <2>2
    <3>. QED  BY <1>2, <3>1
  <2>. QED  BY <2>1, <2>2
<1>4. Ends(U, S, E)
  BY <1>1, <1>3 DEF Ends
<1>5. Resume(U, S, E, n, p)
  <2>1. CASE n = 0
    <3>1. p = Len(U) + 1
      BY <1>0, <2>1
    <3>. QED  BY <2>1, <3>1 DEF Resume
  <2>2. CASE n # 0
    <3>1. n \in 1..n /\ E[n] = p
      BY <1>1, <2>2
    <3>. QED  BY <1>2, <3>1
  <2>. QED  BY <2>1, <2>2
<1>6. \A b \in Back : Fits(U, b, S, p)
  BY <1>4, <1>5 DEF Fits, Goes, Back
<1>7. ASSUME n # 0 PROVE Fits(U, "open", S, p)
  <2>1. n \in 1..n /\ E[n] = p
    BY <1>1, <1>7
  <2>2. p + n - n = p
    OBVIOUS
  <2>3. ClosesAt(U, Sym(S[n]), p, E[n])
    BY <1>0, <2>1, <2>2 DEF ClosesAt
  <2>. QED  BY <1>4, <2>3 DEF Fits, Goes
<1>. QED  BY <1>6, <1>7

LEMMA FitsNumber ==
  ASSUME NEW U, Len(U) \in Nat, NEW S, Len(S) \in Nat, NEW q \in 1..Len(U), U[q] = Ref!Lex("num"),
         EndsAll(U, q + 1, S)
  PROVE  Fits(U, "value", S, q)
<1>1. U[q].kind \in Scalars /\ U[q].fail = None
  BY LexIs DEF Scalars
<1>2. Fits(U, "next", S, q + 1) /\ "next" \in Back
  <2>1. q + 1 \in Nat \ {0} /\ "next" \in Back
    BY DEF Back
  <2>. QED  BY <2>1, FitsEnds
<1>. QED  BY <1>1, <1>2, FitsScalar

LEMMA FitsPair ==
  ASSUME NEW U, Len(U) \in Nat, NEW S, Len(S) \in Nat, NEW q \in 1..Len(U), U[q].kind = ":",
         q + 1 \in 1..Len(U), U[q + 1] = Ref!Lex("num"), EndsAll(U, (q + 1) + 1, S)
  PROVE  Fits(U, "colon", S, q)
<1>1. Fits(U, "value", S, q + 1)
  BY FitsNumber
<1>. QED  BY <1>1, FitsColon

LEMMA FitsMember ==
  ASSUME NEW U, Len(U) \in Nat, NEW S, Len(S) \in Nat \ {0}, Sym(S[Len(S)]) = "members",
         NEW q \in 1..Len(U), Ref!IsName(U[q]), q + 1 \in 1..Len(U), U[q + 1].kind = ":",
         (q + 1) + 1 \in 1..Len(U), U[(q + 1) + 1] = Ref!Lex("num"), EndsAll(U, ((q + 1) + 1) + 1, S)
  PROVE  Fits(U, "key", S, q)
<1>1. Fits(U, "colon", S, q + 1)
  BY FitsPair
<1>2. q \in Nat \ {0} /\ Len(S) # 0
  OBVIOUS
<1>. QED  BY <1>1, <1>2, FitsKey

LEMMA BracketsIs ==
  ASSUME NEW S, Len(S) \in Nat
  PROVE  /\ Brackets(S) \in [1..Len(S) -> {Ref!Lex("}"), Ref!Lex("]")}]
         /\ Brackets(S) \in Seq(Bits) /\ Len(Brackets(S)) = Len(S)
         /\ \A m \in 1..Len(S) : Brackets(S)[Len(S) + 1 - m].kind = Ref!CloseOf(Sym(S[m]))
<1> DEFINE X == {Ref!Lex("}"), Ref!Lex("]")}
           B == Brackets(S)
<1>1. \A sym : Ref!Lex(Ref!CloseOf(sym)) \in X
  BY DEF Ref!CloseOf
<1>2. X \subseteq Bits
  <2>1. "}" \in LexKind /\ "]" \in LexKind
    BY DEF LexKind, Punctuation
  <2>. QED  BY <2>1, LexIs
<1> HIDE DEF X
<1>3. B = [m \in 1..Len(S) |-> Ref!Lex(Ref!CloseOf(Sym(S[Len(S) + 1 - m])))]
  BY DEF Brackets
<1> HIDE DEF B
<1>4. B \in [1..Len(S) -> X]
  BY <1>1, <1>3
<1>5. B \in Seq(X) /\ Len(B) = Len(S)
  BY <1>4, FunctionIsSeq
<1>6. B \in Seq(Bits)
  BY <1>2, <1>5, SeqMonotonic
<1>7. ASSUME NEW m \in 1..Len(S) PROVE B[Len(S) + 1 - m].kind = Ref!CloseOf(Sym(S[m]))
  <2>1. Len(S) + 1 - m \in 1..Len(S) /\ Len(S) + 1 - (Len(S) + 1 - m) = m
    OBVIOUS
  <2>2. B[Len(S) + 1 - m] = Ref!Lex(Ref!CloseOf(Sym(S[m])))
    BY <1>3, <2>1
  <2>. QED  BY <2>2, LexIs
<1>. QED  BY <1>4, <1>5, <1>6, <1>7 DEF X, B

(* The text s, the lexemes x, and the brackets of S. *)
Completion(s, x, S) == (s \o x) \o Brackets(S)

LEMMA CompletedIs ==
  ASSUME NEW s \in Seq(Bits), NEW x \in Seq(Bits), NEW S, Len(S) \in Nat,
         NEW U, U = Completion(s, x, S)
  PROVE  /\ Len(s) \in Nat /\ Len(x) \in Nat /\ Len(U) \in Nat
         /\ Len(U) = Len(s) + Len(x) + Len(S)
         /\ Starts(s, U) /\ \A k \in 1..Len(x) : U[Len(s) + k] = x[k]
         /\ EndsAll(U, Len(s) + Len(x) + 1, S)
<1> DEFINE B == Brackets(S)
           w == s \o x
<1>1. /\ B \in Seq(Bits) /\ Len(B) = Len(S)
      /\ \A m \in 1..Len(S) : B[Len(S) + 1 - m].kind = Ref!CloseOf(Sym(S[m]))
  BY BracketsIs
<1>2. Len(s) \in Nat /\ Len(x) \in Nat
  BY LenProperties
<1>4. U = w \o B
  BY DEF Completion
<1> HIDE DEF B
<1>3. /\ w \in Seq(Bits) /\ Len(w) = Len(s) + Len(x)
      /\ \A i \in 1..(Len(s) + Len(x)) : w[i] = IF i <= Len(s) THEN s[i] ELSE x[i - Len(s)]
  BY ConcatProperties
<1> HIDE DEF w
<1>12. /\ w \o B \in Seq(Bits) /\ Len(w \o B) = Len(w) + Len(B)
       /\ \A i \in 1..(Len(w) + Len(B)) : (w \o B)[i] = IF i <= Len(w) THEN w[i] ELSE B[i - Len(w)]
  <2>1. w \in Seq(Bits) /\ B \in Seq(Bits)
    BY <1>1, <1>3
  <2>. QED  BY <2>1, ConcatProperties
<1>5. /\ U \in Seq(Bits) /\ Len(U) = Len(w) + Len(B)
      /\ \A i \in 1..(Len(w) + Len(B)) : U[i] = IF i <= Len(w) THEN w[i] ELSE B[i - Len(w)]
  BY <1>4, <1>12
<1>6. Len(U) = Len(s) + Len(x) + Len(S) /\ Len(U) \in Nat
  BY <1>1, <1>2, <1>3, <1>5
<1>7. ASSUME NEW k \in 1..Len(s) PROVE U[k] = s[k]
  BY <1>1, <1>2, <1>3, <1>5
<1>8. ASSUME NEW k \in 1..Len(x) PROVE U[Len(s) + k] = x[k]
  <2>1. /\ Len(s) + k \in 1..(Len(s) + Len(x)) /\ ~(Len(s) + k <= Len(s))
        /\ (Len(s) + k) - Len(s) = k /\ Len(s) + k <= Len(w)
        /\ Len(s) + k \in 1..(Len(w) + Len(B))
    BY <1>1, <1>2, <1>3
  <2>. QED  BY <1>3, <1>5, <2>1
<1>9. ASSUME NEW m \in 1..Len(S)
      PROVE  U[(Len(s) + Len(x) + 1) + Len(S) - m].kind = Ref!CloseOf(Sym(S[m]))
  <2> DEFINE i == (Len(s) + Len(x) + 1) + Len(S) - m
  <2>1. /\ i \in 1..(Len(w) + Len(B)) /\ ~(i <= Len(w)) /\ i - Len(w) = Len(S) + 1 - m
    BY <1>1, <1>2, <1>3
  <2>2. U[i] = B[i - Len(w)]
    BY <1>5, <2>1
  <2>3. U[i] = B[Len(S) + 1 - m]
    BY <2>1, <2>2
  <2>. QED  BY <1>1, <2>3
<1>10. Starts(s, U)
  BY <1>2, <1>6, <1>7 DEF Starts
<1>11. Len(U) = (Len(s) + Len(x) + 1) - 1 + Len(S)
  BY <1>2, <1>6
<1>. QED  BY <1>2, <1>6, <1>8, <1>9, <1>10, <1>11 DEF EndsAll

(* What is due at a place of the descent. *)
Number == <<Ref!Lex("num")>>
Pair   == <<Ref!Lex(":"), Ref!Lex("num")>>
Member == <<Ref!Lex("str"), Ref!Lex(":"), Ref!Lex("num")>>

Due(c) == CASE c = "value" -> Number [] c = "colon" -> Pair [] c = "key" -> Member [] OTHER -> << >>

LEMMA FillingsAre ==
  /\ Ref!Fillings = {<< >>, Number, Pair, Member}
  /\ << >> \in Seq(Bits) /\ Number \in Seq(Bits) /\ Pair \in Seq(Bits) /\ Member \in Seq(Bits)
  /\ Len(<< >>) = 0 /\ Len(Number) = 1 /\ Len(Pair) = 2 /\ Len(Member) = 3
  /\ Number[1] = Ref!Lex("num")
  /\ Pair[1] = Ref!Lex(":") /\ Pair[2] = Ref!Lex("num")
  /\ Member[1] = Ref!Lex("str") /\ Member[2] = Ref!Lex(":") /\ Member[3] = Ref!Lex("num")
<1>1. Ref!Fillings = {<< >>, Number, Pair, Member}
  BY DEF Ref!Fillings, Number, Pair, Member
<1>2. "num" \in LexKind /\ "str" \in LexKind /\ ":" \in LexKind
  BY DEF LexKind, Punctuation
<1>3. Ref!Lex("num") \in Bits /\ Ref!Lex("str") \in Bits /\ Ref!Lex(":") \in Bits
  BY <1>2, LexIs
<1> DEFINE a == Ref!Lex("num")
           b == Ref!Lex(":")
           d == Ref!Lex("str")
<1>4. Number = <<a>> /\ Pair = <<b, a>> /\ Member = <<d, b, a>> /\ a \in Bits /\ b \in Bits /\ d \in Bits
  BY <1>3 DEF Number, Pair, Member
<1>5. a = Ref!Lex("num") /\ b = Ref!Lex(":") /\ d = Ref!Lex("str")
  OBVIOUS
<1> HIDE DEF a, b, d
<1>6. /\ << >> \in Seq(Bits) /\ Number \in Seq(Bits) /\ Pair \in Seq(Bits) /\ Member \in Seq(Bits)
      /\ Len(<< >>) = 0 /\ Len(Number) = 1 /\ Len(Pair) = 2 /\ Len(Member) = 3
      /\ Number[1] = a /\ Pair[1] = b /\ Pair[2] = a
      /\ Member[1] = d /\ Member[2] = b /\ Member[3] = a
  BY <1>4
<1>. QED  BY <1>1, <1>5, <1>6

LEMMA DueIs ==
  ASSUME NEW c
  PROVE  Due(c) \in Ref!Fillings /\ Due(c) \in Seq(Bits) /\ Len(Due(c)) \in Nat
<1>1. Due(c) \in {<< >>, Number, Pair, Member}
  BY DEF Due
<1>. QED  BY <1>1, FillingsAre, LenProperties

(* The place at which a value or a member is due, in an object if a key is. *)
MayStand(c, S) ==
  /\ c \in {"value", "open", "key", "colon"} \cup Back
  /\ c = "open" => Len(S) # 0
  /\ c = "key" => Len(S) # 0 /\ Sym(S[Len(S)]) = "members"

LEMMA CompletedFits ==
  ASSUME NEW s \in Seq(Bits), NEW S, Len(S) \in Nat, NEW c, MayStand(c, S),
         NEW U, U = Completion(s, Due(c), S)
  PROVE  Fits(U, c, S, Len(s) + 1)
<1> DEFINE n == Len(s)
           q == n + 1
           x == Due(c)
<1>1. /\ n \in Nat /\ Len(U) \in Nat /\ Len(x) \in Nat /\ Len(U) = n + Len(x) + Len(S)
      /\ \A k \in 1..Len(x) : U[n + k] = x[k]
      /\ EndsAll(U, n + Len(x) + 1, S)
  <2>1. x \in Seq(Bits) /\ U = Completion(s, x, S)
    BY DueIs
  <2> HIDE DEF x
  <2>. QED  BY <2>1, CompletedIs
<1>3. CASE c \in Back \cup {"open"}
  <2>1. x = << >>
    BY <1>3 DEF Due, Back
  <2>2. Len(x) = 0
    BY <2>1, FillingsAre
  <2> HIDE DEF x
  <2>3. q \in Nat \ {0} /\ EndsAll(U, q, S)
    <3>1. n + Len(x) + 1 = q
      BY <1>1, <2>2
    <3>. QED  BY <1>1, <3>1
  <2> HIDE DEF q
  <2>4. /\ \A b \in Back : Fits(U, b, S, q)
        /\ Len(S) # 0 => Fits(U, "open", S, q)
    BY <1>1, <2>3, FitsEnds
  <2>. QED  BY <1>3, <2>4 DEF MayStand, q
<1>4. CASE c = "value"
  <2>1. x = Number
    BY <1>4 DEF Due
  <2>2. Len(x) = 1 /\ x[1] = Ref!Lex("num")
    BY <2>1, FillingsAre
  <2> HIDE DEF x
  <2>3. /\ q \in 1..Len(U) /\ U[q] = Ref!Lex("num") /\ EndsAll(U, q + 1, S)
    <3>1. 1 \in 1..Len(x) /\ n + Len(x) + 1 = q + 1 /\ q \in 1..Len(U)
      BY <1>1, <2>2
    <3>. QED  BY <1>1, <2>2, <3>1
  <2> HIDE DEF q
  <2>. QED  BY <1>1, <1>4, <2>3, FitsNumber DEF q
<1>5. CASE c = "colon"
  <2>1. x = Pair
    BY <1>5 DEF Due
  <2>2. Len(x) = 2 /\ x[1] = Ref!Lex(":") /\ x[2] = Ref!Lex("num")
    BY <2>1, FillingsAre
  <2> HIDE DEF x
  <2>3. 1 \in 1..Len(x) /\ 2 \in 1..Len(x) /\ n + Len(x) + 1 = (q + 1) + 1 /\ q \in 1..Len(U)
        /\ q + 1 \in 1..Len(U) /\ n + 2 = q + 1
    BY <1>1, <2>2
  <2>4. U[q] = Ref!Lex(":") /\ U[q + 1] = Ref!Lex("num") /\ EndsAll(U, (q + 1) + 1, S)
    BY <1>1, <2>2, <2>3
  <2>5. U[q].kind = ":"
    BY <2>4, LexIs
  <2> HIDE DEF q
  <2>. QED  BY <1>1, <1>5, <2>3, <2>4, <2>5, FitsPair DEF q
<1>6. CASE c = "key"
  <2>1. x = Member
    BY <1>6 DEF Due
  <2>2. Len(x) = 3 /\ x[1] = Ref!Lex("str") /\ x[2] = Ref!Lex(":") /\ x[3] = Ref!Lex("num")
    BY <2>1, FillingsAre
  <2> HIDE DEF x
  <2>3. /\ 1 \in 1..Len(x) /\ 2 \in 1..Len(x) /\ 3 \in 1..Len(x)
        /\ n + Len(x) + 1 = ((q + 1) + 1) + 1 /\ q \in 1..Len(U)
        /\ q + 1 \in 1..Len(U) /\ n + 2 = q + 1 /\ (q + 1) + 1 \in 1..Len(U) /\ n + 3 = (q + 1) + 1
    BY <1>1, <2>2
  <2>4. /\ U[q] = Ref!Lex("str") /\ U[q + 1] = Ref!Lex(":") /\ U[(q + 1) + 1] = Ref!Lex("num")
        /\ EndsAll(U, ((q + 1) + 1) + 1, S)
    BY <1>1, <2>2, <2>3
  <2>5. Ref!IsName(U[q]) /\ U[q + 1].kind = ":"
    BY <2>4, LexIs DEF Ref!IsName, Ref!None, None
  <2>6. Len(S) \in Nat \ {0} /\ Sym(S[Len(S)]) = "members"
    BY <1>6 DEF MayStand
  <2> HIDE DEF q
  <2>. QED  BY <1>1, <1>6, <2>3, <2>4, <2>5, <2>6, FitsMember DEF q
<1>. QED  BY <1>3, <1>4, <1>5, <1>6 DEF MayStand

-----------------------------------------------------------------------------
(* The completion of what has been read is as the text up to there: the    *)
(* parser would have done the same on it, and it fits.                     *)
LEMMA SameCompletion ==
  ASSUME NEW T, NEW s \in Seq(Bits), Starts(s, T), NEW S, Len(S) \in Nat, NEW c, MayStand(c, S),
         NEW U, U = Completion(s, Due(c), S)
  PROVE  /\ SameSoFar(T, U, c, Len(s) + 1) /\ Len(U) \in Nat /\ Len(s) \in Nat /\ Starts(s, U)
         /\ Fits(U, c, S, Len(s) + 1)
<1>1. Due(c) \in Seq(Bits)
  BY DueIs
<1>2. /\ Len(s) \in Nat /\ Len(Due(c)) \in Nat /\ Len(U) = Len(s) + Len(Due(c)) + Len(S)
      /\ Len(U) \in Nat /\ Starts(s, U) /\ \A k \in 1..Len(Due(c)) : U[Len(s) + k] = Due(c)[k]
  BY <1>1, CompletedIs
<1>3. \A k \in 1..((Len(s) + 1) - 1) : U[k] = T[k]
  BY <1>2 DEF Starts
<1>4. Len(s) + 1 \in 1..(Len(U) + 1)
  BY <1>2
<1>5. ASSUME c \in {"value", "key"} PROVE Len(s) + 1 \notin Ref!Closes(U)
  <2>1. CASE c = "value"
    <3>1. Due(c) = Number
      BY <2>1 DEF Due
    <3>2. 1 \in 1..Len(Due(c)) /\ Due(c)[1] = Ref!Lex("num")
      BY <3>1, FillingsAre
    <3>3. U[Len(s) + 1].kind = "num"
      BY <1>2, <3>2, LexIs
    <3>. QED  BY <3>3 DEF Ref!Closes
  <2>2. CASE c = "key"
    <3>1. Due(c) = Member
      BY <2>2 DEF Due
    <3>2. 1 \in 1..Len(Due(c)) /\ Due(c)[1] = Ref!Lex("str")
      BY <3>1, FillingsAre
    <3>3. U[Len(s) + 1].kind = "str"
      BY <1>2, <3>2, LexIs
    <3>. QED  BY <3>3 DEF Ref!Closes
  <2>. QED  BY <1>5, <2>1, <2>2
<1>. QED  BY <1>2, <1>3, <1>4, <1>5, CompletedFits DEF SameSoFar

(* A completion of what has been read is a JSON text, and recorded.        *)
LEMMA SteeredCompletion ==
  ASSUME NEW T, NEW s \in Seq(Bits), Starts(s, T), NEW S, Len(S) \in Nat, NEW c, MayStand(c, S),
         NEW U, U = Completion(s, Due(c), S), NEW v, Steers(T, c, S, Len(s) + 1, v)
  PROVE  Ref!IsValue(U) /\ Recorded(U, S, c, Len(s) + 1, v)
<1>1. SameSoFar(T, U, c, Len(s) + 1) /\ Fits(U, c, S, Len(s) + 1)
  BY SameCompletion
<1>2. Tracks(U, c, S, Len(s) + 1, v)
  BY <1>1 DEF Steers
<1>. QED  BY <1>1, <1>2 DEF Tracks

(* One completion that is a JSON text makes a prefix viable,               *)
LEMMA ViableBy ==
  ASSUME NEW s, NEW x \in Ref!Fillings, NEW S, Len(S) \in Nat,
         Nest(s, Len(s) + 1) = Len(S), Ref!IsValue(Completion(s, x, S))
  PROVE  Ref!Viable(s)
<1>1. Brackets(S) \in [1..Nest(s, Len(s) + 1) -> {Ref!Lex("}"), Ref!Lex("]")}]
  BY BracketsIs
<1>2. Ref!IsValue((s \o x) \o Brackets(S))
  BY DEF Completion
<1>3. Brackets(S) \in [1..Ref!Nesting(s, Len(s) + 1) -> {Ref!Lex("}"), Ref!Lex("]")}]
  BY <1>1 DEF Nest
<1>. QED  BY <1>2, <1>3 DEF Ref!Viable

(* What has been read without an error is flawless. *)
LEMMA FlawlessSoFar ==
  ASSUME NEW T, NEW s \in Seq(Bits), Starts(s, T), NEW S, Len(S) \in Nat, NEW c, MayStand(c, S),
         NEW v, Steers(T, c, S, Len(s) + 1, v),
         \A m \in 1..Len(S) : S[m].kind \in {"object", "array"}
  PROVE  Flawless(s) /\ Nest(s, Len(s) + 1) = Len(S)
<1> DEFINE q == Len(s) + 1
<1>1. PICK U : U = Completion(s, Due(c), S)
  OBVIOUS
<1>2. /\ Ref!IsValue(U) /\ Recorded(U, S, c, q, v)
  BY <1>1, SteeredCompletion
<1>3. Len(U) \in Nat /\ Len(s) \in Nat /\ Starts(s, U)
  BY <1>1, SameCompletion
<1>4. PICK O : Places(U, S, O, q) /\ Past(U, S, O, q) /\ Held(U, S, O, c, q) /\ Seen(U, S, O, q)
  BY <1>2 DEF Recorded
<1>5. Nest(s, q) = Len(S)
  <2>1. Nest(U, q) = Len(S) /\ q \in 1..(Len(s) + 1)
    BY <1>3, <1>4 DEF Places
  <2>. QED  BY <1>3, <2>1, NestAlike
<1>6. Ref!Viable(s)
  <2>1. Due(c) \in Ref!Fillings
    BY DueIs
  <2>2. Ref!IsValue(Completion(s, Due(c), S))
    BY <1>1, <1>2
  <2>. QED  BY <1>5, <2>1, <2>2, ViableBy DEF q
<1>7. ASSUME NEW i \in Ref!Opens(s)
      PROVE  /\ i \in 1..Len(s) /\ i \in Ref!Opens(U) \cap (1..(q - 1)) /\ s[i] = U[i]
             /\ Nest(s, i) = Nest(U, i)
  <2>1. i \in 1..Len(s) /\ i \in Ref!Opens(U) /\ s[i] = U[i]
    BY <1>3, StartsIs
  <2>2. i \in 1..(Len(s) + 1) /\ i \in 1..(q - 1)
    BY <1>3, <2>1
  <2>. QED  BY <1>3, <2>1, <2>2, NestAlike
<1>8. ASSUME NEW i \in Ref!Opens(s) PROVE Ref!Nesting(s, i) + 1 <= Limit("depth")
  <2>1. Nest(U, i) + 1 <= Limit("depth")
    BY <1>4, <1>7 DEF Past
  <2>. QED  BY <1>7, <2>1 DEF Nest
<1>9. ASSUME NEW i \in Ref!Opens(s), s[i].kind = "{" PROVE Ref!DistinctIn(s, i)
  <2>0. i \in 1..Len(s) /\ Braced(U, i)
    BY <1>7, <1>9 DEF Braced
  <2>1. \A j, k \in Ref!KeysOf(U, i) \cap (1..Len(s)) : U[j].text = U[k].text => j = k
    <3>1. CASE \E m \in 1..Len(S) : i = O[m]
      <4>1. PICK m \in 1..Len(S) : i = O[m]
        BY <3>1
      <4>2. U[i].kind = Ref!OpenOf(Sym(S[m]))
        BY <1>4, <4>1 DEF Places
      <4>3. S[m].kind = "object"
        BY <2>0, <4>2, ObjectIs
      <4>4. \A j, k \in KeysIn(U, O[m], q) : U[j].text = U[k].text => j = k
        BY <1>4, <4>3 DEF Seen
      <4>5. KeysIn(U, O[m], q) = Ref!KeysOf(U, i) \cap (1..Len(s))
        BY <1>3, <4>1 DEF KeysIn
      <4>. QED  BY <4>4, <4>5
    <3>2. CASE ~(\E m \in 1..Len(S) : i = O[m])
      <4>1. Good(U, i)
        BY <1>4, <1>7, <3>2 DEF Past
      <4>2. Ref!DistinctIn(U, i)
        BY <2>0, <4>1 DEF Good
      <4>. QED  BY <4>2 DEF Ref!DistinctIn
    <3>. QED  BY <3>1, <3>2
  <2>. QED  BY <1>3, <2>0, <2>1, DistinctAlike
<1>. QED  BY <1>5, <1>6, <1>8, <1>9 DEF Flawless

(* and a viable one is the beginning of a JSON text.                       *)
LEMMA ViableIs ==
  ASSUME NEW s \in Seq(Bits), Ref!Viable(s)
  PROVE  \E U : Len(U) \in Nat /\ Starts(s, U) /\ Ref!IsValue(U)
<1> DEFINE N == Nest(s, Len(s) + 1)
           X == {Ref!Lex("}"), Ref!Lex("]")}
<1>0. Len(s) \in Nat /\ Nest(s, Len(s) + 1) \in Int
  <2>1. Len(s) \in Nat
    BY LenProperties
  <2>2. Len(s) + 1 \in Nat \ {0}
    BY <2>1
  <2>. QED  BY <2>1, <2>2, NestIs
<1>1. X \subseteq Bits
  <2>1. "}" \in LexKind /\ "]" \in LexKind
    BY DEF LexKind, Punctuation
  <2>. QED  BY <2>1, LexIs
<1> HIDE DEF X
<1>2. PICK x \in Ref!Fillings, c \in [1..N -> X] : Ref!IsValue((s \o x) \o c)
  BY DEF Ref!Viable, Nest, X
<1>3. x \in Seq(Bits)
  BY FillingsAre
<1>4. c \in Seq(Bits)
  <2>1. CASE N \in Nat
    <3> HIDE DEF N
    <3>1. c \in Seq(X)
      BY <2>1, FunctionIsSeq
    <3>. QED  BY <1>1, <3>1, SeqMonotonic
  <2>2. CASE N \notin Nat
    <3>1. 1..N = 1..0
      BY <1>0, <2>2
    <3> HIDE DEF N
    <3>2. c \in [1..0 -> X] /\ 0 \in Nat
      BY <3>1
    <3>3. c \in Seq(X)
      BY <3>2, FunctionIsSeq
    <3>. QED  BY <1>1, <3>3, SeqMonotonic
  <2>. QED  BY <2>1, <2>2
<1> HIDE DEF N
<1> DEFINE w == s \o x
<1>5. /\ w \in Seq(Bits) /\ Len(w) = Len(s) + Len(x) /\ Len(x) \in Nat
      /\ \A i \in 1..(Len(s) + Len(x)) : w[i] = IF i <= Len(s) THEN s[i] ELSE x[i - Len(s)]
  BY <1>3, ConcatProperties, LenProperties
<1> HIDE DEF w
<1>10. Ref!IsValue(w \o c)
  BY <1>2 DEF w
<1>11. /\ w \o c \in Seq(Bits) /\ Len(w \o c) = Len(w) + Len(c)
       /\ \A i \in 1..(Len(w) + Len(c)) : (w \o c)[i] = IF i <= Len(w) THEN w[i] ELSE c[i - Len(w)]
  <2>1. w \in Seq(Bits) /\ c \in Seq(Bits)
    BY <1>4, <1>5
  <2>. QED  BY <2>1, ConcatProperties
<1> DEFINE U == w \o c
<1>12. U = w \o c
  OBVIOUS
<1> HIDE DEF U
<1>6. /\ U \in Seq(Bits) /\ Len(U) = Len(w) + Len(c) /\ Len(c) \in Nat /\ Len(U) \in Nat
      /\ \A i \in 1..(Len(w) + Len(c)) : U[i] = IF i <= Len(w) THEN w[i] ELSE c[i - Len(w)]
  <2>1. /\ U \in Seq(Bits) /\ Len(U) = Len(w) + Len(c)
        /\ \A i \in 1..(Len(w) + Len(c)) : U[i] = IF i <= Len(w) THEN w[i] ELSE c[i - Len(w)]
    BY <1>11, <1>12
  <2>2. Len(c) \in Nat /\ Len(U) \in Nat
    BY <1>4, <2>1, LenProperties
  <2>. QED  BY <2>1, <2>2
<1>7. Ref!IsValue(U)
  BY <1>10, <1>12
<1>8. Starts(s, U)
  BY <1>0, <1>5, <1>6 DEF Starts
<1>. QED  BY <1>6, <1>7, <1>8

-----------------------------------------------------------------------------
(* The defects, each from the completion that shows it.                    *)
LEMMA NumberAppended ==
  ASSUME NEW s \in Seq(Bits), NEW S, NEW W, W = Append(s, Ref!Lex("num"))
  PROVE  /\ Completion(W, << >>, S) = Completion(s, Number, S)
         /\ W \in Seq(Bits) /\ Len(W) = Len(s) + 1 /\ W[Len(s) + 1] = Ref!Lex("num")
         /\ \A k \in 1..Len(s) : W[k] = s[k]
<1> DEFINE a == Ref!Lex("num")
<1>1. a \in Bits
  <2>1. "num" \in LexKind
    BY DEF LexKind
  <2>. QED  BY <2>1, LexIs
<1>2. Number = <<a>> /\ W = Append(s, a)
  BY DEF Number
<1> HIDE DEF a
<1>3. /\ W \in Seq(Bits) /\ Len(W) = Len(s) + 1 /\ W[Len(s) + 1] = a
      /\ \A k \in 1..Len(s) : W[k] = s[k]
  BY <1>1, <1>2, AppendProperties
<1>4. W = s \o <<a>>
  BY <1>1, <1>2
<1>5. W \o << >> = W
  BY <1>3
<1>6. W \o << >> = s \o Number
  BY <1>2, <1>4, <1>5
<1>. QED  BY <1>3, <1>6 DEF Completion, a

(* The values before the one that is due are as many as are allowed. *)
LEMMA OneTooMany ==
  ASSUME NEW T, NEW s \in Seq(Bits), Starts(s, T), NEW S, Len(S) \in Nat, NEW v,
         Steers(T, "value", S, Len(s) + 1, v), v = Limit("values")
  PROVE  OneValueTooMany(s)
<1> DEFINE q == Len(s) + 1
<1>0. MayStand("value", S)
  BY DEF MayStand
<1>1. PICK U : U = Completion(s, Due("value"), S)
  OBVIOUS
<1>2. Ref!IsValue(U) /\ Recorded(U, S, "value", q, v)
  BY <1>0, <1>1, SteeredCompletion
<1>3. Len(U) \in Nat /\ Len(s) \in Nat /\ Starts(s, U)
  BY <1>0, <1>1, SameCompletion
<1>4. Due("value") = Number
  BY DEF Due
<1>5. /\ Len(U) = Len(s) + 1 + Len(S) /\ U[q] = Ref!Lex("num")
  <2> DEFINE x == Due("value")
  <2>1. x \in Seq(Bits) /\ U = Completion(s, x, S)
    BY <1>1, DueIs
  <2>2. Len(x) = 1 /\ x[1] = Ref!Lex("num")
    BY <1>4, FillingsAre
  <2> HIDE DEF x
  <2>3. Len(U) = Len(s) + Len(x) + Len(S) /\ \A k \in 1..Len(x) : U[Len(s) + k] = x[k]
    BY <2>1, CompletedIs
  <2>. QED  BY <2>2, <2>3
<1>6. Cardinality(Ref!ValuesOf(s)) = v
  <2>1. U[q].kind # ":"
    BY <1>5, LexIs
  <2>2. Ref!ValuesOf(s) = Ref!ValuesOf(U) \cap (1..Len(s))
    BY <1>3, <2>1, ValuesAlike
  <2>3. Ref!ValuesOf(s) = Ref!ValuesOf(U) \cap (1..(q - 1))
    BY <1>3, <2>2
  <2>4. v = Cnt(Ref!ValuesOf(U), q)
    BY <1>2 DEF Recorded
  <2>. QED  BY <2>3, <2>4 DEF Cnt
<1>7. PICK W : W = Append(s, Ref!Lex("num"))
  OBVIOUS
<1>8. /\ Completion(W, << >>, S) = U
      /\ W \in Seq(Bits) /\ Len(W) = q /\ W[q] = U[q] /\ \A k \in 1..Len(s) : W[k] = s[k]
  BY <1>1, <1>4, <1>5, <1>7, NumberAppended
<1>9. Starts(W, U)
  <2>1. Len(W) <= Len(U)
    BY <1>3, <1>5, <1>8
  <2>2. ASSUME NEW k \in 1..Len(W) PROVE U[k] = W[k]
    <3>1. k \in 1..Len(s) \/ k = q
      BY <1>3, <1>8
    <3>. QED  BY <1>3, <1>8, <3>1, StartsIs
  <2>. QED  BY <2>1, <2>2 DEF Starts
<1>10. Nest(W, Len(W) + 1) = Len(S)
  <2>1. Nest(U, q) = Len(S)
    BY <1>2 DEF Recorded, Places
  <2>2. q \in 1..Len(U) /\ q \notin Ref!Opens(U) /\ q \notin Ref!Closes(U)
    <3>1. q \in 1..Len(U) /\ U[q].kind = "num"
      BY <1>3, <1>5, LexIs
    <3>. QED  BY <3>1 DEF Ref!Opens, Ref!Closes
  <2>3. Nest(U, q + 1) = Len(S)
    BY <1>3, <2>1, <2>2, NestIs
  <2>4. q + 1 \in 1..(Len(W) + 1) /\ Len(W) \in Nat /\ Len(W) + 1 = q + 1
    BY <1>3, <1>8
  <2>5. Nest(W, q + 1) = Nest(U, q + 1)
    BY <1>3, <1>9, <2>4, NestAlike
  <2>. QED  BY <2>3, <2>4, <2>5
<1>11. Ref!Viable(W)
  <2>1. << >> \in Ref!Fillings /\ Ref!IsValue(Completion(W, << >>, S))
    BY <1>2, <1>8, FillingsAre
  <2>. QED  BY <1>10, <2>1, ViableBy
<1>. QED  BY <1>6, <1>7, <1>11 DEF OneValueTooMany

LEMMA StartsBelow ==
  ASSUME NEW s, NEW w, NEW T, Len(s) \in Nat, Len(w) \in Nat, Len(s) <= Len(w), Starts(s, T), Starts(w, T)
  PROVE  Starts(s, w)
BY DEF Starts

(* The bracket at the end of w is one container too many. *)
LEMMA OneTooDeep ==
  ASSUME NEW s, NEW w, Len(s) \in Nat, Len(w) = Len(s) + 1, Starts(s, w),
         NEW S, Nest(s, Len(s) + 1) = Len(S), Len(S) \in Nat, Len(S) + 1 > Limit("depth"),
         Len(s) + 1 \in Ref!Opens(w)
  PROVE  ~WithinCounts(w)
<1>2. Nest(w, Len(s) + 1) = Len(S)
  <2>1. Len(s) + 1 \in 1..(Len(s) + 1) /\ Len(w) \in Nat
    OBVIOUS
  <2>. QED  BY <2>1, NestAlike
<1>3. ~(Nest(w, Len(s) + 1) + 1 <= Limit("depth"))
  BY <1>2, Limits
<1>. QED  BY <1>3, WithinCountsIs

(* The list that is open holds one item more than it may. *)
LEMMA OneItemTooMany ==
  ASSUME NEW T, NEW s \in Seq(Bits), Starts(s, T), NEW S, Len(S) \in Nat \ {0}, NEW v,
         Steers(T, "append", S, Len(s) + 1, v), S[Len(S)].kind \in {"object", "array"},
         Len(S[Len(S)].items) \in Nat, ~(Len(S[Len(S)].items) < CountLimit(S[Len(S)].kind))
  PROVE  ~WithinCounts(s)
<1> DEFINE q == Len(s) + 1
           d == Len(S)
<1>0. MayStand("append", S) /\ Len(S) \in Nat /\ d \in 1..Len(S)
  BY DEF MayStand, Back
<1>1. PICK U : U = Completion(s, Due("append"), S)
  OBVIOUS
<1>2. Ref!IsValue(U) /\ Recorded(U, S, "append", q, v)
  BY <1>0, <1>1, SteeredCompletion
<1>3. Len(U) \in Nat /\ Len(s) \in Nat /\ Starts(s, U)
  BY <1>0, <1>1, SameCompletion
<1>4. PICK O : Places(U, S, O, q) /\ Held(U, S, O, "append", q)
  BY <1>2 DEF Recorded
<1>5. O[d] \in 1..Len(s) /\ U[O[d]].kind = Ref!OpenOf(Sym(S[d]))
  <2>1. O \in [1..Len(S) -> 1..(q - 1)] /\ U[O[d]].kind = Ref!OpenOf(Sym(S[d]))
    BY <1>0, <1>4 DEF Places
  <2>. QED  BY <1>0, <1>3, <2>1
<1>6. s[O[d]].kind = Ref!OpenOf(Sym(S[d])) /\ O[d] \in Ref!Opens(s)
  <2>1. s[O[d]] = U[O[d]]
    BY <1>3, <1>5, StartsIs
  <2>2. s[O[d]].kind = Ref!OpenOf(Sym(S[d]))
    BY <1>5, <2>1
  <2>3. s[O[d]].kind \in {"{", "["}
    BY <2>2 DEF Ref!OpenOf
  <2>. QED  BY <1>5, <2>2, <2>3 DEF Ref!Opens
<1>7. Cnt(Ref!ItemsOf(U, O[d]), q) = Len(S[d].items) + 1
  BY <1>0, <1>4 DEF Held
<1>8. Cnt(Ref!ItemsOf(U, O[d]), q) <= Cardinality(Ref!ItemsOf(s, O[d]))
      /\ Cardinality(Ref!ItemsOf(s, O[d])) \in Nat
  <2>1. Ref!ItemsOf(U, O[d]) \cap (1..Len(s)) \subseteq Ref!ItemsOf(s, O[d])
    BY <1>3, <1>5, ItemsAlike
  <2>2. Ref!ItemsOf(U, O[d]) \cap (1..(q - 1)) \subseteq Ref!ItemsOf(s, O[d])
    BY <1>3, <2>1
  <2>3. IsFiniteSet(Ref!ItemsOf(s, O[d]))
    BY <1>3, ItemsFinite
  <2>. QED  BY <2>2, <2>3, FS_Subset, FS_CardinalityType DEF Cnt
<1>9. CountLimit(S[d].kind) \in Nat
  BY Limits DEF CountLimit
<1>10. ~(Cardinality(Ref!ItemsOf(s, O[d])) <= CountLimit(S[d].kind))
  BY <1>7, <1>8, <1>9
<1>11. ~Few(s, O[d])
  BY <1>6, <1>10, FewIs
<1>. QED  BY <1>6, <1>11, WithinCountsIs

(* No continuation of what ends in a lexeme that fits nothing is a value.  *)
LEMMA NoneFits ==
  ASSUME NEW T, NEW w \in Seq(Bits), Starts(w, T), NEW q \in Nat \ {0}, Len(w) = q,
         NEW S, NEW c, NEW v, Steers(T, c, S, q, v),
         \A U : Len(U) \in Nat /\ q \in 1..Len(U) /\ U[q] = w[q] => ~Fits(U, c, S, q),
         Len(T) \in Nat
  PROVE  ~Ref!Viable(w)
<1> SUFFICES ASSUME Ref!Viable(w) PROVE FALSE
  OBVIOUS
<1>1. PICK U : Len(U) \in Nat /\ Starts(w, U) /\ Ref!IsValue(U)
  BY ViableIs
<1>2. /\ q \in 1..Len(U) /\ q \in 1..(Len(U) + 1) /\ q \in 1..Len(T)
      /\ \A k \in 1..q : U[k] = w[k] /\ T[k] = w[k]
  BY <1>1 DEF Starts
<1>3. U[q] = w[q] /\ T[q] = w[q] /\ \A k \in 1..(q - 1) : U[k] = T[k]
  BY <1>2
<1>4. SameSoFar(T, U, c, q)
  BY <1>1, <1>2, <1>3 DEF SameSoFar
<1>5. Fits(U, c, S, q)
  BY <1>1, <1>4 DEF Steers, Tracks
<1>. QED  BY <1>1, <1>2, <1>3, <1>5

LEMMA ColonAppended ==
  ASSUME NEW w \in Seq(Bits), NEW W, W = Append(w, Ref!Lex(":"))
  PROVE  /\ W \in Seq(Bits) /\ Len(W) = Len(w) + 1 /\ W[Len(w) + 1] = Ref!Lex(":")
         /\ \A k \in 1..Len(w) : W[k] = w[k]
<1> DEFINE a == Ref!Lex(":")
<1>1. a \in Bits
  <2>1. ":" \in LexKind
    BY DEF LexKind, Punctuation
  <2>. QED  BY <2>1, LexIs
<1>2. W = Append(w, a)
  OBVIOUS
<1> HIDE DEF a
<1>3. /\ W \in Seq(Bits) /\ Len(W) = Len(w) + 1 /\ W[Len(w) + 1] = a
      /\ \A k \in 1..Len(w) : W[k] = w[k]
  BY <1>1, <1>2, AppendProperties
<1>. QED  BY <1>3 DEF a

LEMMA PairCompleted ==
  ASSUME NEW s \in Seq(Bits), NEW S, Len(S) \in Nat, NEW U, U = Completion(s, Pair, S)
  PROVE  /\ Len(U) \in Nat /\ Len(U) = Len(s) + 2 + Len(S) /\ Starts(s, U)
         /\ U[Len(s) + 1] = Ref!Lex(":") /\ U[Len(s) + 2] = Ref!Lex("num")
         /\ EndsAll(U, Len(s) + 3, S)
<1> DEFINE x == Due("colon")
<1>0. x = Pair
  BY DEF Due
<1>1. x \in Seq(Bits) /\ U = Completion(s, x, S)
  BY <1>0, DueIs
<1>2. Len(x) = 2 /\ x[1] = Ref!Lex(":") /\ x[2] = Ref!Lex("num")
  BY <1>0, FillingsAre
<1> HIDE DEF x
<1>3. /\ Len(s) \in Nat /\ Len(U) = Len(s) + Len(x) + Len(S) /\ Len(U) \in Nat /\ Starts(s, U)
      /\ \A k \in 1..Len(x) : U[Len(s) + k] = x[k]
      /\ EndsAll(U, Len(s) + Len(x) + 1, S)
  BY <1>1, CompletedIs
<1>4. 1 \in 1..Len(x) /\ 2 \in 1..Len(x) /\ Len(s) + Len(x) + 1 = Len(s) + 3
  BY <1>2, <1>3
<1>. QED  BY <1>2, <1>3, <1>4

(* The name at the end of w is a key that its object has already.          *)
LEMMA OneKeyTwice ==
  ASSUME NEW T, Len(T) \in Nat, NEW w \in Seq(Bits), Starts(w, T), NEW q \in Nat \ {0}, Len(w) = q,
         NEW S, Len(S) \in Nat \ {0}, NEW v, Steers(T, "key", S, q, v),
         S[Len(S)].kind = "object", Ref!IsName(w[q]), w[q].text \in S[Len(S)].seen
  PROVE  \E j \in Ref!Opens(w) : Braced(w, j) /\ ~Ref!DistinctIn(Append(w, Ref!Lex(":")), j)
<1> DEFINE d == Len(S)
<1>0. d \in 1..Len(S) /\ Len(S) \in Nat /\ Sym(S[d]) = "members"
  BY DEF Sym
<1>1. PICK U : U = Completion(w, Pair, S)
  OBVIOUS
<1>2. /\ Len(U) \in Nat /\ Len(U) = q + 2 + Len(S) /\ Starts(w, U)
      /\ U[q + 1] = Ref!Lex(":") /\ U[q + 2] = Ref!Lex("num") /\ EndsAll(U, q + 3, S)
  BY <1>0, <1>1, PairCompleted
<1>3. /\ q \in 1..Len(U) /\ q + 1 \in 1..Len(U) /\ q + 2 \in 1..Len(U)
      /\ U[q] = w[q] /\ T[q] = w[q] /\ \A k \in 1..(q - 1) : U[k] = T[k]
      /\ \A k \in 1..q : U[k] = w[k]
  <2>1. \A k \in 1..q : U[k] = w[k] /\ T[k] = w[k]
    BY <1>2 DEF Starts
  <2>. QED  BY <1>0, <1>2, <2>1
<1>4. Ref!IsName(U[q]) /\ U[q + 1].kind = ":"
  BY <1>2, <1>3, LexIs
<1>5. SameSoFar(T, U, "key", q)
  <2>1. U[q].kind = "str"
    BY <1>4 DEF Ref!IsName
  <2>2. q \notin Ref!Closes(U)
    BY <2>1 DEF Ref!Closes
  <2>3. q \in 1..(Len(U) + 1)
    BY <1>2, <1>3
  <2>. QED  BY <1>2, <1>3, <2>2, <2>3 DEF SameSoFar
<1>6. Fits(U, "key", S, q)
  <2>1. (q + 1) + 1 \in 1..Len(U) /\ U[(q + 1) + 1] = Ref!Lex("num") /\ EndsAll(U, ((q + 1) + 1) + 1, S)
    <3>1. (q + 1) + 1 = q + 2 /\ ((q + 1) + 1) + 1 = q + 3
      OBVIOUS
    <3>. QED  BY <1>2, <1>3, <3>1
  <2>. QED  BY <1>0, <1>2, <1>3, <1>4, <2>1, FitsMember
<1>7. Recorded(U, S, "key", q, v)
  BY <1>5, <1>6 DEF Steers, Tracks
<1>8. PICK O : Places(U, S, O, q) /\ Seen(U, S, O, q)
  BY <1>7 DEF Recorded
<1>9. O[d] \in 1..(q - 1) /\ O[d] \in 1..q /\ U[O[d]].kind = Ref!OpenOf(Sym(S[d]))
  <2>1. O \in [1..Len(S) -> 1..(q - 1)] /\ U[O[d]].kind = Ref!OpenOf(Sym(S[d]))
    BY <1>0, <1>8 DEF Places
  <2>. QED  BY <1>0, <2>1
<1>10. O[d] \in Ref!Opens(w) /\ Braced(w, O[d])
  <2>1. w[O[d]] = U[O[d]] /\ Braced(U, O[d])
    <3>1. w[O[d]] = U[O[d]]
      BY <1>3, <1>9
    <3>2. S[d].kind = "object"
      OBVIOUS
    <3>. QED  BY <1>9, <3>1, <3>2, ObjectIs
  <2>2. w[O[d]].kind = "{"
    BY <2>1 DEF Braced
  <2>. QED  BY <1>9, <2>2 DEF Ref!Opens, Braced
<1>11. PICK j \in KeysIn(U, O[d], q) : U[j].text = w[q].text
  BY <1>0, <1>8 DEF Seen
<1>12. j \in Ref!KeysOf(U, O[d]) /\ j \in 1..(q - 1)
  BY <1>11 DEF KeysIn
<1>13. q \in Ref!KeysOf(U, O[d])
  <2>1. q < Len(U) /\ U[q].kind = "str"
    BY <1>2, <1>4 DEF Ref!IsName
  <2>2. Ref!IsKey(U, q)
    BY <1>4, <2>1 DEF Ref!IsKey
  <2>. QED  BY <1>0, <1>2, <1>3, <1>8, <2>2, InContainer
<1>14. PICK W : W = Append(w, Ref!Lex(":"))
  OBVIOUS
<1>15. /\ Len(W) = q + 1 /\ W[q + 1] = U[q + 1] /\ \A k \in 1..q : W[k] = w[k]
  BY <1>2, <1>14, ColonAppended
<1>16. Starts(W, U) /\ Len(W) \in Nat
  <2>1. Len(W) <= Len(U) /\ Len(W) \in Nat
    BY <1>0, <1>2, <1>15
  <2>2. ASSUME NEW k \in 1..Len(W) PROVE U[k] = W[k]
    <3>1. k \in 1..q \/ k = q + 1
      BY <1>15
    <3>. QED  BY <1>2, <1>15, <3>1, StartsIs
  <2>. QED  BY <2>1, <2>2 DEF Starts
<1>17. j \in Ref!KeysOf(W, O[d]) /\ q \in Ref!KeysOf(W, O[d])
  <2>1. j \in 1..Len(W) /\ j # Len(W) /\ q \in 1..Len(W) /\ q # Len(W) /\ O[d] \in 1..Len(W)
    BY <1>9, <1>12, <1>15
  <2>. QED  BY <1>2, <1>12, <1>13, <1>16, <2>1, KeysAlike
<1>18. W[j].text = W[q].text /\ j # q
  <2>1. j \in 1..q /\ q \in 1..q /\ j # q
    BY <1>12
  <2>2. U[j] = w[j]
    BY <1>2, <2>1, StartsIs
  <2>. QED  BY <1>11, <1>15, <2>1, <2>2
<1>19. ~Ref!DistinctIn(W, O[d])
  BY <1>17, <1>18 DEF Ref!DistinctIn
<1>. QED  BY <1>10, <1>14, <1>19

-----------------------------------------------------------------------------
(* What is known of the text before an error, and up to it. *)
LEMMA LexemesAreBits == \A s \in Seq(Lexeme) : s \in Seq(Bits)
<1>1. Lexeme \subseteq Bits
  BY DEF Bits
<1> SUFFICES ASSUME NEW s \in Seq(Lexeme) PROVE s \in Seq(Bits)
  OBVIOUS
<1>. QED  BY <1>1, SeqMonotonic

LEMMA Stands ==
  ASSUME IInv, Exact, Running
  PROVE  MayStand(pc, stack) /\ \A m \in 1..Len(stack) : stack[m].kind \in {"object", "array"}
<1>1. pc \in Control \ {"start", "done"}
  BY DEF IInv, TypeOK, Running, Control
<1>2. pc \in {"open", "key"} => Len(stack) # 0
  <2>1. pc \in {"open", "key"} => pc \in InLoop
    BY DEF InLoop
  <2>. QED  BY <2>1, TopIs
<1>3. pc = "key" => Sym(stack[Len(stack)]) = "members"
  <2>1. pc = "key" => pc \in InLoop
    BY DEF InLoop
  <2>2. pc = "key" => stack[Len(stack)].kind = "object"
    BY <2>1, TopIs
  <2>. QED  BY <2>2 DEF Sym
<1>4. pc \in {"value", "open", "key", "colon"} \cup Back
  BY <1>1 DEF Control, Back
<1>5. \A m \in 1..Len(stack) : stack[m].kind \in {"object", "array"}
  BY FrameIs
<1>. QED  BY <1>2, <1>3, <1>4, <1>5 DEF MayStand

LEMMA BeforeIs ==
  ASSUME IInv, Exact, Running, NEW i \in 1..End, At(i) = At(pos), NEW s, s = Prefix(i - 1)
  PROVE  /\ s \in Seq(Bits) /\ Starts(s, Text) /\ Len(s) \in Nat /\ Len(s) + 1 = Here
         /\ Flawless(s) /\ Nest(s, Len(s) + 1) = Len(stack)
<1>1. input \in Seq(Lexeme)
  BY DEF IInv, TypeOK
<1>2. s \in Seq(Lexeme) /\ Len(s) \in Nat /\ Len(s) = At(i) /\ Starts(s, Text)
  BY <1>1, PrefixIs
<1>3. s \in Seq(Bits) /\ Len(s) + 1 = Here
  BY <1>2, LexemesAreBits DEF Here
<1>4. Len(stack) \in Nat /\ Steers(Text, pc, stack, Len(s) + 1, valueCount)
  BY <1>3, RunningIs
<1>. QED  BY <1>2, <1>3, <1>4, Stands, FlawlessSoFar

LEMMA UptoIs ==
  ASSUME IInv, Exact, Running, NEW i \in 1..End, At(i) = At(pos), i < End, input[i].kind # "ws",
         NEW s, s = Prefix(i - 1), NEW w, w = Prefix(i)
  PROVE  /\ w \in Seq(Bits) /\ Starts(w, Text) /\ Len(w) = Here /\ Here \in Nat \ {0}
         /\ Len(w) = Len(s) + 1 /\ Starts(s, w)
         /\ Here \in 1..Len(Text) /\ Text[Here] = input[i] /\ w[Here] = input[i]
<1>1. input \in Seq(Lexeme) /\ Len(input) \in Nat /\ i \in 1..Len(input) /\ i + 1 \in 1..End
      /\ (i + 1) - 1 = i
  BY LenProperties DEF IInv, TypeOK, End
<1>2. At(i + 1) = At(i) + 1 /\ At(i) + 1 \in 1..Len(Text) /\ Text[At(i) + 1] = input[i]
  BY <1>1, TokensAre
<1>3. w \in Seq(Lexeme) /\ Len(w) = At(i) + 1 /\ Starts(w, Text) /\ Len(w) \in Nat
  <2>1. /\ Prefix((i + 1) - 1) \in Seq(Lexeme) /\ Len(Prefix((i + 1) - 1)) = At(i + 1)
        /\ Starts(Prefix((i + 1) - 1), Text) /\ Len(Prefix((i + 1) - 1)) \in Nat
    BY <1>1, PrefixIs
  <2>. QED  BY <1>1, <1>2, <2>1
<1>4. At(i) + 1 = Here
  BY DEF Here
<1>5. /\ Starts(s, Text) /\ Len(s) \in Nat /\ Len(s) + 1 = Here
  BY BeforeIs
<1>6. Here \in Nat \ {0} /\ Here \in 1..Len(w)
  BY <1>3, <1>4, <1>5
<1>7. w[Here] = Text[Here]
  BY <1>6, <1>3 DEF Starts
<1>8. Starts(s, w)
  BY <1>3, <1>4, <1>5, StartsBelow
<1>. QED  BY <1>2, <1>3, <1>4, <1>5, <1>6, <1>7, <1>8, LexemesAreBits

LEMMA DefectIs ==
  ASSUME IInv, Exact, Running, NEW i \in 1..End, At(i) = At(pos), NEW class,
         \/ i < End /\ input[i].fail = class
         \/ /\ class = "BoundExceeded"
            /\ ~WithinCounts(Prefix(i - 1)) \/ OneValueTooMany(Prefix(i - 1))
         \/ class = "BoundExceeded" /\ i < End /\ ~WithinCounts(Prefix(i))
         \/ /\ class = "DuplicateKey" /\ i < End
            /\ \E j \in Ref!Opens(Prefix(i)) :
                 Braced(Prefix(i), j) /\ ~Ref!DistinctIn(Append(Prefix(i), Ref!Lex(":")), j)
         \/ class = "InvalidGrammar" /\ (i = End \/ (i < End /\ ~Ref!Viable(Prefix(i))))
  PROVE  DefectAt(class, i)
<1>1. Flawless(Prefix(i - 1))
  BY BeforeIs
<1>. QED  BY <1>1 DEF DefectAt, Braced

LEMMA DefectSame ==
  ASSUME UNCHANGED input, NEW class, NEW i, DefectAt(class, i)
  PROVE  DefectAt(class, i)'
<1>1. End' = End /\ input' = input
  BY TextSame
<1>2. \A k : Prefix(k)' = Prefix(k)
  BY <1>1 DEF Prefix
<1>. QED  BY <1>1, <1>2 DEF DefectAt

(* An error that reports a defect is the first one. *)
LEMMA RejectFirst ==
  ASSUME NEW class, NEW i, NEW byte, NEW d, RejectAt(class, i, byte, d), DefectAt(class, i)
  PROVE  FirstError'
<1>1. UNCHANGED input /\ verdict'.class = class /\ verdict'.lex = i
  BY DEF RejectAt
<1>2. DefectAt(class, i)'
  BY <1>1, DefectSame
<1>3. DefectAt(verdict.class, verdict.lex)'
  BY <1>1, <1>2
<1>. QED  BY <1>3 DEF FirstError

LEMMA RunsOn == pc' # "done" \/ verdict'.class = None => FirstError'
BY DEF FirstError

(* What stands at pos, for the pieces of the descent that look at it. *)
LEMMA LooksAt ==
  ASSUME IInv, Exact, OnLexeme(pc)
  PROVE  /\ Running /\ pos \in 1..End /\ At(pos) = At(pos)
         /\ pos < End => input[pos].kind # "ws" /\ Peek = input[pos].kind
         /\ Peek = None => pos = End
         /\ Peek # None => pos < End
<1>1. Running /\ (pos < End => input[pos].kind # "ws")
  BY SeesNext DEF Exact
<1>2. pos \in 1..End
  BY DEF IInv, TypeOK
<1>3. pos < End => Peek = input[pos].kind /\ Peek # None
  <2>1. pos < End => Peek # None
    BY <1>1, Looks
  <2>. QED  BY <2>1 DEF Peek
<1>4. ~(pos < End) => pos = End /\ Peek = None
  BY AtEnd
<1>. QED  BY <1>1, <1>2, <1>3, <1>4

LEMMA GrammarAt ==
  ASSUME IInv, Exact, Running, NEW i \in 1..End, At(i) = At(pos), i < End => input[i].kind # "ws",
         i < End => \A U : Len(U) \in Nat /\ Here \in 1..Len(U) /\ U[Here] = input[i]
                             => ~Fits(U, pc, stack, Here)
  PROVE  DefectAt("InvalidGrammar", i)
<1>1. CASE i < End
  <2>1. PICK s : s = Prefix(i - 1)
    OBVIOUS
  <2>2. PICK w : w = Prefix(i)
    OBVIOUS
  <2>3. /\ w \in Seq(Bits) /\ Starts(w, Text) /\ Len(w) = Here /\ Here \in Nat \ {0}
        /\ w[Here] = input[i]
    BY <1>1, <2>1, <2>2, UptoIs
  <2>4. Len(Text) \in Nat /\ Steers(Text, pc, stack, Here, valueCount)
    BY RunningIs
  <2>5. \A U : Len(U) \in Nat /\ Here \in 1..Len(U) /\ U[Here] = w[Here] => ~Fits(U, pc, stack, Here)
    BY <1>1, <2>3
  <2>6. ~Ref!Viable(w)
    BY <2>3, <2>4, <2>5, NoneFits
  <2>. QED  BY <1>1, <2>2, <2>6, DefectIs
<1>2. CASE ~(i < End)
  <2>1. i = End
    <3>1. input \in Seq(Lexeme)
      BY DEF IInv, TypeOK
    <3>2. End \in Nat
      BY <3>1, TokensAre
    <3>. QED  BY <1>2, <3>2
  <2>. QED  BY <2>1, DefectIs
<1>. QED  BY <1>1, <1>2

(* The errors of the descent, each the first one. *)
LEMMA ValueOverFirst == IInv /\ Exact /\ ValueOverLimit => FirstError'
<1>. SUFFICES ASSUME IInv, Exact, ValueOverLimit PROVE FirstError'  OBVIOUS
<1>1. pc = "value" /\ ~WithinValues /\ RejectAt("BoundExceeded", pos, 0, depth)
  BY DEF ValueOverLimit, CountValue
<1>2. OnLexeme(pc)
  BY <1>1 DEF OnLexeme
<1>3. Running /\ pos \in 1..End
  BY <1>2, LooksAt
<1>4. PICK s : s = Prefix(pos - 1)
  OBVIOUS
<1>5. s \in Seq(Bits) /\ Starts(s, Text) /\ Len(s) + 1 = Here
  BY <1>3, <1>4, BeforeIs
<1>6. /\ Len(stack) \in Nat /\ Steers(Text, "value", stack, Len(s) + 1, valueCount)
      /\ valueCount \in Nat /\ valueCount <= Limit("values")
  BY <1>1, <1>3, <1>5, RunningIs
<1>7. valueCount = Limit("values")
  BY <1>1, <1>6, Limits DEF WithinValues
<1>8. OneValueTooMany(s)
  BY <1>5, <1>6, <1>7, OneTooMany
<1>9. DefectAt("BoundExceeded", pos)
  BY <1>3, <1>4, <1>8, DefectIs
<1>. QED  BY <1>1, <1>9, RejectFirst

LEMMA DepthOverFirst == IInv /\ Exact /\ DepthOverLimit => FirstError'
<1>. SUFFICES ASSUME IInv, Exact, DepthOverLimit PROVE FirstError'  OBVIOUS
<1>1. /\ pc = "value" /\ Peek \in {"{", "["} /\ depth + 1 > Limit("depth")
      /\ RejectAt("BoundExceeded", pos, 0, depth + 1)
  BY DEF DepthOverLimit, CountValue
<1>2. OnLexeme(pc) /\ Peek # None
  BY <1>1 DEF OnLexeme, None
<1>3. Running /\ pos \in 1..End /\ pos < End /\ input[pos].kind # "ws" /\ Peek = input[pos].kind
  BY <1>2, LooksAt
<1>4. PICK s : s = Prefix(pos - 1)
  OBVIOUS
<1>5. PICK w : w = Prefix(pos)
  OBVIOUS
<1>6. Len(s) \in Nat /\ Len(s) + 1 = Here /\ Nest(s, Len(s) + 1) = Len(stack)
  BY <1>3, <1>4, BeforeIs
<1>7. Len(w) = Len(s) + 1 /\ Starts(s, w) /\ Here \in Nat /\ Len(w) = Here /\ w[Here] = input[pos]
  BY <1>3, <1>4, <1>5, UptoIs
<1>8. Len(s) + 1 \in Ref!Opens(w)
  <2>1. Here \in 1..Len(w)
    BY <1>6, <1>7
  <2>2. w[Here].kind \in {"{", "["}
    BY <1>1, <1>3, <1>7
  <2>3. Here \in Ref!Opens(w)
    BY <2>1, <2>2 DEF Ref!Opens
  <2>. QED  BY <1>6, <2>3
<1>9. Len(stack) \in Nat /\ Len(stack) + 1 > Limit("depth")
  BY <1>1, <1>3, RunningIs
<1>10. ~WithinCounts(w)
  BY <1>6, <1>7, <1>8, <1>9, OneTooDeep
<1>11. DefectAt("BoundExceeded", pos)
  BY <1>3, <1>5, <1>10, DefectIs
<1>. QED  BY <1>1, <1>11, RejectFirst

LEMMA ScannerFirst ==
  ASSUME IInv, Exact, OnLexeme(pc), Peek # None, NEW byte, NEW d,
         RejectAt(input[pos].fail, pos, byte, d)
  PROVE  FirstError'
<1>1. Running /\ pos \in 1..End /\ pos < End
  BY LooksAt
<1>2. DefectAt(input[pos].fail, pos)
  BY <1>1, DefectIs
<1>. QED  BY <1>2, RejectFirst

LEMMA NoValueFirst == IInv /\ Exact /\ NoValue => FirstError'
<1>. SUFFICES ASSUME IInv, Exact, NoValue PROVE FirstError'  OBVIOUS
<1>1. /\ pc = "value" /\ Peek \notin Scalars \cup {"{", "["}
      /\ RejectAt("InvalidGrammar", pos, 0, depth)
  BY DEF NoValue, CountValue, Scalars
<1>2. OnLexeme(pc)
  BY <1>1 DEF OnLexeme
<1>3. /\ Running /\ pos \in 1..End
      /\ pos < End => input[pos].kind # "ws" /\ Peek = input[pos].kind
  BY <1>2, LooksAt
<1>4. ASSUME pos < End, NEW U, Len(U) \in Nat, Here \in 1..Len(U), U[Here] = input[pos]
      PROVE  ~Fits(U, pc, stack, Here)
  <2>1. U[Here].kind \notin Scalars \cup {"{", "["}
    BY <1>1, <1>3, <1>4
  <2>. QED  BY <1>1, <1>4, <2>1, FitsNoValue
<1>5. DefectAt("InvalidGrammar", pos)
  BY <1>3, <1>4, GrammarAt
<1>. QED  BY <1>1, <1>5, RejectFirst

LEMMA ParseValueFirst == IInv /\ Exact /\ ParseValue => FirstError'
<1>. SUFFICES ASSUME IInv, Exact, ParseValue PROVE FirstError'  OBVIOUS
<1>1. CASE ScalarError
  <2>1. /\ pc = "value" /\ Peek \in Scalars
        /\ RejectAt(input[pos].fail, pos, input[pos].at, depth)
    BY <1>1 DEF ScalarError, CountValue, Scalars
  <2>2. OnLexeme(pc) /\ Peek # None
    BY <2>1 DEF OnLexeme, Scalars, None
  <2>. QED  BY <2>1, <2>2, ScannerFirst
<1>2. CASE OpenContainer
  <2>1. pc' # "done"
    BY <1>2 DEF OpenContainer
  <2>. QED  BY <2>1, RunsOn
<1>3. CASE Scalar
  <2>1. pc' # "done"
    BY <1>3 DEF Scalar, ReturnTo
  <2>. QED  BY <2>1, RunsOn
<1>. QED  BY <1>1, <1>2, <1>3, ValueOverFirst, DepthOverFirst, NoValueFirst DEF ParseValue

LEMMA AtEndFirst == IInv /\ Exact /\ OpenAtEnd => FirstError'
<1>. SUFFICES ASSUME IInv, Exact, OpenAtEnd PROVE FirstError'  OBVIOUS
<1>1. pc = "open" /\ Peek = None /\ RejectAt("InvalidGrammar", pos, 0, depth)
  BY DEF OpenAtEnd, Reject
<1>2. OnLexeme(pc)
  BY <1>1 DEF OnLexeme
<1>3. Running /\ pos \in 1..End /\ pos = End
  BY <1>1, <1>2, LooksAt
<1>4. DefectAt("InvalidGrammar", pos)
  BY <1>3, DefectIs
<1>. QED  BY <1>1, <1>4, RejectFirst

LEMMA OpenStepFirst == IInv /\ Exact /\ OpenStep => FirstError'
<1>. SUFFICES ASSUME IInv, Exact, OpenStep PROVE FirstError'  OBVIOUS
<1>1. CASE CloseEmpty
  <2>1. pc' # "done"
    BY <1>1 DEF CloseEmpty, CloseFrame, ReturnTo
  <2>. QED  BY <2>1, RunsOn
<1>2. CASE EnterLoop
  <2>1. pc' # "done"
    BY <1>2 DEF EnterLoop
  <2>. QED  BY <2>1, RunsOn
<1>. QED  BY <1>1, <1>2, AtEndFirst DEF OpenStep

LEMMA DuplicateFirst == IInv /\ Exact /\ DuplicateKeyError => FirstError'
<1>. SUFFICES ASSUME IInv, Exact, DuplicateKeyError PROVE FirstError'  OBVIOUS
<1>1. /\ pc = "key" /\ Peek = "str" /\ input[pos].fail = None /\ input[pos].text \in Top.seen
      /\ RejectAt("DuplicateKey", pos, 0, depth)
  BY DEF DuplicateKeyError, Duplicate, Reject
<1>2. OnLexeme(pc) /\ Peek # None /\ pc \in InLoop
  BY <1>1 DEF OnLexeme, None, InLoop
<1>3. Running /\ pos \in 1..End /\ pos < End /\ input[pos].kind # "ws" /\ Peek = input[pos].kind
  BY <1>2, LooksAt
<1>4. PICK s : s = Prefix(pos - 1)
  OBVIOUS
<1>5. PICK w : w = Prefix(pos)
  OBVIOUS
<1>6. /\ w \in Seq(Bits) /\ Starts(w, Text) /\ Len(w) = Here /\ Here \in Nat \ {0}
      /\ w[Here] = input[pos]
  BY <1>3, <1>4, <1>5, UptoIs
<1>7. /\ Len(stack) \in Nat \ {0} /\ stack[Len(stack)].kind = "object"
      /\ w[Here].text \in stack[Len(stack)].seen
  BY <1>1, <1>2, <1>6, TopIs
<1>8. Ref!IsName(w[Here])
  BY <1>1, <1>3, <1>6 DEF Ref!IsName, Ref!None, None
<1>9. Len(Text) \in Nat /\ Steers(Text, "key", stack, Here, valueCount)
  BY <1>1, <1>3, RunningIs
<1>10. \E j \in Ref!Opens(w) : Braced(w, j) /\ ~Ref!DistinctIn(Append(w, Ref!Lex(":")), j)
  BY <1>6, <1>7, <1>8, <1>9, OneKeyTwice
<1>11. DefectAt("DuplicateKey", pos)
  BY <1>3, <1>5, <1>10, DefectIs
<1>. QED  BY <1>1, <1>11, RejectFirst

LEMMA NoKeyFirst == IInv /\ Exact /\ NoKeyError => FirstError'
<1>. SUFFICES ASSUME IInv, Exact, NoKeyError PROVE FirstError'  OBVIOUS
<1>1. /\ pc = "key" /\ Peek # "str"
      /\ RejectAt("InvalidGrammar", pos, IF Peek = None THEN 0 ELSE 1, depth)
  BY DEF NoKeyError, ExpectFails, Reject
<1>2. OnLexeme(pc) /\ pc \in InLoop
  BY <1>1 DEF OnLexeme, InLoop
<1>3. /\ Running /\ pos \in 1..End
      /\ pos < End => input[pos].kind # "ws" /\ Peek = input[pos].kind
  BY <1>2, LooksAt
<1>4. Len(stack) # 0 /\ Sym(stack[Len(stack)]) = "members" /\ Here \in Nat \ {0}
  <2>1. Len(stack) \in Nat \ {0} /\ stack[Len(stack)].kind = "object"
    BY <1>1, <1>2, TopIs
  <2>. QED  BY <1>3, <2>1, RunningIs DEF Sym
<1>5. ASSUME pos < End, NEW U, Len(U) \in Nat, Here \in 1..Len(U), U[Here] = input[pos]
      PROVE  ~Fits(U, pc, stack, Here)
  <2>1. ~Ref!IsName(U[Here])
    BY <1>1, <1>3, <1>5 DEF Ref!IsName
  <2>. QED  BY <1>1, <1>4, <1>5, <2>1, FitsKey
<1>6. DefectAt("InvalidGrammar", pos)
  BY <1>3, <1>5, GrammarAt
<1>. QED  BY <1>1, <1>6, RejectFirst

LEMMA NoColonFirst == IInv /\ Exact /\ NoColonError => FirstError'
<1>. SUFFICES ASSUME IInv, Exact, NoColonError PROVE FirstError'  OBVIOUS
<1>1. /\ pc = "colon" /\ Peek # ":"
      /\ RejectAt("InvalidGrammar", pos, IF Peek = None THEN 0 ELSE 1, depth)
  BY DEF NoColonError, ExpectFails, Reject
<1>2. OnLexeme(pc)
  BY <1>1 DEF OnLexeme
<1>3. /\ Running /\ pos \in 1..End
      /\ pos < End => input[pos].kind # "ws" /\ Peek = input[pos].kind
  BY <1>2, LooksAt
<1>4. ASSUME pos < End, NEW U, Len(U) \in Nat, Here \in 1..Len(U), U[Here] = input[pos]
      PROVE  ~Fits(U, pc, stack, Here)
  <2>1. U[Here].kind # ":"
    BY <1>1, <1>3, <1>4
  <2>. QED  BY <1>1, <1>4, <2>1, FitsColon
<1>5. DefectAt("InvalidGrammar", pos)
  BY <1>3, <1>4, GrammarAt
<1>. QED  BY <1>1, <1>5, RejectFirst

LEMMA MemberKeyFirst == IInv /\ Exact /\ MemberKey => FirstError'
<1>. SUFFICES ASSUME IInv, Exact, MemberKey PROVE FirstError'  OBVIOUS
<1>1. CASE KeyError
  <2>1. pc = "key" /\ Peek = "str" /\ RejectAt(input[pos].fail, pos, input[pos].at, depth)
    BY <1>1 DEF KeyError, Reject
  <2>2. OnLexeme(pc) /\ Peek # None
    BY <2>1 DEF OnLexeme, None
  <2>. QED  BY <2>1, <2>2, ScannerFirst
<1>2. CASE Key
  <2>1. pc' # "done"
    BY <1>2 DEF Key
  <2>. QED  BY <2>1, RunsOn
<1>3. CASE Colon
  <2>1. pc' # "done"
    BY <1>3 DEF Colon
  <2>. QED  BY <2>1, RunsOn
<1>. QED  BY <1>1, <1>2, <1>3, DuplicateFirst, NoKeyFirst, NoColonFirst DEF MemberKey

LEMMA CountOverFirst == IInv /\ Exact /\ CountOverLimit => FirstError'
<1>. SUFFICES ASSUME IInv, Exact, CountOverLimit PROVE FirstError'  OBVIOUS
<1>1. pc = "append" /\ ~HasRoom /\ RejectAt("BoundExceeded", pos, 0, depth)
  BY DEF CountOverLimit, Reject
<1>2. pc \in InLoop /\ pos \in 1..End
  BY <1>1 DEF InLoop, IInv, TypeOK
<1>3. /\ Running /\ Len(stack) \in Nat \ {0} /\ stack[Len(stack)].kind \in {"object", "array"}
      /\ Len(stack[Len(stack)].items) \in Nat
      /\ ~(Len(stack[Len(stack)].items) < CountLimit(stack[Len(stack)].kind))
  BY <1>1, <1>2, TopIs DEF HasRoom
<1>4. PICK s : s = Prefix(pos - 1)
  OBVIOUS
<1>5. s \in Seq(Bits) /\ Starts(s, Text) /\ Len(s) + 1 = Here
  BY <1>2, <1>3, <1>4, BeforeIs
<1>6. Steers(Text, "append", stack, Len(s) + 1, valueCount)
  BY <1>1, <1>3, <1>5, RunningIs
<1>7. ~WithinCounts(s)
  BY <1>3, <1>5, <1>6, OneItemTooMany
<1>8. DefectAt("BoundExceeded", pos)
  BY <1>2, <1>3, <1>4, <1>7, DefectIs
<1>. QED  BY <1>1, <1>8, RejectFirst

LEMMA NoNextFirst == IInv /\ Exact /\ NoNextError => FirstError'
<1>. SUFFICES ASSUME IInv, Exact, NoNextError PROVE FirstError'  OBVIOUS
<1>1. pc = "next" /\ Peek # "," /\ Peek # Closing(Top.kind) /\ RejectAt("InvalidGrammar", pos, 0, depth)
  BY DEF NoNextError, Reject
<1>2. OnLexeme(pc) /\ pc \in InLoop
  BY <1>1 DEF OnLexeme, InLoop
<1>3. /\ Running /\ pos \in 1..End
      /\ pos < End => input[pos].kind # "ws" /\ Peek = input[pos].kind
  BY <1>2, LooksAt
<1>4. Len(stack) # 0 /\ Here \in Nat \ {0}
  BY <1>2, <1>3, TopIs, RunningIs
<1> DEFINE sym == Sym(stack[Len(stack)])
<1>5. Closing(Top.kind) = Ref!CloseOf(sym) /\ sym \in Lists
  <2>1. Top = stack[Len(stack)] /\ Top.kind \in {"object", "array"}
    BY <1>2, TopIs
  <2>. QED  BY <2>1, ClosingIs DEF Sym, Lists
<1> HIDE DEF sym
<1>6. ASSUME pos < End, NEW U, Len(U) \in Nat, Here \in 1..Len(U), U[Here] = input[pos]
      PROVE  ~Fits(U, pc, stack, Here)
  <2>1. U[Here].kind \notin {",", Ref!CloseOf(sym)}
    BY <1>1, <1>3, <1>5, <1>6
  <2>. QED  BY <1>1, <1>4, <1>5, <1>6, <2>1, FitsNext DEF sym
<1>7. DefectAt("InvalidGrammar", pos)
  BY <1>3, <1>6, GrammarAt
<1>. QED  BY <1>1, <1>7, RejectFirst

LEMMA LoopStepFirst == IInv /\ Exact /\ LoopStep => FirstError'
<1>. SUFFICES ASSUME IInv, Exact, LoopStep PROVE FirstError'  OBVIOUS
<1>1. CASE AppendItem
  <2>1. pc' # "done"
    BY <1>1 DEF AppendItem
  <2>. QED  BY <2>1, RunsOn
<1>2. CASE NextItem
  <2>1. pc' # "done"
    BY <1>2 DEF NextItem
  <2>. QED  BY <2>1, RunsOn
<1>3. CASE CloseContainer
  <2>1. pc' # "done"
    BY <1>3 DEF CloseContainer, CloseFrame, ReturnTo
  <2>. QED  BY <2>1, RunsOn
<1>. QED  BY <1>1, <1>2, <1>3, CountOverFirst, NoNextFirst DEF LoopStep

LEMMA FinishFirst == IInv /\ Exact /\ Finish => FirstError'
<1>. SUFFICES ASSUME IInv, Exact, Finish PROVE FirstError'  OBVIOUS
<1>1. CASE Accept
  <2>1. verdict' = verdict /\ pc = "trailing"
    BY <1>1 DEF Accept
  <2>2. verdict.class = None
    BY <2>1 DEF Exact
  <2>. QED  BY <2>1, <2>2, RunsOn
<1>2. CASE TrailingContent
  <2>1. PICK j \in pos..(End - 1) : SkipsTo(pos, j) /\ RejectAt("InvalidGrammar", j, 0, depth)
    BY <1>2 DEF TrailingContent
  <2>2. pc = "trailing" /\ Running
    BY <1>2 DEF TrailingContent, Running
  <2>3. input \in Seq(Lexeme) /\ pos \in 1..End /\ End \in Nat /\ stack = << >> /\ Len(stack) = 0
    BY <2>2, TokensAre DEF IInv, TypeOK, KeyPhases
  <2>4. j \in 1..End /\ j \in pos..End /\ j < End
    BY <2>3
  <2>5. At(j) = At(pos) /\ input[j].kind # "ws"
    BY <2>1, <2>3, <2>4, SkippedIs
  <2>6. ASSUME NEW U, Len(U) \in Nat, Here \in 1..Len(U) PROVE ~Fits(U, pc, stack, Here)
    <3>1. Here # Len(U) + 1
      BY <2>6
    <3>. QED  BY <2>2, <2>3, <3>1, FitsTrailing
  <2>7. DefectAt("InvalidGrammar", j)
    BY <2>2, <2>4, <2>5, <2>6, GrammarAt
  <2>. QED  BY <2>1, <2>7, RejectFirst
<1>. QED  BY <1>1, <1>2 DEF Finish

LEMMA StartFirst == IInv /\ Exact /\ Start => FirstError'
<1>. SUFFICES ASSUME IInv, Exact, Start PROVE FirstError'  OBVIOUS
<1>1. CASE StartTooLarge
  <2>1. TooLarge /\ verdict'.class = "BoundExceeded" /\ UNCHANGED input
    BY <1>1 DEF StartTooLarge, RejectAt
  <2>2. TooLarge'
    BY <2>1, TextSame
  <2>. QED  BY <2>1, <2>2 DEF FirstError
<1>2. CASE StartInvalidUTF8
  <2>1. PICK i \in InvalidBytes : FirstInvalid(i) /\ RejectAt("InvalidUTF8", i, 0, depth)
    BY <1>2 DEF StartInvalidUTF8
  <2>2. verdict'.class = "InvalidUTF8" /\ verdict'.lex = i /\ input' = input
    BY <2>1 DEF RejectAt
  <2>3. i \in 1..Len(input) /\ input[i].kind = "utf8" /\ Len(input) \in Nat
    BY LenProperties DEF InvalidBytes, IInv, TypeOK
  <2>4. ~\E k \in 1..(i - 1) : input[k].kind = "utf8"
    <3> SUFFICES ASSUME NEW k \in 1..(i - 1), input[k].kind = "utf8" PROVE FALSE
      OBVIOUS
    <3>1. k \in 1..Len(input) /\ ~(i <= k)
      BY <2>3
    <3>2. k \in InvalidBytes
      BY <3>1 DEF InvalidBytes
    <3>. QED  BY <2>1, <3>1, <3>2 DEF FirstInvalid
  <2>. QED  BY <2>2, <2>3, <2>4 DEF FirstError
<1>3. CASE StartDescent
  <2>1. pc' # "done"
    BY <1>3 DEF StartDescent
  <2>. QED  BY <2>1, RunsOn
<1>. QED  BY <1>1, <1>2, <1>3 DEF Start

LEMMA StutterFirst == FirstError /\ UNCHANGED vars => FirstError'
<1>. SUFFICES ASSUME FirstError, UNCHANGED vars PROVE FirstError'  OBVIOUS
<1>1. UNCHANGED <<input, pc, verdict>>
  BY DEF vars
<1>2. TooLarge' = TooLarge
  BY <1>1, TextSame
<1>3. DefectAt(verdict.class, verdict.lex) => DefectAt(verdict.class, verdict.lex)'
  <2>1. DefectAt(verdict.class, verdict.lex)' <=> DefectAt(verdict.class, verdict.lex)
    <3>1. End' = End /\ input' = input
      BY <1>1, TextSame
    <3>2. \A k : Prefix(k)' = Prefix(k)
      BY <3>1 DEF Prefix
    <3>. QED  BY <1>1, <3>1, <3>2 DEF DefectAt
  <2>. QED  BY <2>1
<1>. QED  BY <1>1, <1>2, <1>3 DEF FirstError

(* Every rejection is at the first error and has its class, whatever the   *)
(* text, the options and the defaults: what precedes the place reported    *)
(* can still go on to a JSON text, nests within the limit and repeats no   *)
(* key, and the defect the class names is there.                           *)
THEOREM FirstErrorIsFirst == Spec => []FirstError
<1>1. Init => Exact /\ FirstError
  <2>1. Init => FirstError
    BY DEF Init, FirstError
  <2>. QED  BY <2>1, InitExact
<1>2. IInv /\ Exact /\ [Next]_vars => Exact'
  BY StartExact, ParseValueExact, OpenStepExact, MemberKeyExact, LoopStepExact, FinishExact,
     StutterExact DEF Next
<1>3. IInv /\ Exact /\ FirstError /\ [Next]_vars => FirstError'
  BY StartFirst, ParseValueFirst, OpenStepFirst, MemberKeyFirst, LoopStepFirst, FinishFirst,
     StutterFirst DEF Next
<1>. QED  BY <1>1, <1>2, <1>3, Invariance, PTL DEF Spec
=============================================================================
