----------------------------- MODULE MaskProofs -----------------------------
(***************************************************************************)
(* The properties of MaskProperties, for any number of shapes, settings,   *)
(* saves in flight and suggestions.                                        *)
(***************************************************************************)
EXTENDS MaskProperties, FiniteSetTheorems, SequenceTheorems, TLAPS

-----------------------------------------------------------------------------
(* Sequences of shapes and the sets they stand for.                        *)

\* A sequence is empty exactly when the set of its elements is.
LEMMA ToSetEmpty ==
    ASSUME NEW S, NEW s \in Seq(S)
    PROVE  /\ ToSet(s) \subseteq S
           /\ ToSet(s) = {} <=> s = <<>>
<1>1. Len(s) \in Nat /\ DOMAIN s = 1 .. Len(s) /\ s \in [1 .. Len(s) -> S]
    BY LenProperties
<1>2. s # <<>> => Len(s) # 0
    BY EmptySeq
<1>3. s # <<>> => s[1] \in ToSet(s)
    BY <1>1, <1>2 DEF ToSet
<1>4. ToSet(s) \subseteq S
    BY <1>1 DEF ToSet
<1>5. ASSUME s = <<>> PROVE ToSet(s) = {}
    <2>1. Len(s) = 0 BY <1>5, EmptySeq
    <2>2. DOMAIN s = {} BY <1>1, <2>1
    <2> QED BY <2>2 DEF ToSet
<1> QED
    BY <1>3, <1>4, <1>5

\* A set of shapes is painted as a sequence of exactly these shapes.
LEMMA SetToSeqSame ==
    ASSUME NEW S \in SUBSET Ids
    PROVE  SetToSeq(S) \in Seq(Ids) /\ ToSet(SetToSeq(S)) = S
<1> DEFINE n == Cardinality(S)
           q == SetToSeq(S)
<1>1. IsFiniteSet(S)
    <2>1. IsFiniteSet(Ids)
        BY FS_Interval, MaskAssumption DEF MaskAssumption, Ids
    <2> QED BY <2>1, FS_Subset
<1>2. n \in Nat /\ ExistsBijection(1 .. n, S)
    BY <1>1, FS_CardinalityType
<1>3. PICK f \in [1 .. n -> S] : IsInjective(f)
    BY <1>2 DEF ExistsBijection, Bijection, Injection
<1>4. q \in [1 .. n -> S] /\ IsInjective(q)
    BY <1>3 DEF SetToSeq
<1>5. q \in Injection(1 .. n, S)
    BY <1>4 DEF Injection
<1>6. Cardinality(1 .. n) = n
    BY <1>2, FS_Interval
<1>7. q \in Surjection(1 .. n, S)
    BY <1>1, <1>5, <1>6, FS_Injection
<1>8. \A x \in S : \E i \in 1 .. n : q[i] = x
    <2> HIDE DEF n, q
    <2> QED BY <1>7 DEF Surjection
<1>9. DOMAIN q = 1 .. n /\ \A i \in 1 .. n : q[i] \in S
    BY <1>4
<1>10. ToSet(q) = S
    BY <1>8, <1>9 DEF ToSet
<1>11. q \in Seq(Ids)
    BY <1>2, <1>4
<1> QED BY <1>10, <1>11

\* Drawing and redoing add a shape.
LEMMA AppendSame ==
    ASSUME NEW S, NEW s \in Seq(S), NEW e \in S
    PROVE  /\ Append(s, e) \in Seq(S) /\ Append(s, e) # <<>>
           /\ ToSet(Append(s, e)) = ToSet(s) \union {e}
<1> DEFINE t == Append(s, e)
<1>1. /\ t \in Seq(S) /\ t # <<>> /\ Len(t) = Len(s) + 1
      /\ \A i \in 1 .. Len(s) : t[i] = s[i]
      /\ t[Len(s) + 1] = e
    BY AppendProperties
<1>2. DOMAIN s = 1 .. Len(s) /\ DOMAIN t = 1 .. Len(s) + 1 /\ Len(s) \in Nat
    BY <1>1, LenProperties
<1>3. 1 .. Len(s) + 1 = (1 .. Len(s)) \union {Len(s) + 1}
    BY <1>2
<1> HIDE DEF t
<1>4. ToSet(t) = ToSet(s) \union {e}
    BY <1>1, <1>2, <1>3 DEF ToSet
<1> QED BY <1>1, <1>4 DEF t

\* Undo takes the last shape away, and nothing else.
LEMMA FrontSame ==
    ASSUME NEW S, NEW s \in Seq(S), s # <<>>
    PROVE  /\ Front(s) \in Seq(S) /\ Last(s) \in S
           /\ ToSet(s) = ToSet(Front(s)) \union {Last(s)}
<1>1. Len(s) \in Nat \ {0} /\ DOMAIN s = 1 .. Len(s) /\ \A i \in 1 .. Len(s) : s[i] \in S
    BY LenProperties, EmptySeq, ElementOfSeq
<1> DEFINE t == SubSeq(s, 1, Len(s) - 1)
<1>2. /\ t \in Seq(S) /\ Len(t) = Len(s) - 1
      /\ \A i \in 1 .. Len(s) - 1 : t[i] = s[i]
    BY <1>1, SubSeqProperties
<1>3. DOMAIN t = 1 .. Len(s) - 1
    BY <1>2, LenProperties
<1>4. 1 .. Len(s) = (1 .. Len(s) - 1) \union {Len(s)}
    BY <1>1
<1>5. t = Front(s)
    BY DEF Front
<1> HIDE DEF t
<1>6. ToSet(s) = ToSet(t) \union {s[Len(s)]}
    BY <1>1, <1>2, <1>3, <1>4 DEF ToSet
<1> QED BY <1>1, <1>2, <1>5, <1>6 DEF Last

\* Reset puts every shape where redo finds it.
LEMMA ReverseSame ==
    ASSUME NEW S, NEW s \in Seq(S), NEW r \in Seq(S)
    PROVE  /\ Reverse(r \o s) \in Seq(S)
           /\ ToSet(Reverse(r \o s)) = ToSet(r) \union ToSet(s)
<1> DEFINE c == r \o s
           t == Reverse(c)
<1>1. /\ c \in Seq(S) /\ Len(c) = Len(r) + Len(s)
      /\ \A i \in 1 .. Len(c) : c[i] = IF i <= Len(r) THEN r[i] ELSE s[i - Len(r)]
    BY ConcatProperties
<1>2. /\ Len(r) \in Nat /\ DOMAIN r = 1 .. Len(r)
      /\ Len(s) \in Nat /\ DOMAIN s = 1 .. Len(s)
      /\ Len(c) \in Nat /\ DOMAIN c = 1 .. Len(c) /\ \A i \in 1 .. Len(c) : c[i] \in S
    BY <1>1, LenProperties, ElementOfSeq
<1>3. ToSet(c) = ToSet(r) \union ToSet(s)
    <2>1. ToSet(c) \subseteq ToSet(r) \union ToSet(s)
        <3>1. ASSUME NEW i \in 1 .. Len(c) PROVE c[i] \in ToSet(r) \union ToSet(s)
            <4>1. CASE i <= Len(r)
                <5>1. i \in DOMAIN r /\ c[i] = r[i] BY <1>1, <1>2, <4>1
                <5> QED BY <5>1 DEF ToSet
            <4>2. CASE ~(i <= Len(r))
                <5>1. i - Len(r) \in DOMAIN s /\ c[i] = s[i - Len(r)] BY <1>1, <1>2, <4>2
                <5> QED BY <5>1 DEF ToSet
            <4> QED BY <4>1, <4>2
        <3> QED BY <1>2, <3>1 DEF ToSet
    <2>2. ToSet(r) \subseteq ToSet(c)
        <3>1. ASSUME NEW i \in 1 .. Len(r) PROVE i \in DOMAIN c /\ c[i] = r[i]
            BY <1>1, <1>2
        <3> QED BY <1>2, <3>1 DEF ToSet
    <2>3. ToSet(s) \subseteq ToSet(c)
        <3>1. ASSUME NEW i \in 1 .. Len(s)
              PROVE  i + Len(r) \in DOMAIN c /\ c[i + Len(r)] = s[i]
            BY <1>1, <1>2
        <3> QED BY <1>2, <3>1 DEF ToSet
    <2> QED BY <2>1, <2>2, <2>3
<1> HIDE DEF c
<1>4. t = [i \in 1 .. Len(c) |-> c[(Len(c) - i) + 1]]
    BY DEF Reverse
<1>5. DOMAIN t = 1 .. Len(c) /\ \A i \in 1 .. Len(c) : t[i] = c[(Len(c) - i) + 1]
    BY <1>4
<1>6. \A i \in 1 .. Len(c) : (Len(c) - i) + 1 \in 1 .. Len(c)
                              /\ (Len(c) - ((Len(c) - i) + 1)) + 1 = i
    BY <1>2
<1>7. t \in [1 .. Len(c) -> S]
    BY <1>2, <1>4, <1>6
<1>8. t \in Seq(S)
    BY <1>2, <1>7
<1> HIDE DEF t
<1>9. ToSet(t) = ToSet(c)
    <2>1. ToSet(t) \subseteq ToSet(c) BY <1>2, <1>5, <1>6 DEF ToSet
    <2>2. ASSUME NEW i \in 1 .. Len(c) PROVE c[i] \in ToSet(t)
        <3> DEFINE j == (Len(c) - i) + 1
        <3>1. j \in DOMAIN t /\ t[j] = c[i] BY <1>5, <1>6
        <3> QED BY <3>1 DEF ToSet
    <2> QED BY <1>2, <2>1, <2>2 DEF ToSet
<1> QED BY <1>3, <1>8, <1>9 DEF c, t

-----------------------------------------------------------------------------
(* Requests.                                                               *)

\* Nothing is sent without a shape, and what is sent is a mask.
LEMMA PayloadSame ==
    ASSUME TypeOK
    PROVE  /\ payload \in Mask
           /\ shapes # <<>> => payload.shapes # {}
<1>1. ToSet(shapes) \subseteq Ids /\ (ToSet(shapes) = {} <=> shapes = <<>>)
    BY ToSetEmpty DEF TypeOK
<1> QED BY <1>1 DEF payload, Mask, TypeOK

LEMMA SuggestionSame ==
    /\ NoMask \in Mask /\ Free \in Requests
    /\ [shapes |-> {AiId}, props |-> 0] \in Mask
    /\ [shapes |-> {SavedId}, props |-> 0] \in Mask
    /\ [shapes |-> {AiId}, props |-> 0] # NoMask
    BY MaskAssumption DEF MaskAssumption, Mask, Requests, Free, NoMask, AiId, SavedId, Ids

LEMMA RequestsSame ==
    ASSUME NEW r \in [Puts -> Requests], NEW i \in Puts
    PROVE  /\ [r EXCEPT ![i] = Free] \in [Puts -> Requests]
           /\ [r EXCEPT ![i].state = "lost"] \in [Puts -> Requests]
<1>1. [r[i] EXCEPT !.state = "lost"] \in Requests
    <2>1. r[i] \in Requests OBVIOUS
    <2> QED BY <2>1 DEF Requests
<1> QED BY <1>1, SuggestionSame

LEMMA SentSame ==
    ASSUME NEW r \in [Puts -> Requests], NEW i \in Puts, NEW m \in Mask
    PROVE  [r EXCEPT ![i] = [state |-> "sent", mask |-> m]] \in [Puts -> Requests]
<1>1. [state |-> "sent", mask |-> m] \in Requests
    BY DEF Requests
<1> QED BY <1>1

-----------------------------------------------------------------------------
(* Types.                                                                  *)

\* An edit makes shapes of shapes.
LEMMA EditTypes ==
    ASSUME TypeOK, Edit
    PROVE  TypeOK'
<1>1. CASE \E t \in DOMAIN Needed, n \in 0 .. 3 : draw(t, n)
    <2>1. drawn < MaxShapes /\ shapes' = Append(shapes, drawn + 1) /\ redoStack' = <<>>
        BY <1>1 DEF draw
    <2>2. drawn + 1 \in Ids /\ drawn + 1 \in 0 .. MaxShapes
        BY <2>1, MaskAssumption DEF TypeOK, Ids, MaskAssumption
    <2>3. shapes' \in Seq(Ids)
        BY <2>1, <2>2, AppendSame DEF TypeOK
    <2>4. redoStack' \in Seq(Ids)
        BY <2>1, EmptySeq
    <2> QED BY <1>1, <2>2, <2>3, <2>4
            DEF draw, TypeOK, markDirty, crosses, loading, elsewhere, approval
<1>2. ASSUME NEW p \in Props, updateProps(p) PROVE TypeOK'
    BY <1>2 DEF updateProps, TypeOK, markDirty, crosses, loading, elsewhere, approval
<1>3. ASSUME undo PROVE TypeOK'
    <2>1. shapes # <<>> /\ shapes' = Front(shapes)
          /\ redoStack' = Append(redoStack, Last(shapes))
        BY <1>3 DEF undo
    <2>2. shapes' \in Seq(Ids) /\ Last(shapes) \in Ids
        BY <2>1, FrontSame DEF TypeOK
    <2>3. redoStack' \in Seq(Ids)
        BY <2>1, <2>2, AppendSame DEF TypeOK
    <2> QED BY <1>3, <2>2, <2>3
            DEF undo, TypeOK, markDirty, crosses, loading, elsewhere, approval
<1>4. CASE redo
    <2>1. redoStack # <<>> /\ redoStack' = Front(redoStack)
          /\ shapes' = Append(shapes, Last(redoStack))
        BY <1>4 DEF redo
    <2>2. redoStack' \in Seq(Ids) /\ Last(redoStack) \in Ids
        BY <2>1, FrontSame DEF TypeOK
    <2>3. shapes' \in Seq(Ids)
        BY <2>1, <2>2, AppendSame DEF TypeOK
    <2> QED BY <1>4, <2>2, <2>3
            DEF redo, TypeOK, markDirty, crosses, loading, elsewhere, approval
<1>5. ASSUME resetMask PROVE TypeOK'
    <2>1. redoStack' = Reverse(redoStack \o shapes) /\ shapes' = <<>>
        BY <1>5 DEF resetMask
    <2>2. redoStack' \in Seq(Ids)
        BY <2>1, ReverseSame DEF TypeOK
    <2>3. shapes' \in Seq(Ids)
        BY <2>1, EmptySeq
    <2> QED BY <1>5, <2>2, <2>3
            DEF resetMask, TypeOK, markDirty, crosses, loading, elsewhere, approval
<1> QED BY <1>1, <1>2, <1>3, <1>4, <1>5 DEF Edit, Erase, ResetConfirmed, Discard

LEMMA SaveTypes ==
    ASSUME TypeOK, NEW i \in Puts, save(i),
           UNCHANGED <<loading, editor, server, approval>>
    PROVE  TypeOK'
<1>1. puts' = puts \/ puts' = [puts EXCEPT ![i] = [state |-> "sent", mask |-> payload]]
    BY DEF save
<1>2. payload \in Mask /\ puts \in [Puts -> Requests]
    BY PayloadSame DEF TypeOK
<1>3. [puts EXCEPT ![i] = [state |-> "sent", mask |-> payload]] \in [Puts -> Requests]
    BY <1>2, SentSame
<1>4. /\ saveState' \in {"saving", "error"} /\ UNCHANGED <<maskSaved, savedOnce>>
      /\ raced' \in BOOLEAN
    BY DEF save, crosses, TypeOK
<1> QED BY <1>1, <1>2, <1>3, <1>4 DEF TypeOK, loading, editor, approval

LEMMA SavingTypes ==
    ASSUME TypeOK, Saving
    PROVE  TypeOK'
<1>1. PICK i \in Puts :
          handleSave(i) \/ Autosave(i) \/ PutAnswered(i) \/ PutFails(i) \/ PutArrivesLate(i)
    BY DEF Saving
<1>2. CASE handleSave(i) \/ Autosave(i)
    BY <1>2, SaveTypes DEF handleSave, Autosave
<1>3. puts \in [Puts -> Requests] /\ puts[i].mask \in Mask
    BY DEF TypeOK, Requests
<1>4. ASSUME puts' \in {[puts EXCEPT ![i] = Free], [puts EXCEPT ![i].state = "lost"]}
      PROVE  puts' \in [Puts -> Requests]
    <2>1. /\ [puts EXCEPT ![i] = Free] \in [Puts -> Requests]
          /\ [puts EXCEPT ![i].state = "lost"] \in [Puts -> Requests]
        BY <1>3, RequestsSame
    <2> QED BY <1>4, <2>1
<1>5. CASE PutAnswered(i)
    BY <1>3, <1>4, <1>5 DEF PutAnswered, TypeOK, loading, editor, approval
<1>6. CASE PutFails(i)
    BY <1>4, <1>6 DEF PutFails, TypeOK, loading, editor, approval
<1>7. CASE PutArrivesLate(i)
    BY <1>3, <1>4, <1>7 DEF PutArrivesLate, TypeOK, loading, editor, status, approval
<1> QED BY <1>1, <1>2, <1>5, <1>6, <1>7

LEMMA LoadingTypes ==
    ASSUME TypeOK, Loading
    PROVE  TypeOK'
<1>1. CASE LoadProject
    BY <1>1 DEF LoadProject, TypeOK, editor, status, approval
<1>2. CASE LoadMask
    <2>1. server.shapes \subseteq Ids /\ server.props \in Props \union {0}
        BY DEF TypeOK, Mask
    <2> QED BY <1>2, <2>1 DEF LoadMask, TypeOK, status, approval
<1>3. CASE ApplyPendingLoad
    <2>1. shapes' \in Seq(Ids)
        BY <1>3, SetToSeqSame DEF ApplyPendingLoad, TypeOK
    <2> QED BY <1>3, <2>1 DEF ApplyPendingLoad, TypeOK, status, approval
<1> QED BY <1>1, <1>2, <1>3 DEF Loading

LEMMA ApprovingTypes ==
    ASSUME TypeOK, Approving
    PROVE  TypeOK'
<1>1. CASE approve
    <2>1. approvals' \in 0 .. MaxApprovals
        BY <1>1, MaskAssumption DEF approve, AcceptOffered, TypeOK, MaskAssumption
    <2> QED BY <1>1, <2>1 DEF approve, crosses, TypeOK, loading, editor, status
<1>2. CASE ServeApprove
    BY <1>2, SuggestionSame DEF ServeApprove, TypeOK, loading, editor, status
<1>3. CASE ApproveFails
    BY <1>3 DEF ApproveFails, TypeOK, loading, editor, status
<1>4. CASE applyLoadedMask
    <2>1. server.shapes \in SUBSET Ids /\ server.props \in Props \union {0}
        BY DEF TypeOK, Mask
    <2>2. shapes' \in Seq(Ids)
        BY <1>4, <2>1, SetToSeqSame DEF applyLoadedMask
    <2>3. redoStack' \in Seq(Ids)
        BY <1>4, EmptySeq DEF applyLoadedMask
    <2> QED BY <1>4, <2>1, <2>2, <2>3 DEF applyLoadedMask, TypeOK, loading
<1> QED BY <1>1, <1>2, <1>3, <1>4 DEF Approving

LEMMA InitTypes ==
    ASSUME Init
    PROVE  TypeOK
<1>1. puts \in [Puts -> Requests] /\ server \in Mask
    BY SuggestionSame DEF Init
<1>2. shapes \in Seq(Ids) /\ redoStack \in Seq(Ids)
    BY EmptySeq DEF Init
<1>3. 0 \in 0 .. MaxShapes /\ MaxApprovals \in 0 .. MaxApprovals
    BY MaskAssumption DEF MaskAssumption
<1> QED BY <1>1, <1>2, <1>3 DEF Init, TypeOK

LEMMA StepTypes ==
    ASSUME TypeOK, [Next]_vars
    PROVE  TypeOK'
<1>1. CASE UNCHANGED vars
    BY <1>1 DEF vars, loading, editor, status, approval, TypeOK
<1> QED BY <1>1, EditTypes, SavingTypes, LoadingTypes, ApprovingTypes DEF Next

\* The page, its requests and the server keep to their types, whatever crosses whatever.
THEOREM TypeCorrect == Spec => []TypeOK
    BY InitTypes, StepTypes, PTL DEF Spec

-----------------------------------------------------------------------------
(* What unlocks the preview.                                               *)

\* Whatever unlocks the preview, and whatever will, has put a mask on the server.
MaskInv ==
    /\ maskSaved \/ approving = "approved" => server # NoMask
    /\ \A i \in Puts : puts[i].state # "free" => puts[i].mask.shapes # {}

\* An edit locks the preview again.
LEMMA EditLocks ==
    ASSUME Edit
    PROVE  /\ maskSaved' = FALSE /\ saveState' = "dirty"
           /\ crosses
           /\ UNCHANGED <<loading, elsewhere>>
    BY DEF Edit, draw, updateProps, Erase, undo, redo, ResetConfirmed, Discard, resetMask,
           markDirty

\* A save sends shapes, or nothing.
LEMMA SaveSends ==
    ASSUME TypeOK, MaskInv, NEW i \in Puts, save(i)
    PROVE  \A j \in Puts : puts'[j].state # "free" => puts'[j].mask.shapes # {}
<1>1. CASE UNCHANGED puts
    BY <1>1 DEF MaskInv
<1>2. CASE shapes # <<>> /\ puts' = [puts EXCEPT ![i] = [state |-> "sent", mask |-> payload]]
    <2>1. payload.shapes # {}
        BY <1>2, PayloadSame
    <2>2. ASSUME NEW j \in Puts, puts'[j].state # "free" PROVE puts'[j].mask.shapes # {}
        <3>1. CASE j = i
            <4>1. puts'[j].mask = payload BY <1>2, <3>1 DEF TypeOK
            <4> QED BY <2>1, <4>1
        <3>2. CASE j # i
            <4>1. puts'[j] = puts[j] BY <1>2, <3>2 DEF TypeOK
            <4> QED BY <2>2, <4>1 DEF MaskInv
        <3> QED BY <3>1, <3>2
    <2> QED BY <2>2
<1> QED BY <1>1, <1>2 DEF save

\* An answered, failed or late request leaves the others as they were.
LEMMA AnswerLeaves ==
    ASSUME TypeOK, NEW i \in Puts,
           puts' \in {[puts EXCEPT ![i] = Free], [puts EXCEPT ![i].state = "lost"]}
    PROVE  /\ \A j \in Puts \ {i} : puts'[j] = puts[j]
           /\ puts'[i] = Free \/ (puts'[i].mask = puts[i].mask /\ puts'[i].state = "lost")
<1>1. puts \in [Puts -> Requests] /\ puts[i] \in Requests
    BY DEF TypeOK
<1>2. CASE puts' = [puts EXCEPT ![i] = Free]
    BY <1>1, <1>2
<1>3. CASE puts' = [puts EXCEPT ![i].state = "lost"]
    <2>1. puts'[i] = [puts[i] EXCEPT !.state = "lost"] /\ \A j \in Puts \ {i} : puts'[j] = puts[j]
        BY <1>1, <1>3
    <2>2. puts'[i].mask = puts[i].mask /\ puts'[i].state = "lost"
        BY <1>1, <2>1 DEF Requests
    <2> QED BY <2>1, <2>2
<1> QED BY <1>2, <1>3

LEMMA MaskInvNext ==
    ASSUME TypeOK, MaskInv, [Next]_vars
    PROVE  MaskInv'
<1>1. CASE UNCHANGED vars
    BY <1>1 DEF vars, loading, editor, status, approval, MaskInv
<1>2. CASE Edit
    BY <1>2, EditLocks DEF loading, elsewhere, approval, MaskInv
<1>3. CASE Saving
    <2>1. PICK i \in Puts :
              handleSave(i) \/ Autosave(i) \/ PutAnswered(i) \/ PutFails(i) \/ PutArrivesLate(i)
        BY <1>3 DEF Saving
    <2>2. CASE handleSave(i) \/ Autosave(i)
        <3>1. save(i) /\ UNCHANGED <<server, approval, maskSaved>>
            BY <2>2 DEF handleSave, Autosave, save
        <3> QED BY <3>1, SaveSends DEF MaskInv, approval
    <2>3. ASSUME puts' \in {[puts EXCEPT ![i] = Free], [puts EXCEPT ![i].state = "lost"]},
                 puts[i].state # "free"
          PROVE  \A j \in Puts : puts'[j].state # "free" => puts'[j].mask.shapes # {}
        <3>1. Free.state = "free" BY DEF Free
        <3> QED BY <2>3, <3>1, AnswerLeaves DEF MaskInv
    <2>4. puts[i].state # "free" => puts[i].mask # NoMask
        BY DEF MaskInv, NoMask
    <2>5. CASE PutAnswered(i)
        BY <2>3, <2>4, <2>5 DEF PutAnswered, MaskInv
    <2>6. CASE PutFails(i)
        BY <2>3, <2>6 DEF PutFails, MaskInv, approval
    <2>7. CASE PutArrivesLate(i)
        <3>1. \A j \in Puts : puts'[j].state # "free" => puts'[j].mask.shapes # {}
            BY <2>3, <2>7 DEF PutArrivesLate
        <3>2. /\ server' \in {server, puts[i].mask} /\ puts[i].state = "lost"
              /\ UNCHANGED <<maskSaved, approving>>
            BY <2>7 DEF PutArrivesLate, status, approval
        <3> QED BY <2>4, <3>1, <3>2 DEF MaskInv
    <2> QED BY <2>1, <2>2, <2>5, <2>6, <2>7
<1>4. CASE Loading
    BY <1>4 DEF Loading, LoadProject, LoadMask, ApplyPendingLoad, status, approval, MaskInv
<1>5. CASE Approving
    <2>1. CASE approve
        BY <2>1 DEF approve, status, MaskInv
    <2>2. CASE ServeApprove
        BY <2>2, SuggestionSame DEF ServeApprove, status, MaskInv
    <2>3. CASE ApproveFails
        BY <2>3 DEF ApproveFails, status, MaskInv
    <2>4. CASE applyLoadedMask
        BY <2>4 DEF applyLoadedMask, MaskInv
    <2> QED BY <1>5, <2>1, <2>2, <2>3, <2>4 DEF Approving
<1> QED BY <1>1, <1>2, <1>3, <1>4, <1>5 DEF Next

LEMMA MaskInvInit == Init => MaskInv
    BY DEF Init, MaskInv, Free

\* The preview and processing are unlocked only with a mask on the server ("Continue",
\* WorkspaceActionBar.tsx), however many saves fail, come late or cross.
THEOREM UnlockedOnlyWithMask == Spec => []UnlockedHasMask
<1>1. TypeOK /\ MaskInv /\ [Next]_vars => MaskInv'
    BY MaskInvNext
<1>2. MaskInv => UnlockedHasMask
    BY DEF MaskInv, UnlockedHasMask
<1> QED BY <1>1, <1>2, MaskInvInit, TypeCorrect, PTL DEF Spec

-----------------------------------------------------------------------------
(* What the status line says.                                              *)

Quiet == \A i \in Puts : puts[i].state = "free"

Honest ==
    /\ saveState = "clean" => shapes = <<>>
    /\ saveState = "saved" => server = payload

\* A save under way is the only one; what it sent is on screen, and it shows as saving.
InStep(i) ==
    /\ \A j \in Puts : j # i => puts[j].state = "free"
    /\ puts[i].state = "sent" => puts[i].mask = payload
    /\ saveState = IF puts[i].state = "sent" THEN "saving" ELSE "error"

\* As long as nothing has crossed anything, one thing at a time is under way, and the
\* status line is right about it.
Steady ==
    /\ load # "done" => approving = "none"
    /\ load # "done" \/ approving # "none" => Quiet
    /\ load \in {"project", "sent"} => shapes = <<>> /\ saveState = "clean"
    /\ load = "pending" =>
          server.shapes = pendingLoad /\ server.props = props /\ saveState = "saved"
    /\ load # "pending" /\ approving # "approved" => Honest
    /\ \A i \in Puts : puts[i].state # "free" => InStep(i)

SteadyInv == ~raced => Steady

\* What crosses nothing begins when nothing is under way.
LEMMA CrossesNothing ==
    ASSUME crosses, ~raced'
    PROVE  ~raced /\ load = "done" /\ approving = "none" /\ Quiet
    BY DEF crosses, Busy, Quiet

LEMMA EditSteady ==
    ASSUME Edit, ~raced'
    PROVE  Steady'
<1>1. /\ saveState' = "dirty"
      /\ UNCHANGED <<load, approving, puts>>
    BY EditLocks DEF loading, elsewhere, approval
<1>2. load = "done" /\ approving = "none" /\ Quiet
    BY EditLocks, CrossesNothing
<1> QED BY <1>1, <1>2 DEF Steady, Honest, Quiet

LEMMA SaveSteady ==
    ASSUME TypeOK, MaskInv, SteadyInv, ~raced', NEW i \in Puts, handleSave(i) \/ Autosave(i)
    PROVE  Steady'
<1>1. /\ save(i) /\ UNCHANGED <<load, pendingLoad, shapes, props, server, approving>>
      /\ shapes # <<>> \/ saveState = "error"
    BY DEF handleSave, Autosave, SaveOffered, RetryOffered, loading, editor, approval
<1>2. payload' = payload
    BY <1>1 DEF payload
<1>3. ASSUME crosses, puts' = [puts EXCEPT ![i] = [state |-> "sent", mask |-> payload]],
             saveState' = "saving"
      PROVE  Steady'
    <2>1. load = "done" /\ approving = "none" /\ Quiet
        BY <1>3, CrossesNothing
    <2>2. /\ puts'[i].state = "sent" /\ puts'[i].mask = payload
          /\ \A j \in Puts : j # i => puts'[j].state = "free"
        BY <1>3, <2>1 DEF TypeOK, Quiet
    <2>3. \A j \in Puts : puts'[j].state # "free" => InStep(j)'
        BY <1>2, <1>3, <2>2 DEF InStep
    <2> QED BY <1>1, <1>3, <2>1, <2>3 DEF Steady, Honest
<1>4. ASSUME shapes = <<>>, saveState' = "error", UNCHANGED <<puts, raced>>
      PROVE  Steady'
    <2>1. Steady /\ saveState = "error"
        BY <1>1, <1>4 DEF SteadyInv
    <2>2. payload.shapes = {}
        BY <1>4, EmptySeq, ToSetEmpty DEF payload, TypeOK
    <2>3. ASSUME NEW j \in Puts, puts[j].state # "free" PROVE InStep(j)'
        <3>1. InStep(j) BY <2>1, <2>3 DEF Steady
        <3> QED BY <1>2, <1>4, <2>1, <3>1 DEF InStep
    <2> QED BY <1>1, <1>4, <2>1, <2>3 DEF Steady, Honest, Quiet
<1> QED BY <1>1, <1>3, <1>4 DEF save

LEMMA AnswerSteady ==
    ASSUME TypeOK, MaskInv, SteadyInv, ~raced', NEW i \in Puts,
           PutAnswered(i) \/ PutFails(i) \/ PutArrivesLate(i)
    PROVE  Steady'
<1>1. /\ puts' \in {[puts EXCEPT ![i] = Free], [puts EXCEPT ![i].state = "lost"]}
      /\ puts[i].state # "free"
      /\ UNCHANGED <<raced, load, pendingLoad, shapes, props, approving>>
    BY DEF PutAnswered, PutFails, PutArrivesLate, loading, editor, approval
<1>2. /\ Steady /\ InStep(i)
      /\ load = "done" /\ approving = "none"
    BY <1>1 DEF SteadyInv, Steady, Quiet
<1>3. \A j \in Puts \ {i} : puts'[j].state = "free"
    BY <1>1, <1>2, AnswerLeaves DEF InStep
<1>4. payload' = payload
    BY <1>1 DEF payload
<1>5. puts'[i] = Free => puts'[i].state = "free"
    BY DEF Free
<1>6. CASE PutAnswered(i)
    <2>1. server' = payload /\ saveState' = "saved" /\ puts' = [puts EXCEPT ![i] = Free]
        BY <1>2, <1>6 DEF PutAnswered, InStep
    <2>2. puts'[i].state = "free"
        BY <2>1 DEF TypeOK, Free
    <2> QED BY <1>1, <1>2, <1>3, <1>4, <2>1, <2>2 DEF Steady, Honest
<1>7. CASE PutFails(i)
    <2>1. saveState' = "error" /\ puts'[i].state \in {"free", "lost"}
        BY <1>1, <1>5, <1>7, AnswerLeaves DEF PutFails
    <2>2. \A j \in Puts : puts'[j].state # "free" => InStep(j)'
        BY <1>3, <2>1 DEF InStep
    <2> QED BY <1>1, <1>2, <2>1, <2>2 DEF Steady, Honest
<1>8. CASE PutArrivesLate(i)
    <2>1. saveState' = "error" /\ puts' = [puts EXCEPT ![i] = Free]
        BY <1>2, <1>8 DEF PutArrivesLate, InStep, status
    <2>2. puts'[i].state = "free"
        BY <2>1 DEF TypeOK, Free
    <2> QED BY <1>1, <1>2, <1>3, <2>1, <2>2 DEF Steady, Honest
<1> QED BY <1>6, <1>7, <1>8

LEMMA LoadingSteady ==
    ASSUME TypeOK, SteadyInv, ~raced', Loading
    PROVE  Steady'
<1>1. Steady /\ load # "done" /\ Quiet /\ approving = "none"
    BY DEF Loading, LoadProject, LoadMask, ApplyPendingLoad, SteadyInv, Steady
<1>2. UNCHANGED <<puts, approving, server>>
    BY DEF Loading, LoadProject, LoadMask, ApplyPendingLoad, approval
<1>3. \A i \in Puts : puts'[i].state # "free" => InStep(i)'
    BY <1>1, <1>2 DEF Quiet
<1>4. CASE LoadProject
    <2>1. load = "project" /\ load' = "sent" /\ UNCHANGED <<shapes, saveState>>
        BY <1>4 DEF LoadProject, editor, status
    <2> QED BY <1>1, <1>2, <1>3, <2>1 DEF Steady, Honest, Quiet
<1>5. CASE LoadMask
    <2>1. CASE load' = "pending"
        BY <1>1, <1>2, <1>3, <1>5, <2>1 DEF LoadMask, Steady, Quiet
    <2>2. CASE load' = "done"
        BY <1>1, <1>2, <1>3, <1>5, <2>2 DEF LoadMask, Steady, Honest, status
    <2> QED BY <1>5, <2>1, <2>2 DEF LoadMask
<1>6. CASE ApplyPendingLoad
    <2>1. /\ server.shapes = pendingLoad /\ server.props = props
          /\ load' = "done" /\ shapes' = SetToSeq(pendingLoad) /\ props' = props
          /\ saveState = "saved" /\ saveState' = "saved"
        BY <1>1, <1>6 DEF ApplyPendingLoad, Steady, status
    <2>2. ToSet(shapes') = pendingLoad
        BY <2>1, SetToSeqSame DEF TypeOK
    <2>3. server = payload'
        BY <2>1, <2>2 DEF payload, TypeOK, Mask
    <2> QED BY <1>1, <1>2, <1>3, <2>1, <2>3 DEF Steady, Honest
<1> QED BY <1>4, <1>5, <1>6 DEF Loading

LEMMA ApprovingSteady ==
    ASSUME TypeOK, SteadyInv, ~raced', Approving
    PROVE  Steady'
<1>1. UNCHANGED <<load, puts>>
    BY DEF Approving, approve, ServeApprove, ApproveFails, applyLoadedMask, loading
<1>2. CASE approve
    <2>1. ~raced /\ load = "done" /\ Quiet
        BY <1>2, CrossesNothing DEF approve
    <2>2. Steady /\ approving = "none"
        BY <1>2, <2>1 DEF SteadyInv, approve, AcceptOffered
    <2>3. UNCHANGED <<shapes, props, saveState, server>> /\ approving' = "sent"
        BY <1>2 DEF approve, editor, status
    <2>4. payload' = payload
        BY <2>3 DEF payload
    <2> QED BY <1>1, <2>1, <2>2, <2>3, <2>4 DEF Steady, Honest, Quiet
<1>3. ASSUME ~raced, approving # "none" PROVE Steady /\ load = "done" /\ Quiet
    BY <1>3 DEF SteadyInv, Steady
<1>4. CASE ServeApprove
    <2>1. ~raced /\ approving = "sent" /\ approving' = "approved"
        BY <1>4 DEF ServeApprove
    <2> QED BY <1>1, <1>3, <2>1 DEF Steady, Quiet
<1>5. CASE ApproveFails
    <2>1. ~raced /\ approving = "sent" /\ approving' = "none"
        BY <1>5 DEF ApproveFails
    <2>2. UNCHANGED <<shapes, props, saveState, server>>
        BY <1>5 DEF ApproveFails, editor, status
    <2>3. payload' = payload
        BY <2>2 DEF payload
    <2> QED BY <1>1, <1>3, <2>1, <2>2, <2>3 DEF Steady, Honest, Quiet
<1>6. CASE applyLoadedMask
    <2>1. /\ ~raced /\ approving = "approved" /\ approving' = "none"
          /\ shapes' = SetToSeq(server.shapes) /\ props' = server.props
          /\ saveState' = "saved" /\ server' = server
        BY <1>6 DEF applyLoadedMask
    <2>2. server.shapes \in SUBSET Ids
        BY DEF TypeOK, Mask
    <2>3. ToSet(shapes') = server.shapes
        BY <2>1, <2>2, SetToSeqSame
    <2>4. server' = payload'
        BY <2>1, <2>3 DEF payload, TypeOK, Mask
    <2> QED BY <1>1, <1>3, <2>1, <2>4 DEF Steady, Honest, Quiet
<1> QED BY <1>2, <1>4, <1>5, <1>6 DEF Approving

LEMMA SteadyNext ==
    ASSUME TypeOK, MaskInv, SteadyInv, [Next]_vars
    PROVE  SteadyInv'
<1> SUFFICES ASSUME ~raced' PROVE Steady'
    BY DEF SteadyInv
<1>1. CASE UNCHANGED vars
    <2>1. Steady
        BY <1>1 DEF vars, SteadyInv
    <2> QED BY <1>1, <2>1 DEF vars, loading, editor, status, approval, Steady, Honest, Quiet,
                             InStep, payload
<1>2. CASE Edit
    BY <1>2, EditSteady
<1>3. CASE Saving
    BY <1>3, SaveSteady, AnswerSteady DEF Saving
<1>4. CASE Loading
    BY <1>4, LoadingSteady
<1>5. CASE Approving
    BY <1>5, ApprovingSteady
<1> QED BY <1>1, <1>2, <1>3, <1>4, <1>5 DEF Next

LEMMA SteadyInit == Init => SteadyInv
    BY DEF Init, SteadyInv, Steady, Honest, Quiet, InStep, Free

\* "All changes saved" means that the server holds what is on screen, unless an edit and a
\* request crossed each other or half an approval failed (SaveState of useMaskWorkspace.ts).
THEOREM StatusIsHonest == Spec => []HonestUnlessRaced
<1>1. TypeOK /\ MaskInv /\ [Next]_vars => MaskInv'
    BY MaskInvNext
<1>2. TypeOK /\ MaskInv /\ SteadyInv /\ [Next]_vars => SteadyInv'
    BY SteadyNext
<1>3. SteadyInv => HonestUnlessRaced
    BY DEF SteadyInv, Steady, Honest, HonestUnlessRaced
<1> QED BY <1>1, <1>2, <1>3, MaskInvInit, SteadyInit, TypeCorrect, PTL DEF Spec

-----------------------------------------------------------------------------
(* Where the shapes go.                                                    *)

KeepsShapes ==
    /\ ToSet(shapes) \subseteq ToSet(shapes') \union ToSet(redoStack')
    /\ drawn' = drawn => ToSet(redoStack) \subseteq ToSet(shapes') \union ToSet(redoStack')

\* Undo, redo and reset move shapes between the canvas and the stack of redo.
LEMMA EditKeeps ==
    ASSUME TypeOK, Edit
    PROVE  KeepsShapes
<1>1. CASE \E t \in DOMAIN Needed, n \in 0 .. 3 : draw(t, n)
    <2>1. /\ drawn < MaxShapes /\ drawn' = drawn + 1
          /\ shapes' = Append(shapes, drawn + 1)
        BY <1>1 DEF draw
    <2>2. drawn + 1 \in Ids /\ drawn' # drawn
        BY <2>1, MaskAssumption DEF TypeOK, Ids, MaskAssumption
    <2>3. ToSet(shapes) \subseteq ToSet(shapes')
        BY <2>1, <2>2, AppendSame DEF TypeOK
    <2> QED BY <2>2, <2>3 DEF KeepsShapes
<1>2. CASE \E p \in Props : updateProps(p)
    BY <1>2 DEF updateProps, KeepsShapes
<1>3. ASSUME undo PROVE KeepsShapes
    <2>1. shapes # <<>> /\ shapes' = Front(shapes)
          /\ redoStack' = Append(redoStack, Last(shapes))
        BY <1>3 DEF undo
    <2>2. Last(shapes) \in Ids /\ ToSet(shapes) = ToSet(shapes') \union {Last(shapes)}
        BY <2>1, FrontSame DEF TypeOK
    <2>3. ToSet(redoStack') = ToSet(redoStack) \union {Last(shapes)}
        BY <2>1, <2>2, AppendSame DEF TypeOK
    <2> QED BY <2>2, <2>3 DEF KeepsShapes
<1>4. CASE redo
    <2>1. redoStack # <<>> /\ redoStack' = Front(redoStack)
          /\ shapes' = Append(shapes, Last(redoStack))
        BY <1>4 DEF redo
    <2>2. Last(redoStack) \in Ids /\ ToSet(redoStack) = ToSet(redoStack') \union {Last(redoStack)}
        BY <2>1, FrontSame DEF TypeOK
    <2>3. ToSet(shapes') = ToSet(shapes) \union {Last(redoStack)}
        BY <2>1, <2>2, AppendSame DEF TypeOK
    <2> QED BY <2>2, <2>3 DEF KeepsShapes
<1>5. ASSUME resetMask PROVE KeepsShapes
    <2>1. redoStack' = Reverse(redoStack \o shapes)
        BY <1>5 DEF resetMask
    <2>2. ToSet(redoStack') = ToSet(redoStack) \union ToSet(shapes)
        BY <2>1, ReverseSame DEF TypeOK
    <2> QED BY <2>2 DEF KeepsShapes
<1> QED BY <1>1, <1>2, <1>3, <1>4, <1>5 DEF Edit, Erase, ResetConfirmed, Discard

LEMMA StepKeeps ==
    ASSUME TypeOK, [Next]_vars
    PROVE  MaskLoaded \/ KeepsShapes
<1>1. ASSUME UNCHANGED <<shapes, redoStack>> PROVE KeepsShapes
    BY <1>1 DEF KeepsShapes
<1>2. CASE UNCHANGED vars
    BY <1>1, <1>2 DEF vars, editor
<1>3. CASE Edit
    BY <1>3, EditKeeps
<1>4. CASE Saving
    <2>1. UNCHANGED editor
        BY <1>4 DEF Saving, handleSave, Autosave, PutAnswered, PutFails, PutArrivesLate
    <2> QED BY <1>1, <2>1 DEF editor
<1>5. CASE Loading
    <2>1. CASE ApplyPendingLoad
        BY <2>1 DEF ApplyPendingLoad, MaskLoaded
    <2>2. CASE LoadProject \/ LoadMask
        BY <1>1, <2>2 DEF LoadProject, LoadMask, editor
    <2> QED BY <1>5, <2>1, <2>2 DEF Loading
<1>6. CASE Approving
    <2>1. CASE applyLoadedMask
        BY <2>1 DEF applyLoadedMask, MaskLoaded
    <2>2. CASE approve \/ ServeApprove \/ ApproveFails
        BY <1>1, <2>2 DEF approve, ServeApprove, ApproveFails, editor
    <2> QED BY <1>6, <2>1, <2>2 DEF Approving
<1> QED BY <1>2, <1>3, <1>4, <1>5, <1>6 DEF Next

\* No edit loses a shape for good: undo, redo, the eraser, reset and discard move it where
\* it can be fetched back, and only a new shape or a loaded mask clears what is there.
THEOREM ShapesAreKept == Spec => ShapesStayInReach
<1>1. TypeOK /\ [Next]_vars =>
        [MaskLoaded \/
            /\ ToSet(shapes) \subseteq ToSet(shapes') \union ToSet(redoStack')
            /\ drawn' = drawn =>
                  ToSet(redoStack) \subseteq ToSet(shapes') \union ToSet(redoStack')]_vars
    BY StepKeeps DEF KeepsShapes
<1> QED BY <1>1, TypeCorrect, PTL DEF Spec, ShapesStayInReach
=============================================================================
