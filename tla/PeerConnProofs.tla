---------------------------- MODULE PeerConnProofs ----------------------------
(***************************************************************************)
(* Proofs about PeerConn, for any number of connections and chunks, any    *)
(* mix of connections with and without the fast extension, any number of   *)
(* chokes and failed checks, and any failures.  Only what is said of the   *)
(* answers needs that the remote peers' reads do not fail.                 *)
(***************************************************************************)
EXTENDS PeerConn, FiniteSetTheorems, TLAPS

-----------------------------------------------------------------------------
(* Counting messages.                                                      *)

LEMMA CountType ==
    ASSUME NEW S, NEW s \in Seq(S), NEW m
    PROVE  /\ IsFiniteSet({i \in 1..Len(s) : s[i] = m})
           /\ Count(s, m) \in Nat
<1>1. IsFiniteSet(1..Len(s))
    BY FS_Interval
<1>2. {i \in 1..Len(s) : s[i] = m} \in SUBSET (1..Len(s))
    OBVIOUS
<1>3. IsFiniteSet({i \in 1..Len(s) : s[i] = m})
    BY <1>1, <1>2, FS_Subset
<1> QED
    BY <1>3, FS_CardinalityType DEF Count

LEMMA CountAppend ==
    ASSUME NEW S, NEW s \in Seq(S), NEW x \in S, NEW m
    PROVE  Count(Append(s, x), m) = IF x = m THEN Count(s, m) + 1 ELSE Count(s, m)
<1> DEFINE A == {i \in 1..Len(s) : s[i] = m}
           B == {i \in 1..Len(Append(s, x)) : Append(s, x)[i] = m}
<1>1. IsFiniteSet(A)
    BY CountType
<1>2. CASE x = m
    <2>1. B = A \cup {Len(s) + 1}
        BY <1>2
    <2>2. Len(s) + 1 \notin A
        OBVIOUS
    <2> QED
        BY <1>1, <1>2, <2>1, <2>2, FS_AddElement DEF Count
<1>3. CASE x # m
    <2>1. B = A
        BY <1>3
    <2> QED
        BY <1>3, <2>1 DEF Count
<1> QED
    BY <1>2, <1>3

LEMMA CountTail ==
    ASSUME NEW S, NEW s \in Seq(S), s # <<>>, NEW m
    PROVE  Count(s, m) = IF Head(s) = m THEN Count(Tail(s), m) + 1 ELSE Count(Tail(s), m)
<1> DEFINE A == {i \in 1..Len(Tail(s)) : Tail(s)[i] = m}
           B == {i \in 2..Len(s) : s[i] = m}
           C == {i \in 1..Len(s) : s[i] = m}
<1>1. Tail(s) \in Seq(S) /\ Len(Tail(s)) = Len(s) - 1 /\ Len(s) \in Nat /\ Len(s) > 0
    OBVIOUS
<1>2. IsFiniteSet(A)
    BY <1>1, CountType
<1>3. \A i \in 1..Len(Tail(s)) : Tail(s)[i] = s[i + 1]
    OBVIOUS
<1>4. ExistsBijection(A, B)
    <2> DEFINE f == [i \in A |-> i + 1]
    <2>1. f \in [A -> B]
        BY <1>1, <1>3
    <2>2. IsInjective(f)
        BY DEF IsInjective
    <2>3. \A j \in B : \E i \in A : f[i] = j
        <3> SUFFICES ASSUME NEW j \in B PROVE \E i \in A : f[i] = j
            OBVIOUS
        <3>1. j - 1 \in 1..Len(Tail(s)) /\ (j - 1) + 1 = j
            BY <1>1
        <3>2. j - 1 \in A
            BY <1>3, <3>1
        <3> QED
            BY <3>1, <3>2
    <2>4. f \in Bijection(A, B)
        BY <2>1, <2>2, <2>3 DEF Bijection, Injection, Surjection
    <2> QED
        BY <2>4 DEF ExistsBijection
<1>5. IsFiniteSet(B) /\ Cardinality(B) = Cardinality(A)
    BY <1>2, <1>4, FS_Bijection
<1>6. Head(s) = s[1]
    OBVIOUS
<1>7. CASE Head(s) = m
    <2>1. C = B \cup {1} /\ 1 \notin B
        BY <1>1, <1>6, <1>7
    <2> QED
        BY <1>5, <1>7, <2>1, FS_AddElement DEF Count
<1>8. CASE Head(s) # m
    <2>1. C = B
        BY <1>1, <1>6, <1>8
    <2> QED
        BY <1>5, <1>8, <2>1 DEF Count
<1> QED
    BY <1>7, <1>8

LEMMA CountConcat ==
    ASSUME NEW S, NEW s \in Seq(S), NEW t \in Seq(S), NEW m, \A i \in 1..Len(t) : t[i] # m
    PROVE  Count(s \o t, m) = Count(s, m)
<1>1. {i \in 1..Len(s \o t) : (s \o t)[i] = m} = {i \in 1..Len(s) : s[i] = m}
    OBVIOUS
<1> QED
    BY <1>1 DEF Count

-----------------------------------------------------------------------------
(* Types.  That expected counts never go below zero is not a matter of     *)
(* types but of who answers what (Fits, below).                            *)

LooseState ==
    [status : {"open", "closed", "gone"}, requests : SUBSET Chunk,
     cancelled : SUBSET Chunk, expected : [Chunk -> Int], peerChoking : BOOLEAN,
     need : {"none", "cancel", "reject", "other"}, peak : Int,
     writing : Chunk \cup {Nil}, out : Seq(Message)]

Updating == [conn : Conn, left : SUBSET Chunk, before : Nat]

RestType ==
    /\ requester \in [Chunk -> Conn \cup {Nil}]
    /\ later \subseteq Conn \X Conn
    /\ dirty \subseteq Chunk
    /\ piece \in {"wanted", "checking", "complete"}
    /\ disallowed \in BOOLEAN
    /\ updating = NoUpdate \/ updating \in Updating
    /\ broken \subseteq Conn
    /\ chokes \in 0..MaxChokes
    /\ failedChecks \in 0..MaxFailedChecks

-----------------------------------------------------------------------------
(* A connection and its other end.                                         *)

(* The answers to requests for r that are still to come.                   *)
Owed(d, u, r) ==
    Count(d.out, <<"request", r>>) + (IF HavePeerRequest(u, r) THEN 1 ELSE 0)
        + Count(u.out, <<"piece", r>>) + Count(u.out, <<"reject", r>>)

(* No read of a served chunk fails.  Where one does, the remote peer       *)
(* rejects the request even if it was withdrawn meanwhile.                 *)
Readable == "read" \notin Faults

(* With the fast extension an answer is expected once for every request    *)
(* made or cancelled; without it nothing is rejected.  If reads do not     *)
(* fail, all that is owed is expected, and with the fast extension nothing *)
(* else is.                                                                *)
Fits(c, d, u) ==
    /\ \A r \in Chunk : d.expected[r] >= 0
    /\ d.status = "gone" => d.requests = {}
    /\ c \in Fast => d.requests \cap d.cancelled = {}
    /\ c \notin Fast => \A r \in Chunk : Count(u.out, <<"reject", r>>) = 0
    /\ d.status = "open" /\ c \in Fast => \A r \in Chunk :
          d.expected[r] = IF r \in d.requests \cup d.cancelled THEN 1 ELSE 0
    /\ d.status = "open" /\ Readable => \A r \in Chunk :
          /\ Owed(d, u, r) <= d.expected[r]
          /\ c \in Fast => Owed(d, u, r) = d.expected[r]

LEMMA Messages ==
    /\ \A r \in Chunk : \A type \in {"request", "cancel", "piece", "reject"} : <<type, r>> \in Message
    /\ \A type \in {"choke", "unchoke"} : <<type, Nil>> \in Message
    /\ \A m \in Message : m[1] \in {"request", "cancel", "piece", "reject"} =>
                              m[2] \in Chunk /\ m = <<m[1], m[2]>>
BY DEF Message

LEMMA OwedType ==
    ASSUME NEW d \in LooseState, NEW u \in RemoteState, NEW r \in Chunk
    PROVE  /\ Count(d.out, <<"request", r>>) \in Nat
           /\ Count(u.out, <<"piece", r>>) \in Nat
           /\ Count(u.out, <<"reject", r>>) \in Nat
           /\ Owed(d, u, r) \in Nat
<1>1. d.out \in Seq(Message) /\ u.out \in Seq(Message)
    BY DEF LooseState, RemoteState
<1>2. /\ Count(d.out, <<"request", r>>) \in Nat
      /\ Count(u.out, <<"piece", r>>) \in Nat
      /\ Count(u.out, <<"reject", r>>) \in Nat
    BY <1>1, CountType
<1> QED
    BY <1>2 DEF Owed

(* Changes that the other end's answers have nothing to do with.           *)
Like(d, e) ==
    /\ e \in LooseState
    /\ e.status = d.status /\ e.requests = d.requests /\ e.cancelled = d.cancelled
    /\ e.expected = d.expected /\ e.out = d.out

LEMMA LikeFits ==
    ASSUME NEW c \in Conn, NEW d, NEW e, NEW u, Fits(c, d, u), Like(d, e)
    PROVE  Fits(c, e, u)
BY DEF Fits, Like, Owed

LEMMA AskLike ==
    ASSUME NEW d \in LooseState, NEW reason \in {"cancel", "reject", "other"}
    PROVE  Like(d, OnNeedUpdateRequests(d, reason)) /\ Like(d, AskIfLow(d, reason))
<1>1. Like(d, d) /\ Like(d, [d EXCEPT !.need = reason])
    BY DEF Like, LooseState
<1> QED
    BY <1>1 DEF OnNeedUpdateRequests, AskIfLow

LEMMA RequestFits ==
    ASSUME NEW c \in Conn, NEW d \in LooseState, NEW u \in RemoteState, NEW r \in Chunk,
           Fits(c, d, u), d.status = "open", r \notin d.requests \cup d.cancelled
    PROVE  LET e == Request(d, r) IN
           /\ e \in LooseState /\ Fits(c, e, u)
           /\ e.status = d.status /\ e.cancelled = d.cancelled
           /\ e.requests = d.requests \cup {r}
<1> DEFINE e == Request(d, r)
<1>1. d.out \in Seq(Message) /\ <<"request", r>> \in Message
    BY Messages DEF LooseState
<1>2. /\ e.status = d.status /\ e.cancelled = d.cancelled /\ e.requests = d.requests \cup {r}
      /\ e.expected = [d.expected EXCEPT ![r] = @ + 1]
      /\ e.out = Append(d.out, <<"request", r>>)
    BY DEF Request, Send, LooseState
<1>3. e \in LooseState
    <2>1. Append(d.out, <<"request", r>>) \in Seq(Message)
        BY <1>1
    <2>2. [d.expected EXCEPT ![r] = @ + 1] \in [Chunk -> Int]
        BY DEF LooseState
    <2> QED
        BY <2>1, <2>2 DEF Request, Send, LooseState
<1> HIDE DEF e
<1>4. \A q \in Chunk : Count(e.out, <<"request", q>>) =
          IF q = r THEN Count(d.out, <<"request", q>>) + 1 ELSE Count(d.out, <<"request", q>>)
    BY <1>1, <1>2, CountAppend
<1>5. \A q \in Chunk : Owed(e, u, q) = IF q = r THEN Owed(d, u, q) + 1 ELSE Owed(d, u, q)
    <2> SUFFICES ASSUME NEW q \in Chunk
                 PROVE  Owed(e, u, q) = IF q = r THEN Owed(d, u, q) + 1 ELSE Owed(d, u, q)
        OBVIOUS
    <2>1. /\ Count(d.out, <<"request", q>>) \in Nat
          /\ Count(u.out, <<"piece", q>>) \in Nat /\ Count(u.out, <<"reject", q>>) \in Nat
        BY OwedType
    <2> QED
        BY <1>4, <2>1 DEF Owed
<1>6. \A q \in Chunk : /\ d.expected[q] \in Int
                       /\ e.expected[q] = IF q = r THEN d.expected[q] + 1 ELSE d.expected[q]
    BY <1>2 DEF LooseState
<1>7. \A q \in Chunk : Owed(d, u, q) \in Nat
    BY OwedType
<1>8. \A q \in Chunk : /\ e.expected[q] >= 0
                       /\ Readable => /\ Owed(e, u, q) <= e.expected[q]
                                      /\ c \in Fast => Owed(e, u, q) = e.expected[q]
    BY <1>5, <1>6, <1>7 DEF Fits
<1>9. c \in Fast => \A q \in Chunk :
          e.expected[q] = IF q \in e.requests \cup e.cancelled THEN 1 ELSE 0
    BY <1>2, <1>6 DEF Fits
<1> QED
    <2>1. Fits(c, e, u)
        BY <1>2, <1>8, <1>9 DEF Fits
    <2> QED
        BY <1>2, <1>3, <2>1 DEF e

(* Whatever takes requests away and sends no more of them.                 *)
LEMMA FewerFits ==
    ASSUME NEW c \in Conn, NEW d \in LooseState, NEW u \in RemoteState, NEW e,
           Fits(c, d, u), e.expected = d.expected, e.requests \subseteq d.requests,
           e.status = "open" => d.status = "open",
           e.status = "gone" => e.requests = {},
           \A r \in Chunk : Count(e.out, <<"request", r>>) = Count(d.out, <<"request", r>>),
           c \in Fast /\ e.status = "open" =>
               e.requests \cup e.cancelled = d.requests \cup d.cancelled,
           c \in Fast => e.requests \cap e.cancelled = {}
    PROVE  Fits(c, e, u)
<1>1. \A r \in Chunk : Owed(e, u, r) = Owed(d, u, r)
    BY DEF Owed
<1> QED
    BY <1>1 DEF Fits

LEMMA StopType ==
    ASSUME NEW d \in LooseState, NEW R \in SUBSET Chunk, NEW K \in SUBSET Chunk,
           NEW n \in Int, NEW s \in Seq(Message)
    PROVE  LET e == [d EXCEPT !.requests = R, !.peak = n, !.cancelled = K, !.out = s] IN
           /\ e \in LooseState
           /\ e.status = d.status /\ e.requests = R /\ e.expected = d.expected
           /\ e.cancelled = K /\ e.out = s
BY DEF LooseState

LEMMA CancelFits ==
    ASSUME NEW c \in Conn, NEW d \in LooseState, NEW u \in RemoteState, NEW r \in d.requests,
           Fits(c, d, u)
    PROVE  LET e == Cancel(c, d, r) IN
           /\ e \in LooseState /\ Fits(c, e, u)
           /\ e.status = d.status /\ e.requests = d.requests \ {r}
<1> DEFINE m == <<"cancel", r>>
           b == [d EXCEPT !.requests = @ \ {r}, !.peak = @ - 1,
                          !.cancelled = IF c \in Fast THEN @ \cup {r} ELSE @,
                          !.out = Append(@, m)]
           e == AskIfLow(b, "cancel")
<1>1. d.out \in Seq(Message) /\ m \in Message /\ r \in Chunk /\ d.peak \in Int
    BY Messages DEF LooseState
<1>2. Cancel(c, d, r) = e
    BY DEF Cancel, HandleCancel, Send, LooseState
<1>3. /\ b.status = d.status /\ b.requests = d.requests \ {r} /\ b.expected = d.expected
      /\ b.cancelled = (IF c \in Fast THEN d.cancelled \cup {r} ELSE d.cancelled)
      /\ b.out = Append(d.out, m)
    BY DEF LooseState
<1>4. b \in LooseState
    <2>1. Append(d.out, m) \in Seq(Message) /\ d.peak - 1 \in Int
        BY <1>1
    <2>2. (IF c \in Fast THEN d.cancelled \cup {r} ELSE d.cancelled) \in SUBSET Chunk
        BY <1>1 DEF LooseState
    <2>3. d.requests \ {r} \in SUBSET Chunk
        BY DEF LooseState
    <2> HIDE DEF m
    <2> QED
        BY <1>1, <2>1, <2>2, <2>3, StopType
<1>5. \A q \in Chunk : Count(b.out, <<"request", q>>) = Count(d.out, <<"request", q>>)
    <2>1. \A q \in Chunk : m # <<"request", q>>
        OBVIOUS
    <2> HIDE DEF m, b
    <2> QED
        BY <1>1, <1>3, <2>1, CountAppend
<1> HIDE DEF b
<1>6. Fits(c, b, u)
    <2>1. c \in Fast => d.requests \cap d.cancelled = {} /\ (d.status = "gone" => d.requests = {})
        BY DEF Fits
    <2>2. c \in Fast => b.requests \cup b.cancelled = d.requests \cup d.cancelled
        BY <1>3
    <2>3. c \in Fast => b.requests \cap b.cancelled = {}
        BY <1>3, <2>1
    <2>4. b.status = "gone" => b.requests = {}
        BY <1>3 DEF Fits
    <2> QED
        BY <1>3, <1>5, <2>2, <2>3, <2>4, FewerFits
<1>7. Like(b, e)
    BY <1>4, AskLike
<1> HIDE DEF e
<1>8. e \in LooseState /\ Fits(c, e, u) /\ e.status = d.status /\ e.requests = d.requests \ {r}
    BY <1>3, <1>6, <1>7, LikeFits DEF Like
<1> QED
    BY <1>2, <1>8

LEMMA SetToSeqIs ==
    ASSUME NEW S, IsFiniteSet(S)
    PROVE  SetToSeq(S) \in Seq(S) /\ \A i \in 1..Len(SetToSeq(S)) : SetToSeq(S)[i] \in S
<1>1. Cardinality(S) \in Nat /\ \E f \in [1..Cardinality(S) -> S] : IsInjective(f)
    <2>1. Cardinality(S) \in Nat /\ ExistsBijection(1..Cardinality(S), S)
        BY FS_CardinalityType
    <2>2. PICK f : f \in Bijection(1..Cardinality(S), S)
        BY <2>1 DEF ExistsBijection
    <2>3. f \in Injection(1..Cardinality(S), S)
        BY <2>2 DEF Bijection
    <2>4. f \in [1..Cardinality(S) -> S] /\ IsInjective(f)
        BY <2>3 DEF Injection
    <2> QED
        BY <2>1, <2>4
<1>2. SetToSeq(S) \in [1..Cardinality(S) -> S]
    BY <1>1 DEF SetToSeq
<1>3. SetToSeq(S) \in Seq(S)
    BY <1>1, <1>2
<1> QED
    BY <1>3

LEMMA CancelAllFits ==
    ASSUME NEW c \in Conn, NEW d \in LooseState, NEW u \in RemoteState, Fits(c, d, u)
    PROVE  LET e == CancelAllRequests(c, d) IN
           /\ e \in LooseState /\ Fits(c, e, u)
           /\ e.status = d.status /\ e.requests = {}
<1> DEFINE s == SetToSeq({"cancel"} \X d.requests)
           b == [d EXCEPT !.requests = {}, !.peak = @ - Cardinality(d.requests),
                          !.cancelled = IF c \in Fast THEN @ \cup d.requests ELSE @,
                          !.out = @ \o s]
           e == AskIfLow(b, "cancel")
<1>1. CASE d.requests = {}
    BY <1>1 DEF CancelAllRequests
<1>2. CASE d.requests # {}
    <2>1. CancelAllRequests(c, d) = e
        BY <1>2 DEF CancelAllRequests
    <2>2. IsFiniteSet(d.requests) /\ Cardinality(d.requests) \in Nat /\ d.peak \in Int
        BY PeerAssumption, FS_Subset, FS_CardinalityType DEF LooseState
    <2>3. IsFiniteSet({"cancel"} \X d.requests)
        BY <2>2, FS_Product, FS_Singleton
    <2>4. {"cancel"} \X d.requests \subseteq Message
        BY DEF Message, LooseState
    <2>5. /\ s \in Seq({"cancel"} \X d.requests)
          /\ \A i \in 1..Len(s) : s[i] \in {"cancel"} \X d.requests
        <3> DEFINE M == {"cancel"} \X d.requests
        <3>1. IsFiniteSet(M) /\ s = SetToSeq(M)
            BY <2>3
        <3> HIDE DEF M, s
        <3>2. s \in Seq(M) /\ \A i \in 1..Len(s) : s[i] \in M
            BY <3>1, SetToSeqIs
        <3> QED
            BY <3>2 DEF M
    <2>6. /\ d.out \in Seq(Message) /\ s \in Seq(Message)
          /\ \A i \in 1..Len(s) : \A q \in Chunk : s[i] # <<"request", q>>
        <3> HIDE DEF s
        <3> QED
            BY <2>4, <2>5 DEF LooseState
    <2> HIDE DEF s
    <2>7. /\ b.status = d.status /\ b.requests = {} /\ b.expected = d.expected
          /\ b.cancelled = (IF c \in Fast THEN d.cancelled \cup d.requests ELSE d.cancelled)
          /\ b.out = d.out \o s
        BY DEF LooseState
    <2>8. b \in LooseState
        <3>1. d.out \o s \in Seq(Message) /\ d.peak - Cardinality(d.requests) \in Int
            BY <2>2, <2>6
        <3>2. (IF c \in Fast THEN d.cancelled \cup d.requests ELSE d.cancelled) \in SUBSET Chunk
            BY DEF LooseState
        <3> QED
            BY <3>1, <3>2, StopType
    <2> HIDE DEF b
    <2>9. \A q \in Chunk : Count(b.out, <<"request", q>>) = Count(d.out, <<"request", q>>)
        <3> SUFFICES ASSUME NEW q \in Chunk
                     PROVE  Count(b.out, <<"request", q>>) = Count(d.out, <<"request", q>>)
            OBVIOUS
        <3>1. \A i \in 1..Len(s) : s[i] # <<"request", q>>
            BY <2>6
        <3> QED
            BY <2>6, <2>7, <3>1, CountConcat
    <2>10. Fits(c, b, u)
        BY <2>7, <2>9, FewerFits
    <2>11. Like(b, e)
        BY <2>8, AskLike
    <2> HIDE DEF e
    <2>12. e \in LooseState /\ Fits(c, e, u) /\ e.status = d.status /\ e.requests = {}
        BY <2>7, <2>10, <2>11, LikeFits DEF Like
    <2> QED
        BY <2>1, <2>12
<1> QED
    BY <1>1, <1>2

-----------------------------------------------------------------------------
(* Messages on their way.                                                  *)

(* Nothing is lost when what is owed stays owed; without the fast          *)
(* extension requests may be forgotten.                                    *)
LEMMA OwedFits ==
    ASSUME NEW c \in Conn, NEW d \in LooseState, NEW e \in LooseState,
           NEW u \in RemoteState, NEW v \in RemoteState, Fits(c, d, u),
           e.status = d.status, e.requests = d.requests, e.cancelled = d.cancelled,
           e.expected = d.expected,
           Readable => \A r \in Chunk :
               Owed(e, v, r) = Owed(d, u, r) \/
                   (c \notin Fast /\ Owed(e, v, r) <= Owed(d, u, r)),
           c \notin Fast => \A r \in Chunk : Count(v.out, <<"reject", r>>) = 0
    PROVE  Fits(c, e, v)
<1>1. \A r \in Chunk : Owed(e, v, r) \in Nat /\ Owed(d, u, r) \in Nat /\ d.expected[r] \in Int
    BY OwedType DEF LooseState
<1> QED
    BY <1>1 DEF Fits

LEMMA TailType ==
    ASSUME NEW s \in Seq(Message), s # <<>>
    PROVE  Tail(s) \in Seq(Message) /\ Head(s) \in Message /\ Head(s) = s[1]
OBVIOUS

LEMMA ReadType ==
    ASSUME NEW u \in RemoteState, u.out # <<>>
    PROVE  LET v == [u EXCEPT !.out = Tail(@)] IN
           /\ v \in RemoteState /\ v.out = Tail(u.out)
           /\ v.unread = u.unread /\ v.ready = u.ready
<1>1. Tail(u.out) \in Seq(Message)
    BY TailType DEF RemoteState
<1> QED
    BY <1>1 DEF RemoteState

LEMMA ReadOther ==
    ASSUME NEW c \in Conn, NEW d \in LooseState, NEW u \in RemoteState, Fits(c, d, u),
           u.out # <<>>, Head(u.out)[1] \in {"choke", "unchoke"}
    PROVE  Fits(c, d, [u EXCEPT !.out = Tail(@)])
<1> DEFINE v == [u EXCEPT !.out = Tail(@)]
<1>1. v \in RemoteState /\ v.out = Tail(u.out) /\ v.unread = u.unread /\ v.ready = u.ready
    BY ReadType
<1>2. u.out \in Seq(Message)
    BY DEF RemoteState
<1> HIDE DEF v
<1>3. ASSUME NEW r \in Chunk
      PROVE  /\ Count(v.out, <<"piece", r>>) = Count(u.out, <<"piece", r>>)
             /\ Count(v.out, <<"reject", r>>) = Count(u.out, <<"reject", r>>)
    <2>1. Head(u.out) # <<"piece", r>> /\ Head(u.out) # <<"reject", r>>
        OBVIOUS
    <2> QED
        BY <1>1, <1>2, <2>1, CountTail
<1>4. \A r \in Chunk : Owed(d, v, r) = Owed(d, u, r)
    BY <1>1, <1>3 DEF Owed, HavePeerRequest
<1>5. c \notin Fast => \A r \in Chunk : Count(v.out, <<"reject", r>>) = 0
    BY <1>3 DEF Fits
<1>6. Fits(c, d, v)
    BY <1>1, <1>4, <1>5, OwedFits
<1> QED
    BY <1>6 DEF v

(* An answer is taken from the stream.  If reads do not fail it is         *)
(* expected, and with the fast extension it is to a request that was made  *)
(* or cancelled.                                                           *)
LEMMA AnswerFits ==
    ASSUME NEW c \in Conn, NEW d \in LooseState, NEW u \in RemoteState, Fits(c, d, u),
           d.status = "open", u.out # <<>>, Head(u.out)[1] \in {"piece", "reject"}
    PROVE  LET v == [u EXCEPT !.out = Tail(@)]
               r == Head(u.out)[2]
           IN
           /\ v \in RemoteState /\ r \in Chunk
           /\ c \notin Fast => /\ Head(u.out)[1] = "piece"
                               /\ \A q \in Chunk : Count(v.out, <<"reject", q>>) = 0
           /\ Readable => /\ d.expected[r] > 0
                          /\ c \in Fast => r \in d.requests \cup d.cancelled
           /\ \A e \in LooseState :
                 /\ d.expected[r] > 0
                 /\ e.status = "open" /\ e.requests = d.requests \ {r} /\ e.out = d.out
                 /\ e.expected = [d.expected EXCEPT ![r] = @ - 1]
                 /\ e.cancelled = IF r \in d.requests THEN d.cancelled ELSE d.cancelled \ {r}
                 => Fits(c, e, v)
<1> DEFINE v == [u EXCEPT !.out = Tail(@)]
           m == Head(u.out)
           r == m[2]
<1>1. v \in RemoteState /\ v.out = Tail(u.out) /\ v.unread = u.unread /\ v.ready = u.ready
    BY ReadType
<1>2. u.out \in Seq(Message)
    BY DEF RemoteState
<1>3. m \in Message
    BY <1>2, TailType
<1>4. r \in Chunk /\ m = <<m[1], r>>
    BY <1>3, Messages
<1> HIDE DEF v
<1>5. ASSUME NEW q \in Chunk
      PROVE  /\ Count(u.out, <<"piece", q>>) =
                   IF m = <<"piece", q>> THEN Count(v.out, <<"piece", q>>) + 1
                   ELSE Count(v.out, <<"piece", q>>)
             /\ Count(u.out, <<"reject", q>>) =
                   IF m = <<"reject", q>> THEN Count(v.out, <<"reject", q>>) + 1
                   ELSE Count(v.out, <<"reject", q>>)
    <2> HIDE DEF r
    <2> QED
        BY <1>1, <1>2, CountTail
<1> HIDE DEF r, m
<1>6. ASSUME NEW q \in Chunk
      PROVE  /\ Count(v.out, <<"piece", q>>) \in Nat /\ Count(v.out, <<"reject", q>>) \in Nat
             /\ Count(d.out, <<"request", q>>) \in Nat /\ Owed(d, v, q) \in Nat
             /\ d.expected[q] \in Int
    BY <1>1, OwedType DEF LooseState
<1>7. \A q \in Chunk : Owed(d, u, q) = IF q = r THEN Owed(d, v, q) + 1 ELSE Owed(d, v, q)
    <2> SUFFICES ASSUME NEW q \in Chunk
                 PROVE  Owed(d, u, q) = IF q = r THEN Owed(d, v, q) + 1 ELSE Owed(d, v, q)
        OBVIOUS
    <2>1. m[1] \in {"piece", "reject"}
        BY DEF m
    <2>2. q = r <=> (m = <<"piece", q>> \/ m = <<"reject", q>>)
        BY <1>4, <2>1
    <2>3. ~(m = <<"piece", q>> /\ m = <<"reject", q>>)
        OBVIOUS
    <2>4. HavePeerRequest(u, q) <=> HavePeerRequest(v, q)
        BY <1>1 DEF HavePeerRequest
    <2>5. /\ Count(v.out, <<"piece", q>>) \in Nat /\ Count(v.out, <<"reject", q>>) \in Nat
          /\ Count(d.out, <<"request", q>>) \in Nat
        BY <1>6
    <2>6. /\ Count(u.out, <<"piece", q>>) =
                IF m = <<"piece", q>> THEN Count(v.out, <<"piece", q>>) + 1
                ELSE Count(v.out, <<"piece", q>>)
          /\ Count(u.out, <<"reject", q>>) =
                IF m = <<"reject", q>> THEN Count(v.out, <<"reject", q>>) + 1
                ELSE Count(v.out, <<"reject", q>>)
        BY <1>5
    <2> QED
        BY <2>2, <2>3, <2>4, <2>5, <2>6 DEF Owed
<1>8. Readable => d.expected[r] > 0 /\ (c \in Fast => r \in d.requests \cup d.cancelled)
    <2> SUFFICES ASSUME Readable
                 PROVE  d.expected[r] > 0 /\ (c \in Fast => r \in d.requests \cup d.cancelled)
        OBVIOUS
    <2>1. Owed(d, u, r) = Owed(d, v, r) + 1 /\ Owed(d, v, r) \in Nat /\ d.expected[r] \in Int
        BY <1>4, <1>6, <1>7
    <2>2. /\ Owed(d, u, r) <= d.expected[r]
          /\ c \in Fast => d.expected[r] = IF r \in d.requests \cup d.cancelled THEN 1 ELSE 0
        BY <1>4 DEF Fits
    <2> QED
        BY <2>1, <2>2
<1>9. c \notin Fast => m[1] = "piece"
    <2> SUFFICES ASSUME c \notin Fast, m = <<"reject", r>> PROVE FALSE
        BY <1>4 DEF m
    <2>1. Count(u.out, <<"reject", r>>) = Count(v.out, <<"reject", r>>) + 1
        BY <1>4, <1>5
    <2>2. Count(u.out, <<"reject", r>>) = 0 /\ Count(v.out, <<"reject", r>>) \in Nat
        BY <1>4, <1>6 DEF Fits
    <2> QED
        BY <2>1, <2>2
<1>10. c \notin Fast => \A q \in Chunk : Count(v.out, <<"reject", q>>) = 0
    <2> SUFFICES ASSUME c \notin Fast, NEW q \in Chunk
                 PROVE  Count(v.out, <<"reject", q>>) = 0
        OBVIOUS
    <2>1. m # <<"reject", q>>
        BY <1>9
    <2>2. Count(u.out, <<"reject", q>>) = Count(v.out, <<"reject", q>>)
        BY <1>5, <2>1
    <2> QED
        BY <2>2 DEF Fits
<1>11. ASSUME NEW e \in LooseState, d.expected[r] > 0, e.status = "open", e.requests = d.requests \ {r}, e.out = d.out,
              e.expected = [d.expected EXCEPT ![r] = @ - 1],
              e.cancelled = IF r \in d.requests THEN d.cancelled ELSE d.cancelled \ {r}
       PROVE  Fits(c, e, v)
    <2>1. \A q \in Chunk : Owed(e, v, q) = Owed(d, v, q)
        BY <1>11 DEF Owed
    <2>2. \A q \in Chunk : e.expected[q] = IF q = r THEN d.expected[q] - 1 ELSE d.expected[q]
        BY <1>4, <1>11 DEF LooseState
    <2>3. \A q \in Chunk : /\ e.expected[q] >= 0
                           /\ Readable => /\ Owed(e, v, q) <= e.expected[q]
                                          /\ c \in Fast => Owed(e, v, q) = e.expected[q]
        <3> SUFFICES ASSUME NEW q \in Chunk
                     PROVE  /\ e.expected[q] >= 0
                            /\ Readable => /\ Owed(e, v, q) <= e.expected[q]
                                           /\ c \in Fast => Owed(e, v, q) = e.expected[q]
            OBVIOUS
        <3>1. Owed(d, v, q) \in Nat /\ d.expected[q] \in Int
            BY <1>6
        <3>2. /\ d.expected[q] >= 0
              /\ Readable => /\ Owed(d, u, q) <= d.expected[q]
                             /\ c \in Fast => Owed(d, u, q) = d.expected[q]
            BY DEF Fits
        <3> QED
            BY <1>7, <1>11, <2>1, <2>2, <3>1, <3>2
    <2>4. c \in Fast => e.requests \cap e.cancelled = {} /\ r \notin e.requests \cup e.cancelled
        BY <1>11 DEF Fits
    <2>5. c \in Fast => \A q \in Chunk :
              e.expected[q] = IF q \in e.requests \cup e.cancelled THEN 1 ELSE 0
        <3> SUFFICES ASSUME c \in Fast, NEW q \in Chunk
                     PROVE  e.expected[q] = IF q \in e.requests \cup e.cancelled THEN 1 ELSE 0
            OBVIOUS
        <3>1. d.expected[q] = IF q \in d.requests \cup d.cancelled THEN 1 ELSE 0
            BY DEF Fits
        <3>2. q # r => (q \in e.requests \cup e.cancelled <=> q \in d.requests \cup d.cancelled)
            BY <1>11
        <3> QED
            BY <1>11, <2>2, <2>4, <3>1, <3>2
    <2> QED
        BY <1>11, <1>10, <2>3, <2>4, <2>5 DEF Fits
<1> QED
    BY <1>1, <1>4, <1>8, <1>9, <1>11, <1>10 DEF v, r, m

-----------------------------------------------------------------------------
(* The remote end.                                                         *)

LEMMA AskedIs ==
    ASSUME NEW d \in LooseState, d.out # <<>>
    PROVE  LET e == [d EXCEPT !.out = Tail(@)] IN
           /\ e \in LooseState /\ Head(d.out) \in Message
           /\ e.status = d.status /\ e.requests = d.requests /\ e.cancelled = d.cancelled
           /\ e.expected = d.expected /\ e.out = Tail(d.out)
           /\ \A q \in Chunk : Count(d.out, <<"request", q>>) =
                 IF Head(d.out) = <<"request", q>> THEN Count(e.out, <<"request", q>>) + 1
                 ELSE Count(e.out, <<"request", q>>)
<1>1. d.out \in Seq(Message)
    BY DEF LooseState
<1>2. Tail(d.out) \in Seq(Message) /\ Head(d.out) \in Message
    BY <1>1, TailType
<1>3. \A q \in Chunk : Count(d.out, <<"request", q>>) =
          IF Head(d.out) = <<"request", q>> THEN Count(Tail(d.out), <<"request", q>>) + 1
          ELSE Count(Tail(d.out), <<"request", q>>)
    BY <1>1, CountTail
<1> DEFINE e == [d EXCEPT !.out = Tail(@)]
<1>4. /\ e \in LooseState
      /\ e.status = d.status /\ e.requests = d.requests /\ e.cancelled = d.cancelled
      /\ e.expected = d.expected /\ e.out = Tail(d.out)
    BY <1>2 DEF LooseState
<1> HIDE DEF e
<1>5. \A q \in Chunk : Count(d.out, <<"request", q>>) =
          IF Head(d.out) = <<"request", q>> THEN Count(e.out, <<"request", q>>) + 1
          ELSE Count(e.out, <<"request", q>>)
    BY <1>3, <1>4
<1> QED
    BY <1>2, <1>4, <1>5 DEF e

(* A request is withdrawn, and answered.                                   *)
LEMMA WithdrawnIs ==
    ASSUME NEW u \in RemoteState, NEW r \in Chunk
    PROVE  LET v == DeletePeerRequest(u, r) IN
           /\ v \in RemoteState /\ v.out = u.out
           /\ \A q \in Chunk : HavePeerRequest(v, q) <=> HavePeerRequest(u, q) /\ q # r
BY DEF DeletePeerRequest, HavePeerRequest, RemoteState

LEMMA SendIs ==
    ASSUME NEW u \in RemoteState, NEW type, NEW r, <<type, r>> \in Message
    PROVE  LET v == Send(u, type, r) IN
           /\ v \in RemoteState
           /\ v.unread = u.unread /\ v.ready = u.ready
           /\ v.out = Append(u.out, <<type, r>>)
           /\ \A q \in Chunk : HavePeerRequest(v, q) <=> HavePeerRequest(u, q)
           /\ \A m : Count(v.out, m) =
                 IF m = <<type, r>> THEN Count(u.out, m) + 1 ELSE Count(u.out, m)
<1> DEFINE x == <<type, r>>
           v == [u EXCEPT !.out = Append(@, x)]
<1>1. u.out \in Seq(Message)
    BY DEF RemoteState
<1> HIDE DEF x
<1>2. Append(u.out, x) \in Seq(Message)
    BY <1>1 DEF x
<1>3. /\ v \in RemoteState /\ v.out = Append(u.out, x)
      /\ v.unread = u.unread /\ v.ready = u.ready
    BY <1>2 DEF RemoteState
<1> HIDE DEF v
<1>4. \A q \in Chunk : HavePeerRequest(v, q) <=> HavePeerRequest(u, q)
    BY <1>3 DEF HavePeerRequest
<1>5. \A m : Count(v.out, m) = IF m = x THEN Count(u.out, m) + 1 ELSE Count(u.out, m)
    <2> SUFFICES ASSUME NEW m
                 PROVE  Count(v.out, m) = IF m = x THEN Count(u.out, m) + 1 ELSE Count(u.out, m)
        OBVIOUS
    <2>1. x \in Message
        BY DEF x
    <2>2. Count(Append(u.out, x), m) = IF x = m THEN Count(u.out, m) + 1 ELSE Count(u.out, m)
        BY <1>1, <2>1, CountAppend
    <2> QED
        BY <1>3, <2>2
<1> QED
    BY <1>3, <1>4, <1>5 DEF v, x, Send

LEMMA AnsweredIs ==
    ASSUME NEW u \in RemoteState, NEW r \in Chunk, NEW type \in {"piece", "reject"}
    PROVE  LET v == Send(DeletePeerRequest(u, r), type, r) IN
           /\ v \in RemoteState
           /\ \A q \in Chunk :
                 /\ HavePeerRequest(v, q) <=> HavePeerRequest(u, q) /\ q # r
                 /\ Count(v.out, <<"piece", q>>) =
                       IF q = r /\ type = "piece" THEN Count(u.out, <<"piece", q>>) + 1
                       ELSE Count(u.out, <<"piece", q>>)
                 /\ Count(v.out, <<"reject", q>>) =
                       IF q = r /\ type = "reject" THEN Count(u.out, <<"reject", q>>) + 1
                       ELSE Count(u.out, <<"reject", q>>)
<1> DEFINE w == DeletePeerRequest(u, r)
           v == Send(w, type, r)
<1>1. /\ w \in RemoteState /\ w.out = u.out
      /\ \A q \in Chunk : HavePeerRequest(w, q) <=> HavePeerRequest(u, q) /\ q # r
    BY WithdrawnIs
<1>2. <<type, r>> \in Message
    BY Messages
<1> HIDE DEF w
<1>3. /\ v \in RemoteState
      /\ \A q \in Chunk : HavePeerRequest(v, q) <=> HavePeerRequest(w, q)
      /\ \A m : Count(v.out, m) =
            IF m = <<type, r>> THEN Count(w.out, m) + 1 ELSE Count(w.out, m)
    BY <1>1, <1>2, SendIs
<1> HIDE DEF v
<1>4. \A q \in Chunk : /\ <<"piece", q>> = <<type, r>> <=> q = r /\ type = "piece"
                       /\ <<"reject", q>> = <<type, r>> <=> q = r /\ type = "reject"
    OBVIOUS
<1>5. \A q \in Chunk :
          /\ Count(v.out, <<"piece", q>>) =
                IF q = r /\ type = "piece" THEN Count(u.out, <<"piece", q>>) + 1
                ELSE Count(u.out, <<"piece", q>>)
          /\ Count(v.out, <<"reject", q>>) =
                IF q = r /\ type = "reject" THEN Count(u.out, <<"reject", q>>) + 1
                ELSE Count(u.out, <<"reject", q>>)
    BY <1>1, <1>3, <1>4
<1> QED
    BY <1>1, <1>3, <1>5 DEF v, w

(* If reads do not fail, a request that comes over a connection with the   *)
(* fast extension is not held already: two answers would be owed.          *)
LEMMA RequestRead ==
    ASSUME NEW c \in Conn, NEW d \in LooseState, NEW u \in RemoteState, Fits(c, d, u),
           d.status = "open", d.out # <<>>, Head(d.out)[1] = "request"
    PROVE  LET r == Head(d.out)[2]
               e == [d EXCEPT !.out = Tail(@)]
               v == CASE HavePeerRequest(u, r) -> u
                      [] ~HavePeerRequest(u, r) /\ Refuses(u) ->
                            IF c \in Fast THEN Reject(u, r) ELSE u
                      [] OTHER -> [u EXCEPT !.unread = @ \cup {r}]
           IN
           /\ Readable => ~(HavePeerRequest(u, r) /\ c \in Fast)
           /\ e \in LooseState
           /\ e.requests = d.requests /\ e.cancelled = d.cancelled /\ e.expected = d.expected
           /\ ~(HavePeerRequest(u, r) /\ c \in Fast) => v \in RemoteState /\ Fits(c, e, v)
<1> DEFINE m == Head(d.out)
           r == m[2]
           e == [d EXCEPT !.out = Tail(@)]
           v == CASE HavePeerRequest(u, r) -> u
                  [] ~HavePeerRequest(u, r) /\ Refuses(u) ->
                        IF c \in Fast THEN Reject(u, r) ELSE u
                  [] OTHER -> [u EXCEPT !.unread = @ \cup {r}]
<1>1. /\ e \in LooseState /\ m \in Message
      /\ e.status = d.status /\ e.requests = d.requests /\ e.cancelled = d.cancelled
      /\ e.expected = d.expected
      /\ \A q \in Chunk : Count(d.out, <<"request", q>>) =
            IF m = <<"request", q>> THEN Count(e.out, <<"request", q>>) + 1
            ELSE Count(e.out, <<"request", q>>)
    BY AskedIs
<1>2. r \in Chunk /\ m = <<"request", r>>
    BY <1>1, Messages
<1> HIDE DEF e, r, m
<1>3. \A q \in Chunk : Count(d.out, <<"request", q>>) =
          IF q = r THEN Count(e.out, <<"request", q>>) + 1 ELSE Count(e.out, <<"request", q>>)
    BY <1>1, <1>2
<1>4. ASSUME NEW q \in Chunk
      PROVE  /\ Count(e.out, <<"request", q>>) \in Nat /\ Owed(d, u, q) \in Nat
             /\ Count(u.out, <<"piece", q>>) \in Nat /\ Count(u.out, <<"reject", q>>) \in Nat
    BY <1>1, OwedType
<1>5. Readable => ~(HavePeerRequest(u, r) /\ c \in Fast)
    <2> SUFFICES ASSUME Readable, HavePeerRequest(u, r), c \in Fast PROVE FALSE
        OBVIOUS
    <2>1. Owed(d, u, r) = IF r \in d.requests \cup d.cancelled THEN 1 ELSE 0
        BY <1>2 DEF Fits
    <2>2. /\ Count(e.out, <<"request", r>>) \in Nat /\ Owed(d, u, r) \in Nat
          /\ Count(u.out, <<"piece", r>>) \in Nat /\ Count(u.out, <<"reject", r>>) \in Nat
        BY <1>2, <1>4
    <2>3. Count(d.out, <<"request", r>>) = Count(e.out, <<"request", r>>) + 1
        BY <1>2, <1>3
    <2>4. Owed(d, u, r) >= 2
        BY <2>2, <2>3 DEF Owed
    <2> QED
        BY <2>1, <2>4
<1>6. CASE c \notin Fast /\ (HavePeerRequest(u, r) \/ Refuses(u))
    <2>1. v = u
        BY <1>6
    <2> HIDE DEF v
    <2>2. \A q \in Chunk : Owed(e, u, q) <= Owed(d, u, q)
        <3> SUFFICES ASSUME NEW q \in Chunk PROVE Owed(e, u, q) <= Owed(d, u, q)
            OBVIOUS
        <3>1. /\ Count(e.out, <<"request", q>>) \in Nat
              /\ Count(u.out, <<"piece", q>>) \in Nat /\ Count(u.out, <<"reject", q>>) \in Nat
            BY <1>4
        <3> QED
            BY <1>3, <3>1 DEF Owed
    <2>3. \A q \in Chunk : Count(u.out, <<"reject", q>>) = 0
        BY <1>6 DEF Fits
    <2>4. Fits(c, e, u)
        BY <1>1, <1>6, <2>2, <2>3, OwedFits
    <2> QED
        BY <1>1, <1>5, <2>1, <2>4 DEF e, r, m, v
<1>7. CASE c \in Fast /\ ~HavePeerRequest(u, r) /\ Refuses(u)
    <2>1. v = Send(DeletePeerRequest(u, r), "reject", r)
        BY <1>7 DEF Reject
    <2> HIDE DEF v
    <2>2. /\ v \in RemoteState
          /\ \A q \in Chunk :
                /\ HavePeerRequest(v, q) <=> HavePeerRequest(u, q) /\ q # r
                /\ Count(v.out, <<"piece", q>>) = Count(u.out, <<"piece", q>>)
                /\ Count(v.out, <<"reject", q>>) =
                      IF q = r THEN Count(u.out, <<"reject", q>>) + 1
                      ELSE Count(u.out, <<"reject", q>>)
        BY <1>2, <2>1, AnsweredIs
    <2>3. \A q \in Chunk : Owed(e, v, q) = Owed(d, u, q)
        <3> SUFFICES ASSUME NEW q \in Chunk PROVE Owed(e, v, q) = Owed(d, u, q)
            OBVIOUS
        <3>1. /\ Count(e.out, <<"request", q>>) \in Nat
              /\ Count(u.out, <<"piece", q>>) \in Nat /\ Count(u.out, <<"reject", q>>) \in Nat
            BY <1>4
        <3>2. HavePeerRequest(v, q) <=> HavePeerRequest(u, q)
            BY <1>7, <2>2
        <3> QED
            BY <1>3, <2>2, <3>1, <3>2 DEF Owed
    <2>4. Fits(c, e, v)
        BY <1>1, <1>7, <2>2, <2>3, OwedFits
    <2> QED
        BY <1>1, <1>5, <2>2, <2>4 DEF e, r, m, v
<1>8. CASE ~HavePeerRequest(u, r) /\ ~Refuses(u)
    <2>1. v = [u EXCEPT !.unread = @ \cup {r}]
        BY <1>8
    <2>2. /\ v \in RemoteState /\ v.out = u.out
          /\ \A q \in Chunk : HavePeerRequest(v, q) <=> HavePeerRequest(u, q) \/ q = r
        <3> HIDE DEF v
        <3> QED
            BY <1>2, <2>1 DEF RemoteState, HavePeerRequest
    <2> HIDE DEF v
    <2>3. \A q \in Chunk : Owed(e, v, q) = Owed(d, u, q)
        <3> SUFFICES ASSUME NEW q \in Chunk PROVE Owed(e, v, q) = Owed(d, u, q)
            OBVIOUS
        <3>1. /\ Count(e.out, <<"request", q>>) \in Nat
              /\ Count(u.out, <<"piece", q>>) \in Nat /\ Count(u.out, <<"reject", q>>) \in Nat
            BY <1>4
        <3>2. CASE q = r
            <4>1. HavePeerRequest(v, q) /\ ~HavePeerRequest(u, q)
                BY <1>8, <2>2, <3>2
            <4> QED
                BY <1>3, <2>2, <3>1, <3>2, <4>1 DEF Owed
        <3>3. CASE q # r
            <4>1. HavePeerRequest(v, q) <=> HavePeerRequest(u, q)
                BY <2>2, <3>3
            <4> QED
                BY <1>3, <2>2, <3>1, <3>3, <4>1 DEF Owed
        <3> QED
            BY <3>2, <3>3
    <2>4. c \notin Fast => \A q \in Chunk : Count(v.out, <<"reject", q>>) = 0
        BY <2>2 DEF Fits
    <2>5. Fits(c, e, v)
        BY <1>1, <2>2, <2>3, <2>4, OwedFits
    <2> QED
        BY <1>1, <1>5, <2>2, <2>5 DEF e, r, m, v
<1>9. CASE c \in Fast /\ HavePeerRequest(u, r)
    BY <1>1, <1>5, <1>9 DEF e, r, m
<1> QED
    BY <1>6, <1>7, <1>8, <1>9

LEMMA CancelRead ==
    ASSUME NEW c \in Conn, NEW d \in LooseState, NEW u \in RemoteState, Fits(c, d, u),
           d.out # <<>>, Head(d.out)[1] = "cancel"
    PROVE  LET r == Head(d.out)[2]
               e == [d EXCEPT !.out = Tail(@)]
               v == CASE ~HavePeerRequest(u, r) -> u
                      [] HavePeerRequest(u, r) /\ c \in Fast -> Reject(u, r)
                      [] OTHER -> DeletePeerRequest(u, r)
           IN
           /\ e \in LooseState /\ e.status = d.status
           /\ e.requests = d.requests /\ e.cancelled = d.cancelled
           /\ v \in RemoteState /\ Fits(c, e, v)
<1> DEFINE m == Head(d.out)
           r == m[2]
           e == [d EXCEPT !.out = Tail(@)]
           v == CASE ~HavePeerRequest(u, r) -> u
                  [] HavePeerRequest(u, r) /\ c \in Fast -> Reject(u, r)
                  [] OTHER -> DeletePeerRequest(u, r)
<1>1. /\ e \in LooseState /\ m \in Message
      /\ e.status = d.status /\ e.requests = d.requests /\ e.cancelled = d.cancelled
      /\ e.expected = d.expected
      /\ \A q \in Chunk : Count(d.out, <<"request", q>>) =
            IF m = <<"request", q>> THEN Count(e.out, <<"request", q>>) + 1
            ELSE Count(e.out, <<"request", q>>)
    BY AskedIs
<1>2. r \in Chunk /\ m = <<"cancel", r>>
    BY <1>1, Messages
<1> HIDE DEF e, r, m
<1>3. \A q \in Chunk : Count(d.out, <<"request", q>>) = Count(e.out, <<"request", q>>)
    <2>1. \A q \in Chunk : m # <<"request", q>>
        BY <1>2
    <2> QED
        BY <1>1, <2>1
<1>4. ASSUME NEW q \in Chunk
      PROVE  /\ Count(e.out, <<"request", q>>) \in Nat
             /\ Count(u.out, <<"piece", q>>) \in Nat /\ Count(u.out, <<"reject", q>>) \in Nat
    BY <1>1, OwedType
<1>5. c \notin Fast => \A q \in Chunk : Count(u.out, <<"reject", q>>) = 0
    BY DEF Fits
<1>6. CASE ~HavePeerRequest(u, r)
    <2>1. v = u
        BY <1>6
    <2> HIDE DEF v
    <2>2. \A q \in Chunk : Owed(e, u, q) = Owed(d, u, q)
        BY <1>3 DEF Owed
    <2>3. Fits(c, e, u)
        BY <1>1, <1>5, <2>2, OwedFits
    <2> QED
        BY <1>1, <2>1, <2>3 DEF e, r, m, v
<1>7. CASE HavePeerRequest(u, r) /\ c \in Fast
    <2>1. v = Send(DeletePeerRequest(u, r), "reject", r)
        BY <1>7 DEF Reject
    <2> HIDE DEF v
    <2>2. /\ v \in RemoteState
          /\ \A q \in Chunk :
                /\ HavePeerRequest(v, q) <=> HavePeerRequest(u, q) /\ q # r
                /\ Count(v.out, <<"piece", q>>) = Count(u.out, <<"piece", q>>)
                /\ Count(v.out, <<"reject", q>>) =
                      IF q = r THEN Count(u.out, <<"reject", q>>) + 1
                      ELSE Count(u.out, <<"reject", q>>)
        BY <1>2, <2>1, AnsweredIs
    <2>3. \A q \in Chunk : Owed(e, v, q) = Owed(d, u, q)
        <3> SUFFICES ASSUME NEW q \in Chunk PROVE Owed(e, v, q) = Owed(d, u, q)
            OBVIOUS
        <3>1. /\ Count(e.out, <<"request", q>>) \in Nat
              /\ Count(u.out, <<"piece", q>>) \in Nat /\ Count(u.out, <<"reject", q>>) \in Nat
            BY <1>4
        <3>2. CASE q = r
            <4>1. ~HavePeerRequest(v, q) /\ HavePeerRequest(u, q)
                BY <1>7, <2>2, <3>2
            <4> QED
                BY <1>3, <2>2, <3>1, <3>2, <4>1 DEF Owed
        <3>3. CASE q # r
            <4>1. HavePeerRequest(v, q) <=> HavePeerRequest(u, q)
                BY <2>2, <3>3
            <4> QED
                BY <1>3, <2>2, <3>1, <3>3, <4>1 DEF Owed
        <3> QED
            BY <3>2, <3>3
    <2>4. Fits(c, e, v)
        BY <1>1, <1>7, <2>2, <2>3, OwedFits
    <2> QED
        BY <1>1, <2>2, <2>4 DEF e, r, m, v
<1>8. CASE HavePeerRequest(u, r) /\ c \notin Fast
    <2>1. v = DeletePeerRequest(u, r)
        BY <1>8
    <2> HIDE DEF v
    <2>2. /\ v \in RemoteState /\ v.out = u.out
          /\ \A q \in Chunk : HavePeerRequest(v, q) <=> HavePeerRequest(u, q) /\ q # r
        BY <1>2, <2>1, WithdrawnIs
    <2>3. \A q \in Chunk : Owed(e, v, q) <= Owed(d, u, q)
        <3> SUFFICES ASSUME NEW q \in Chunk PROVE Owed(e, v, q) <= Owed(d, u, q)
            OBVIOUS
        <3>1. /\ Count(e.out, <<"request", q>>) \in Nat
              /\ Count(u.out, <<"piece", q>>) \in Nat /\ Count(u.out, <<"reject", q>>) \in Nat
            BY <1>4
        <3>2. HavePeerRequest(v, q) => HavePeerRequest(u, q)
            BY <2>2
        <3> QED
            BY <1>3, <2>2, <3>1, <3>2 DEF Owed
    <2>4. c \notin Fast => \A q \in Chunk : Count(v.out, <<"reject", q>>) = 0
        BY <1>5, <2>2
    <2>5. Fits(c, e, v)
        BY <1>1, <1>8, <2>2, <2>3, <2>4, OwedFits
    <2> QED
        BY <1>1, <2>2, <2>5 DEF e, r, m, v
<1> QED
    BY <1>6, <1>7, <1>8

(* Serving a request moves it, and takes it from nobody.                   *)
LEMMA ServeFits ==
    ASSUME NEW c \in Conn, NEW d \in LooseState, NEW u \in RemoteState, NEW v \in RemoteState,
           Fits(c, d, u), v.out = u.out, v.unread \cup v.ready = u.unread \cup u.ready
    PROVE  Fits(c, d, v)
<1>1. \A r \in Chunk : Owed(d, v, r) = Owed(d, u, r)
    BY DEF Owed, HavePeerRequest
<1>2. c \notin Fast => \A r \in Chunk : Count(v.out, <<"reject", r>>) = 0
    BY DEF Fits
<1> QED
    BY <1>1, <1>2, OwedFits

LEMMA SendChunkFits ==
    ASSUME NEW c \in Conn, NEW d \in LooseState, NEW u \in RemoteState, NEW r \in u.ready,
           Fits(c, d, u)
    PROVE  LET v == Send(DeletePeerRequest(u, r), "piece", r) IN
           v \in RemoteState /\ Fits(c, d, v)
<1> DEFINE v == Send(DeletePeerRequest(u, r), "piece", r)
<1>1. r \in Chunk /\ HavePeerRequest(u, r)
    BY DEF RemoteState, HavePeerRequest
<1>2. /\ v \in RemoteState
      /\ \A q \in Chunk :
            /\ HavePeerRequest(v, q) <=> HavePeerRequest(u, q) /\ q # r
            /\ Count(v.out, <<"reject", q>>) = Count(u.out, <<"reject", q>>)
            /\ Count(v.out, <<"piece", q>>) =
                  IF q = r THEN Count(u.out, <<"piece", q>>) + 1
                  ELSE Count(u.out, <<"piece", q>>)
    BY <1>1, AnsweredIs
<1> HIDE DEF v
<1>3. \A q \in Chunk : Owed(d, v, q) = Owed(d, u, q)
    <2> SUFFICES ASSUME NEW q \in Chunk PROVE Owed(d, v, q) = Owed(d, u, q)
        OBVIOUS
    <2>1. /\ Count(d.out, <<"request", q>>) \in Nat
          /\ Count(u.out, <<"piece", q>>) \in Nat /\ Count(u.out, <<"reject", q>>) \in Nat
        BY OwedType
    <2>2. CASE q = r
        <3>1. ~HavePeerRequest(v, q) /\ HavePeerRequest(u, q)
            BY <1>1, <1>2, <2>2
        <3> QED
            BY <1>2, <2>1, <2>2, <3>1 DEF Owed
    <2>3. CASE q # r
        <3>1. HavePeerRequest(v, q) <=> HavePeerRequest(u, q)
            BY <1>2, <2>3
        <3> QED
            BY <1>2, <2>1, <2>3, <3>1 DEF Owed
    <2> QED
        BY <2>2, <2>3
<1>4. c \notin Fast => \A q \in Chunk : Count(v.out, <<"reject", q>>) = 0
    BY <1>2 DEF Fits
<1>5. Fits(c, d, v)
    BY <1>2, <1>3, <1>4, OwedFits
<1> QED
    BY <1>2, <1>5 DEF v

(* A choke or an unchoke; without the fast extension a choke drops the     *)
(* requests that are held.                                                 *)
LEMMA ChokeFits ==
    ASSUME NEW c \in Conn, NEW d \in LooseState, NEW u \in RemoteState, NEW v \in RemoteState,
           NEW type \in {"choke", "unchoke"}, Fits(c, d, u),
           v.out = Append(u.out, <<type, Nil>>),
           v.unread \cup v.ready = u.unread \cup u.ready
               \/ (c \notin Fast /\ v.unread \cup v.ready = {})
    PROVE  Fits(c, d, v)
<1> DEFINE w == Send(u, type, Nil)
<1>1. <<type, Nil>> \in Message
    BY Messages
<1>2. /\ w.out = Append(u.out, <<type, Nil>>)
      /\ \A m : Count(w.out, m) =
            IF m = <<type, Nil>> THEN Count(u.out, m) + 1 ELSE Count(u.out, m)
    BY <1>1, SendIs
<1> HIDE DEF w
<1>3. \A q \in Chunk : <<"piece", q>> # <<type, Nil>> /\ <<"reject", q>> # <<type, Nil>>
    OBVIOUS
<1>4. \A q \in Chunk : /\ Count(v.out, <<"piece", q>>) = Count(u.out, <<"piece", q>>)
                       /\ Count(v.out, <<"reject", q>>) = Count(u.out, <<"reject", q>>)
    BY <1>2, <1>3
<1>5. \A q \in Chunk : Owed(d, v, q) = Owed(d, u, q) \/
                           (c \notin Fast /\ Owed(d, v, q) <= Owed(d, u, q))
    <2> SUFFICES ASSUME NEW q \in Chunk
                 PROVE  Owed(d, v, q) = Owed(d, u, q) \/
                            (c \notin Fast /\ Owed(d, v, q) <= Owed(d, u, q))
        OBVIOUS
    <2>1. /\ Count(d.out, <<"request", q>>) \in Nat
          /\ Count(u.out, <<"piece", q>>) \in Nat /\ Count(u.out, <<"reject", q>>) \in Nat
        BY OwedType
    <2>2. CASE v.unread \cup v.ready = u.unread \cup u.ready
        BY <1>4, <2>2 DEF Owed, HavePeerRequest
    <2>3. CASE c \notin Fast /\ v.unread \cup v.ready = {}
        <3>1. ~HavePeerRequest(v, q)
            BY <2>3 DEF HavePeerRequest
        <3>2. Owed(d, v, q) = Count(d.out, <<"request", q>>) + 0
                                 + Count(u.out, <<"piece", q>>) + Count(u.out, <<"reject", q>>)
            BY <1>4, <3>1 DEF Owed
        <3>3. Owed(d, u, q) >= Count(d.out, <<"request", q>>)
                                 + Count(u.out, <<"piece", q>>) + Count(u.out, <<"reject", q>>)
            BY <2>1 DEF Owed
        <3> QED
            BY <2>1, <2>3, <3>2, <3>3, OwedType
    <2> QED
        BY <2>2, <2>3
<1>6. c \notin Fast => \A q \in Chunk : Count(v.out, <<"reject", q>>) = 0
    BY <1>4 DEF Fits
<1> QED
    BY <1>5, <1>6, OwedFits

-----------------------------------------------------------------------------
(* The whole torrent.                                                      *)

(* In the middle of applyRequestState the connection it is about is open,  *)
(* and what is left to look at has not been cancelled.                     *)
UpdatingFits ==
    updating # NoUpdate => /\ local[updating.conn].status = "open"
                           /\ updating.left \cap local[updating.conn].cancelled = {}

(* The torrent's requestState agrees with the connections' requests.       *)
Agrees == \A c \in Conn, r \in Chunk : requester[r] = c <=> r \in local[c].requests

(* A request is being served only while there is one, and if reads do not  *)
(* fail the remote peers keep the piece.                                   *)
Serving == \A c \in Conn : /\ remote[c].step # "idle" => remote[c].chunk \in Chunk
                           /\ Readable => remote[c].has

WireInv ==
    /\ local \in [Conn -> LooseState]
    /\ remote \in [Conn -> RemoteState]
    /\ RestType
    /\ \A c \in Conn : Fits(c, local[c], remote[c])
    /\ Agrees
    /\ UpdatingFits
    /\ Readable => NoProtocolError

LEMMA InitWire == Init => WireInv
<1> SUFFICES ASSUME Init PROVE WireInv
    OBVIOUS
<1> USE DEF Init
<1>1. <<>> \in Seq(Message)
    OBVIOUS
<1>2. local \in [Conn -> LooseState] /\ remote \in [Conn -> RemoteState]
    BY <1>1 DEF LooseState, RemoteState
<1>3. RestType
    <2>1. 0 \in 0..MaxChokes /\ 0 \in 0..MaxFailedChecks
        BY PeerAssumption
    <2>2. requester \in [Chunk -> Conn \cup {Nil}]
        OBVIOUS
    <2> QED
        BY <2>1, <2>2 DEF RestType
<1>4. \A m : Count(<<>>, m) = 0
    <2>1. \A m : {i \in 1..Len(<<>>) : <<>>[i] = m} = {}
        OBVIOUS
    <2> QED
        BY <2>1, FS_EmptySet DEF Count
<1>5. ASSUME NEW c \in Conn PROVE Fits(c, local[c], remote[c])
    <2>1. /\ local[c].status = "open" /\ local[c].requests = {} /\ local[c].cancelled = {}
          /\ local[c].expected = [r \in Chunk |-> 0] /\ local[c].out = <<>>
          /\ remote[c].unread = {} /\ remote[c].ready = {} /\ remote[c].out = <<>>
        OBVIOUS
    <2>2. \A r \in Chunk : Owed(local[c], remote[c], r) = 0
        BY <1>4, <2>1 DEF Owed, HavePeerRequest
    <2>3. \A r \in Chunk : local[c].expected[r] = 0 /\ Count(remote[c].out, <<"reject", r>>) = 0
        BY <1>4, <2>1
    <2> HIDE DEF Init
    <2> QED
        BY <2>1, <2>2, <2>3 DEF Fits
<1>6. Agrees
    BY PeerAssumption DEF Agrees
<1> QED
    BY <1>2, <1>3, <1>5, <1>6 DEF WireInv, UpdatingFits, NoProtocolError

-----------------------------------------------------------------------------
(* Steps, by what they change.                                             *)

LEMMA WireStep ==
    ASSUME updating = NoUpdate, updating' = updating, Readable => broken' = {},
           local' \in [Conn -> LooseState], remote' \in [Conn -> RemoteState], RestType',
           Agrees', \A c \in Conn : Fits(c, local'[c], remote'[c])
    PROVE  WireInv'
<1>1. UpdatingFits' /\ (Readable => NoProtocolError')
    BY DEF UpdatingFits, NoProtocolError
<1> QED
    BY <1>1 DEF WireInv

(* One connection and its other end move; its requests stay.               *)
LEMMA OneStep ==
    ASSUME WireInv, NEW c \in Conn, NEW e \in LooseState, NEW v \in RemoteState, Fits(c, e, v),
           e.requests = local[c].requests, updating = NoUpdate,
           local' = [local EXCEPT ![c] = e], remote' = [remote EXCEPT ![c] = v],
           requester' = requester, updating' = updating, Readable => broken' = broken, RestType'
    PROVE  WireInv'
<1>1. local' \in [Conn -> LooseState] /\ remote' \in [Conn -> RemoteState]
    BY DEF WireInv
<1>2. \A x \in Conn : /\ local'[x] = IF x = c THEN e ELSE local[x]
                      /\ remote'[x] = IF x = c THEN v ELSE remote[x]
    BY DEF WireInv
<1>3. \A x \in Conn : Fits(x, local'[x], remote'[x])
    BY <1>2 DEF WireInv
<1>4. Agrees'
    BY <1>2 DEF WireInv, Agrees
<1>5. Readable => broken' = {}
    BY DEF WireInv, NoProtocolError
<1> QED
    BY <1>1, <1>3, <1>4, <1>5, WireStep

(* One that is closed is owed nothing any more.                            *)
LEMMA ClosedFits ==
    ASSUME NEW c \in Conn, NEW d \in LooseState, NEW u, NEW e, NEW v, Fits(c, d, u),
           e.status = "closed", e.requests = d.requests, e.cancelled = d.cancelled,
           e.expected = d.expected,
           c \notin Fast => \A r \in Chunk : Count(v.out, <<"reject", r>>) = 0
    PROVE  Fits(c, e, v)
BY DEF Fits

(* The read loop of either end returns an error.  Nobody does that if      *)
(* reads do not fail.                                                      *)
LEMMA Closes ==
    ASSUME WireInv, ~Readable, NEW c \in Conn, NEW e \in LooseState, NEW v \in RemoteState,
           e.status = "closed", e.requests = local[c].requests,
           e.cancelled = local[c].cancelled, e.expected = local[c].expected,
           c \notin Fast => \A r \in Chunk : Count(v.out, <<"reject", r>>) = 0,
           updating = NoUpdate, local' = [local EXCEPT ![c] = e],
           remote' = [remote EXCEPT ![c] = v], broken' = broken \cup {c},
           UNCHANGED <<requester, later, pieceVars, updating, chokes>>
    PROVE  WireInv'
<1>1. local[c] \in LooseState /\ Fits(c, local[c], remote[c])
    BY DEF WireInv
<1>2. Fits(c, e, v)
    BY <1>1, ClosedFits
<1>3. RestType'
    BY DEF WireInv, RestType, pieceVars
<1> QED
    BY <1>2, <1>3, OneStep

LEMMA Unmoved ==
    ASSUME WireInv, NEW c \in Conn
    PROVE  /\ local[c] \in LooseState /\ remote[c] \in RemoteState
           /\ Fits(c, local[c], remote[c])
           /\ local = [local EXCEPT ![c] = local[c]]
           /\ remote = [remote EXCEPT ![c] = remote[c]]
BY DEF WireInv

LEMMA RestStep ==
    ASSUME RestType, UNCHANGED <<later, pieceVars, updating, chokes>>, broken' = broken,
           requester' \in [Chunk -> Conn \cup {Nil}]
    PROVE  RestType'
BY DEF RestType, pieceVars

(* Requests of S are taken from those that made them.                      *)
LEMMA Unrequested ==
    ASSUME WireInv, NEW S \in SUBSET Chunk, requester' = Unrequest(S),
           \A x \in Conn : local'[x].requests = local[x].requests \ S
    PROVE  Agrees' /\ requester' \in [Chunk -> Conn \cup {Nil}]
<1>1. requester' \in [Chunk -> Conn \cup {Nil}]
    BY DEF WireInv, RestType, Unrequest
<1>2. ASSUME NEW x \in Conn, NEW r \in Chunk
      PROVE  requester'[r] = x <=> r \in local'[x].requests
    <2>1. requester'[r] = IF r \in S THEN Nil ELSE requester[r]
        BY DEF Unrequest
    <2>2. Nil # x
        BY PeerAssumption
    <2>3. requester[r] = x <=> r \in local[x].requests
        BY DEF WireInv, Agrees
    <2> QED
        BY <2>1, <2>2, <2>3
<1> QED
    BY <1>1, <1>2 DEF Agrees

LEMMA DeleteAllLike ==
    ASSUME NEW c \in Conn, NEW next \in [Conn -> LooseState]
    PROVE  LET all == DeleteAllRequests(c, next) IN
           /\ all \in [Conn -> LooseState]
           /\ \A x \in Conn : Like(next[x], all[x])
<1> DEFINE all == DeleteAllRequests(c, next)
<1>1. \A x \in Conn : Like(next[x], next[x]) /\ Like(next[x], AskIfLow(next[x], "other"))
    BY AskLike DEF Like
<1>2. all = next \/ all = [x \in Conn |-> IF next[x].status = "gone" THEN next[x]
                                          ELSE AskIfLow(next[x], "other")]
    BY DEF DeleteAllRequests
<1>3. \A x \in Conn : Like(next[x], all[x])
    <2> HIDE DEF all
    <2> QED
        BY <1>1, <1>2
<1>4. DOMAIN all = Conn /\ all = [x \in Conn |-> all[x]]
    <2> HIDE DEF all
    <2> QED
        BY <1>2
<1> HIDE DEF all
<1>5. all \in [Conn -> LooseState]
    BY <1>3, <1>4 DEF Like
<1> QED
    BY <1>3, <1>5 DEF all

(* A connection loses all its requests, and every one that is low on       *)
(* requests is woken.                                                      *)
LEMMA Forgets ==
    ASSUME WireInv, NEW c \in Conn, NEW e \in LooseState, NEW v \in RemoteState, Fits(c, e, v),
           e.requests = {}, updating = NoUpdate,
           local' = DeleteAllRequests(c, [local EXCEPT ![c] = e]),
           remote' = [remote EXCEPT ![c] = v], requester' = Unrequest(local[c].requests),
           UNCHANGED <<later, pieceVars, updating, broken, chokes>>
    PROVE  WireInv'
<1> DEFINE next == [local EXCEPT ![c] = e]
           all == DeleteAllRequests(c, next)
<1>1. next \in [Conn -> LooseState] /\ remote' \in [Conn -> RemoteState]
    BY DEF WireInv
<1>2. \A x \in Conn : /\ next[x] = IF x = c THEN e ELSE local[x]
                      /\ remote'[x] = IF x = c THEN v ELSE remote[x]
    BY DEF WireInv
<1> HIDE DEF next
<1>3. all \in [Conn -> LooseState] /\ \A x \in Conn : Like(next[x], all[x])
    BY <1>1, DeleteAllLike
<1>4. local' = all
    BY DEF next
<1> HIDE DEF all
<1>5. \A x \in Conn : Fits(x, next[x], remote'[x])
    BY <1>2 DEF WireInv
<1>6. \A x \in Conn : Fits(x, all[x], remote'[x])
    BY <1>3, <1>5, LikeFits
<1>7. local[c].requests \in SUBSET Chunk
    BY DEF WireInv, LooseState
<1>8. \A x \in Conn : all[x].requests = local[x].requests \ local[c].requests
    <2> SUFFICES ASSUME NEW x \in Conn
                 PROVE  all[x].requests = local[x].requests \ local[c].requests
        OBVIOUS
    <2>1. all[x].requests = next[x].requests
        BY <1>3 DEF Like
    <2>2. x # c => local[x].requests \cap local[c].requests = {}
        BY <1>7 DEF WireInv, Agrees
    <2> QED
        BY <1>2, <2>1, <2>2
<1>9. Agrees' /\ requester' \in [Chunk -> Conn \cup {Nil}]
    BY <1>4, <1>7, <1>8, Unrequested
<1>10. RestType' /\ (Readable => broken' = {})
    BY <1>9, RestStep DEF WireInv, NoProtocolError
<1> QED
    BY <1>1, <1>3, <1>4, <1>6, <1>9, <1>10, WireStep

-----------------------------------------------------------------------------
(* The client's steps.                                                     *)

LEMMA ReadChokeWire ==
    ASSUME WireInv, NEW c \in Conn, ReadChoke(c)
    PROVE  WireInv'
<1> DEFINE d == local[c]
           v == [remote[c] EXCEPT !.out = Tail(@)]
<1>1. /\ d \in LooseState /\ remote[c] \in RemoteState /\ Fits(c, d, remote[c])
      /\ local = [local EXCEPT ![c] = d]
    BY Unmoved
<1>2. /\ updating = NoUpdate /\ remote[c].out # <<>> /\ Head(remote[c].out)[1] = "choke"
      /\ remote' = [remote EXCEPT ![c] = v] /\ d.status = "open"
      /\ UNCHANGED <<later, pieceVars, updating, broken, chokes>>
    BY DEF ReadChoke, Reads, WireInv
<1>3. v \in RemoteState
    BY <1>1, <1>2, ReadType
<1>4. Fits(c, d, v)
    BY <1>1, <1>2, ReadOther
<1> HIDE DEF v
<1>5. requester' = requester => RestType'
    BY <1>2, RestStep DEF WireInv, RestType
<1>6. CASE local' = local /\ requester' = requester
    BY <1>1, <1>2, <1>3, <1>4, <1>5, <1>6, OneStep
<1>7. CASE local' = [local EXCEPT ![c].peerChoking = TRUE] /\ requester' = requester
    <2> DEFINE e == [d EXCEPT !.peerChoking = TRUE]
    <2>1. Like(d, e) /\ local' = [local EXCEPT ![c] = e]
        BY <1>1, <1>7 DEF Like, LooseState, WireInv
    <2> HIDE DEF e
    <2>2. Fits(c, e, v) /\ e \in LooseState /\ e.requests = d.requests
        BY <1>4, <2>1, LikeFits DEF Like
    <2> QED
        BY <1>2, <1>3, <1>5, <1>7, <2>1, <2>2, OneStep
<1>8. CASE /\ c \notin Fast /\ requester' = Unrequest(d.requests)
           /\ local' = DeleteAllRequests(c,
                [local EXCEPT ![c].peerChoking = TRUE, ![c].requests = {}])
    <2> DEFINE e == [d EXCEPT !.peerChoking = TRUE, !.requests = {}]
    <2>1. [local EXCEPT ![c].peerChoking = TRUE, ![c].requests = {}] = [local EXCEPT ![c] = e]
        BY DEF WireInv
    <2>2. /\ e \in LooseState /\ e.requests = {} /\ e.expected = d.expected
          /\ e.status = d.status /\ e.out = d.out
        BY <1>1 DEF LooseState
    <2> HIDE DEF e
    <2>3. Fits(c, e, v)
        BY <1>1, <1>2, <1>3, <1>4, <1>8, <2>2, FewerFits
    <2> QED
        BY <1>2, <1>3, <1>8, <2>1, <2>2, <2>3, Forgets
<1> QED
    BY <1>6, <1>7, <1>8 DEF ReadChoke

LEMMA ReadUnchokeWire ==
    ASSUME WireInv, NEW c \in Conn, ReadUnchoke(c)
    PROVE  WireInv'
<1> DEFINE d == local[c]
           v == [remote[c] EXCEPT !.out = Tail(@)]
           b == [d EXCEPT !.peerChoking = FALSE]
           e == IF ~d.peerChoking THEN d
                ELSE IF piece = "wanted" /\ ~disallowed THEN OnNeedUpdateRequests(b, "other")
                ELSE b
<1>1. /\ d \in LooseState /\ remote[c] \in RemoteState /\ Fits(c, d, remote[c])
      /\ local = [local EXCEPT ![c] = d]
    BY Unmoved
<1>2. /\ updating = NoUpdate /\ remote[c].out # <<>> /\ Head(remote[c].out)[1] = "unchoke"
      /\ remote' = [remote EXCEPT ![c] = v]
      /\ UNCHANGED <<requester, later, pieceVars, updating, broken, chokes>>
    BY DEF ReadUnchoke, Reads, WireInv
<1>3. v \in RemoteState
    BY <1>1, <1>2, ReadType
<1>4. Fits(c, d, v)
    BY <1>1, <1>2, ReadOther
<1> HIDE DEF v
<1>5. RestType'
    BY <1>2, RestStep DEF WireInv, RestType
<1>6. Like(d, b) /\ Like(d, d)
    BY <1>1 DEF Like, LooseState
<1>7. local' = [local EXCEPT ![c] = e]
    BY <1>1 DEF ReadUnchoke, WireInv
<1> HIDE DEF b
<1>8. Like(b, OnNeedUpdateRequests(b, "other"))
    BY <1>6, AskLike DEF Like
<1>9. Like(d, e)
    BY <1>6, <1>8 DEF Like
<1> HIDE DEF e
<1>10. Fits(c, e, v) /\ e \in LooseState /\ e.requests = d.requests
    BY <1>4, <1>9, LikeFits DEF Like
<1> QED
    BY <1>2, <1>3, <1>5, <1>7, <1>10, OneStep

(* An answer to r has been taken from the stream: what the connection      *)
(* knows then.                                                             *)
LEMMA AnswerType ==
    ASSUME NEW d \in LooseState, NEW r \in Chunk
    PROVE  /\ [d.expected EXCEPT ![r] = @ - 1] \in [Chunk -> Int]
           /\ (IF r \in d.requests THEN d.cancelled ELSE d.cancelled \ {r}) \in SUBSET Chunk
           /\ d.requests \ {r} \in SUBSET Chunk
BY DEF LooseState

(* One connection loses its request for r, if it had one.                  *)
LEMMA LosesOne ==
    ASSUME WireInv, NEW c \in Conn, NEW e \in LooseState, NEW v \in RemoteState, Fits(c, e, v),
           NEW r \in Chunk, e.requests = local[c].requests \ {r}, updating = NoUpdate,
           local' = [local EXCEPT ![c] = e], remote' = [remote EXCEPT ![c] = v],
           requester' = IF r \in local[c].requests THEN Unrequest({r}) ELSE requester,
           UNCHANGED <<later, pieceVars, updating, broken, chokes>>
    PROVE  WireInv'
<1>1. local' \in [Conn -> LooseState] /\ remote' \in [Conn -> RemoteState]
    BY DEF WireInv
<1>2. \A x \in Conn : /\ local'[x] = IF x = c THEN e ELSE local[x]
                      /\ remote'[x] = IF x = c THEN v ELSE remote[x]
    BY DEF WireInv
<1>3. \A x \in Conn : Fits(x, local'[x], remote'[x])
    BY <1>2 DEF WireInv
<1>4. Agrees' /\ requester' \in [Chunk -> Conn \cup {Nil}]
    <2>1. CASE r \in local[c].requests
        <3>1. \A x \in Conn : x # c => r \notin local[x].requests
            BY <2>1 DEF WireInv, Agrees
        <3>2. \A x \in Conn : local'[x].requests = local[x].requests \ {r}
            BY <1>2, <3>1
        <3> QED
            BY <2>1, <3>2, Unrequested
    <2>2. CASE r \notin local[c].requests
        <3>1. \A x \in Conn : local'[x].requests = local[x].requests
            BY <1>2, <2>2
        <3> QED
            BY <2>2, <3>1 DEF WireInv, RestType, Agrees
    <2> QED
        BY <2>1, <2>2
<1>5. RestType' /\ (Readable => broken' = {})
    BY <1>4, RestStep DEF WireInv, NoProtocolError
<1> QED
    BY <1>1, <1>3, <1>4, <1>5, WireStep

LEMMA ReadRejectWire ==
    ASSUME WireInv, NEW c \in Conn, ReadReject(c)
    PROVE  WireInv'
<1> DEFINE d == local[c]
           r == Received(c)
           v == [remote[c] EXCEPT !.out = Tail(@)]
           n == IF r \in d.requests THEN d.peak - 1 ELSE d.peak
           b == [d EXCEPT !.expected[r] = @ - 1, !.requests = @ \ {r}, !.peak = n,
                          !.cancelled = IF r \in d.requests THEN @ ELSE @ \ {r},
                          !.writing = d.writing]
           e == AskIfLow(b, "reject")
<1>1. d \in LooseState /\ remote[c] \in RemoteState /\ Fits(c, d, remote[c])
    BY Unmoved
<1>2. /\ updating = NoUpdate /\ remote[c].out # <<>> /\ Head(remote[c].out)[1] = "reject"
      /\ remote' = [remote EXCEPT ![c] = v] /\ d.status = "open"
      /\ UNCHANGED <<later, pieceVars, updating, chokes>>
    BY DEF ReadReject, Reads, WireInv
<1>3. v \in RemoteState
    BY <1>1, <1>2, ReadType
<1>4. /\ r \in Chunk /\ c \in Fast
      /\ Readable => r \in d.requests \cup d.cancelled
      /\ \A x \in LooseState :
            /\ d.expected[r] > 0
            /\ x.status = "open" /\ x.requests = d.requests \ {r} /\ x.out = d.out
            /\ x.expected = [d.expected EXCEPT ![r] = @ - 1]
            /\ x.cancelled = IF r \in d.requests THEN d.cancelled ELSE d.cancelled \ {r}
            => Fits(c, x, v)
    BY <1>1, <1>2, AnswerFits DEF Received
<1>5. \/ /\ r \in d.requests \cup d.cancelled
         /\ local' = [local EXCEPT ![c] =
                AskIfLow([d EXCEPT !.requests = @ \ {r},
                                   !.peak = IF r \in d.requests THEN @ - 1 ELSE @,
                                   !.cancelled = IF r \in d.requests THEN @ ELSE @ \ {r},
                                   !.expected[r] = @ - 1],
                         "reject")]
         /\ requester' = IF r \in d.requests THEN Unrequest({r}) ELSE requester
         /\ UNCHANGED broken
      \/ /\ ~Readable
         /\ Breaks(c)
         /\ UNCHANGED requester
    BY <1>4 DEF ReadReject
<1> HIDE DEF r, v
<1>6. CASE ~Readable /\ Breaks(c) /\ UNCHANGED requester
    <2> DEFINE x == [d EXCEPT !.status = "closed"]
    <2>1. /\ x \in LooseState /\ x.status = "closed" /\ x.requests = d.requests
          /\ x.cancelled = d.cancelled /\ x.expected = d.expected
        BY <1>1 DEF LooseState
    <2>2. local' = [local EXCEPT ![c] = x] /\ broken' = broken \cup {c}
        BY <1>6 DEF Breaks, WireInv
    <2> HIDE DEF x
    <2> QED
        BY <1>2, <1>3, <1>4, <1>6, <2>1, <2>2, Closes
<1>7. CASE /\ r \in d.requests \cup d.cancelled
           /\ local' = [local EXCEPT ![c] =
                AskIfLow([d EXCEPT !.requests = @ \ {r},
                                   !.peak = IF r \in d.requests THEN @ - 1 ELSE @,
                                   !.cancelled = IF r \in d.requests THEN @ ELSE @ \ {r},
                                   !.expected[r] = @ - 1],
                         "reject")]
           /\ requester' = IF r \in d.requests THEN Unrequest({r}) ELSE requester
           /\ UNCHANGED broken
    <2>1. [d EXCEPT !.requests = @ \ {r},
                    !.peak = IF r \in d.requests THEN @ - 1 ELSE @,
                    !.cancelled = IF r \in d.requests THEN @ ELSE @ \ {r},
                    !.expected[r] = @ - 1] = b
        BY <1>1, <1>4 DEF LooseState
    <2>2. n \in Int /\ d.writing \in Chunk \cup {Nil}
        BY <1>1 DEF LooseState
    <2> HIDE DEF n
    <2>3. /\ b \in LooseState /\ b.status = d.status /\ b.requests = d.requests \ {r} /\ b.out = d.out
          /\ b.expected = [d.expected EXCEPT ![r] = @ - 1]
          /\ b.cancelled = IF r \in d.requests THEN d.cancelled ELSE d.cancelled \ {r}
        <3>1. /\ [d.expected EXCEPT ![r] = @ - 1] \in [Chunk -> Int]
              /\ (IF r \in d.requests THEN d.cancelled ELSE d.cancelled \ {r}) \in SUBSET Chunk
              /\ d.requests \ {r} \in SUBSET Chunk
            BY <1>1, <1>4, AnswerType
        <3> HIDE DEF d
        <3> QED
            BY <1>1, <1>4, <2>2, <3>1 DEF LooseState
    <2>4. local' = [local EXCEPT ![c] = e]
        BY <1>7, <2>1
    <2> HIDE DEF b
    <2>5. Fits(c, b, v)
        <3>1. d.expected[r] > 0
            BY <1>1, <1>2, <1>4, <1>7 DEF Fits
        <3> QED
            BY <1>2, <1>4, <2>3, <3>1
    <2>6. Like(b, e)
        BY <2>3, AskLike
    <2> HIDE DEF e
    <2>7. Fits(c, e, v) /\ e \in LooseState /\ e.requests = d.requests \ {r}
        BY <2>3, <2>5, <2>6, LikeFits DEF Like
    <2> QED
        BY <1>2, <1>3, <1>4, <1>7, <2>4, <2>7, LosesOne
<1> QED
    BY <1>5, <1>6, <1>7

LEMMA CheckReceivedIs ==
    ASSUME NEW d \in LooseState, NEW r \in Chunk
    PROVE  LET e == CheckReceivedChunk(d, r) IN
           /\ e \in LooseState
           /\ e.status = d.status /\ e.requests = d.requests \ {r} /\ e.out = d.out
           /\ e.expected = [d.expected EXCEPT ![r] = @ - 1]
           /\ e.cancelled = IF r \in d.requests THEN d.cancelled ELSE d.cancelled \ {r}
<1> DEFINE b == [d EXCEPT !.expected[r] = @ - 1, !.requests = @ \ {r},
                          !.cancelled = IF r \in d.requests THEN @ ELSE @ \ {r}]
           e == CheckReceivedChunk(d, r)
<1>1. /\ [d.expected EXCEPT ![r] = @ - 1] \in [Chunk -> Int]
      /\ (IF r \in d.requests THEN d.cancelled ELSE d.cancelled \ {r}) \in SUBSET Chunk
      /\ d.requests \ {r} \in SUBSET Chunk
    BY AnswerType
<1>2. /\ b \in LooseState
      /\ b.status = d.status /\ b.requests = d.requests \ {r} /\ b.out = d.out
      /\ b.expected = [d.expected EXCEPT ![r] = @ - 1]
      /\ b.cancelled = IF r \in d.requests THEN d.cancelled ELSE d.cancelled \ {r}
    BY <1>1 DEF LooseState
<1>3. e = b \/ e = AskIfLow(b, "other")
    BY DEF CheckReceivedChunk
<1> HIDE DEF b, e
<1>4. Like(b, b) /\ Like(b, AskIfLow(b, "other"))
    BY <1>2, AskLike DEF Like
<1>5. Like(b, e)
    BY <1>3, <1>4
<1>6. /\ e \in LooseState
      /\ e.status = d.status /\ e.requests = d.requests \ {r} /\ e.out = d.out
      /\ e.expected = [d.expected EXCEPT ![r] = @ - 1]
      /\ e.cancelled = IF r \in d.requests THEN d.cancelled ELSE d.cancelled \ {r}
    BY <1>2, <1>5 DEF Like
<1> QED
    BY <1>6 DEF e

LEMMA ReceiveChunkWire ==
    ASSUME WireInv, NEW c \in Conn, ReceiveChunk(c)
    PROVE  WireInv'
<1> DEFINE d == local[c]
           r == Received(c)
           v == [remote[c] EXCEPT !.out = Tail(@)]
           b == CheckReceivedChunk(d, r)
           e == [b EXCEPT !.writing = r]
           next == [local EXCEPT ![c] = e]
           holder == requester[r]
<1>1. d \in LooseState /\ remote[c] \in RemoteState /\ Fits(c, d, remote[c])
    BY Unmoved
<1>2. /\ updating = NoUpdate /\ remote[c].out # <<>> /\ Head(remote[c].out)[1] = "piece"
      /\ remote' = [remote EXCEPT ![c] = v] /\ d.status = "open"
      /\ UNCHANGED <<piece, disallowed, failedChecks, updating, chokes>>
    BY DEF ReceiveChunk, Reads, WireInv
<1>3. v \in RemoteState
    BY <1>1, <1>2, ReadType
<1>4. /\ r \in Chunk /\ (Readable => d.expected[r] > 0)
      /\ c \notin Fast => \A q \in Chunk : Count(v.out, <<"reject", q>>) = 0
      /\ \A x \in LooseState :
            /\ d.expected[r] > 0
            /\ x.status = "open" /\ x.requests = d.requests \ {r} /\ x.out = d.out
            /\ x.expected = [d.expected EXCEPT ![r] = @ - 1]
            /\ x.cancelled = IF r \in d.requests THEN d.cancelled ELSE d.cancelled \ {r}
            => Fits(c, x, v)
    BY <1>1, <1>2, AnswerFits DEF Received
<1>5. \/ ~Readable /\ Breaks(c) /\ UNCHANGED <<requester, later, dirty>>
      \/ /\ d.expected[r] > 0
         /\ local' = [local EXCEPT ![c] = b]
         /\ requester' = IF r \in d.requests THEN Unrequest({r}) ELSE requester
         /\ UNCHANGED <<later, dirty, broken>>
      \/ /\ d.expected[r] > 0
         /\ local' = CancelOthers(c, r, next)
         /\ requester' = Unrequest({r})
         /\ later' = (later \ (Conn \X {c})) \cup ({c} \X (Conn \ {c}))
         /\ dirty' = dirty \cup {r}
         /\ UNCHANGED broken
    <2>1. Readable => d.expected[r] # 0
        <3>1. d.expected[r] \in Int
            BY <1>1, <1>4 DEF LooseState
        <3> QED
            BY <1>4, <3>1
    <2> QED
        BY <2>1 DEF ReceiveChunk
<1> HIDE DEF r, v
<1>6. /\ b \in LooseState
      /\ b.status = d.status /\ b.requests = d.requests \ {r} /\ b.out = d.out
      /\ b.expected = [d.expected EXCEPT ![r] = @ - 1]
      /\ b.cancelled = IF r \in d.requests THEN d.cancelled ELSE d.cancelled \ {r}
    <2> HIDE DEF d
    <2> QED
        BY <1>1, <1>4, CheckReceivedIs
<1> HIDE DEF b
<1>7. d.expected[r] > 0 => Fits(c, b, v)
    BY <1>2, <1>4, <1>6
<1>8. CASE /\ d.expected[r] > 0
           /\ local' = [local EXCEPT ![c] = b]
           /\ requester' = IF r \in d.requests THEN Unrequest({r}) ELSE requester
           /\ UNCHANGED <<later, dirty, broken>>
    <2>1. UNCHANGED <<later, pieceVars, updating, broken, chokes>>
        BY <1>2, <1>8 DEF pieceVars
    <2> QED
        BY <1>2, <1>3, <1>4, <1>6, <1>7, <1>8, <2>1, LosesOne
<1>9. CASE /\ d.expected[r] > 0
           /\ local' = CancelOthers(c, r, next)
           /\ requester' = Unrequest({r})
           /\ later' = (later \ (Conn \X {c})) \cup ({c} \X (Conn \ {c}))
           /\ dirty' = dirty \cup {r}
           /\ UNCHANGED broken
    <2>1. Like(b, e)
        BY <1>4, <1>6 DEF Like, LooseState
    <2> HIDE DEF e
    <2>2. e \in LooseState /\ Fits(c, e, v) /\ e.requests = d.requests \ {r}
        BY <1>6, <1>7, <1>9, <2>1, LikeFits DEF Like
    <2>3. \A x \in Conn : /\ next[x] = IF x = c THEN e ELSE local[x]
                          /\ remote'[x] = IF x = c THEN v ELSE remote[x]
        BY <1>2 DEF WireInv
    <2>4. next \in [Conn -> LooseState] /\ remote' \in [Conn -> RemoteState]
        BY <1>2, <1>3, <2>2 DEF WireInv
    <2>5. \A x \in Conn : requester[r] = x <=> r \in local[x].requests
        BY <1>4 DEF WireInv, Agrees
    <2> HIDE DEF next
    <2>6. \A x \in Conn : /\ local'[x] \in LooseState
                          /\ Fits(x, local'[x], remote'[x])
                          /\ local'[x].requests = local[x].requests \ {r}
        <3> SUFFICES ASSUME NEW x \in Conn
                     PROVE  /\ local'[x] \in LooseState
                            /\ Fits(x, local'[x], remote'[x])
                            /\ local'[x].requests = local[x].requests \ {r}
            OBVIOUS
        <3>1. local[x] \in LooseState /\ remote[x] \in RemoteState /\ Fits(x, local[x], remote[x])
            BY Unmoved
        <3>2. CASE x = c
            <4>1. local'[x] = e
                BY <1>9, <2>3, <2>4, <3>2 DEF CancelOthers
            <4> QED
                BY <2>2, <2>3, <3>2, <4>1
        <3>3. CASE x # c /\ holder = x
            <4>1. local'[x] = Cancel(x, local[x], r)
                <5>1. holder \notin {c, Nil}
                    BY <3>3, PeerAssumption
                <5>2. local' = [next EXCEPT ![holder] = Cancel(holder, @, r)]
                    BY <1>9, <5>1 DEF CancelOthers
                <5> QED
                    BY <2>3, <2>4, <3>3, <5>2
            <4>2. r \in local[x].requests
                BY <2>5, <3>3
            <4> DEFINE f == Cancel(x, local[x], r)
            <4>3. f \in LooseState /\ Fits(x, f, remote[x]) /\ f.requests = local[x].requests \ {r}
                BY <3>1, <4>2, CancelFits
            <4> HIDE DEF f
            <4>4. local'[x] = f
                BY <4>1 DEF f
            <4> QED
                BY <2>3, <3>3, <4>3, <4>4
        <3>4. CASE x # c /\ holder # x
            <4>1. local'[x] = local[x]
                BY <1>9, <2>3, <2>4, <3>4 DEF CancelOthers
            <4>2. r \notin local[x].requests
                BY <2>5, <3>4
            <4> QED
                BY <2>3, <3>1, <3>4, <4>1, <4>2
        <3> QED
            BY <3>2, <3>3, <3>4
    <2>7. local' \in [Conn -> LooseState]
        <3>1. local' = [x \in Conn |-> local'[x]]
            BY <1>9, <2>4 DEF CancelOthers
        <3> QED
            BY <2>6, <3>1
    <2>8. Agrees' /\ requester' \in [Chunk -> Conn \cup {Nil}]
        BY <1>4, <1>9, <2>6, Unrequested
    <2>9. RestType' /\ (Readable => broken' = {})
        BY <1>2, <1>4, <1>9, <2>8 DEF WireInv, RestType, NoProtocolError
    <2> QED
        BY <1>2, <2>4, <2>6, <2>7, <2>8, <2>9, WireStep
<1>10. CASE ~Readable /\ Breaks(c) /\ UNCHANGED <<requester, later, dirty>>
    <2> DEFINE x == [d EXCEPT !.status = "closed"]
    <2>1. /\ x \in LooseState /\ x.status = "closed" /\ x.requests = d.requests
          /\ x.cancelled = d.cancelled /\ x.expected = d.expected
        BY <1>1 DEF LooseState
    <2>2. local' = [local EXCEPT ![c] = x] /\ broken' = broken \cup {c}
        BY <1>10 DEF Breaks, WireInv
    <2>3. UNCHANGED <<requester, later, pieceVars, updating, chokes>>
        BY <1>2, <1>10 DEF pieceVars
    <2> HIDE DEF x
    <2> QED
        BY <1>2, <1>3, <1>4, <1>10, <2>1, <2>2, <2>3, Closes
<1> QED
    BY <1>5, <1>8, <1>9, <1>10

LEMMA ChunkWrittenWire ==
    ASSUME WireInv, NEW c \in Conn, ChunkWritten(c)
    PROVE  WireInv'
<1> DEFINE d == local[c]
           e == [d EXCEPT !.writing = Nil]
<1>1. /\ d \in LooseState /\ remote[c] \in RemoteState /\ Fits(c, d, remote[c])
      /\ remote = [remote EXCEPT ![c] = remote[c]]
    BY Unmoved
<1>2. local' = [local EXCEPT ![c] = e]
    BY DEF ChunkWritten, WireInv
<1>3. Like(d, e)
    BY <1>1 DEF Like, LooseState
<1> HIDE DEF e
<1>4. Fits(c, e, remote[c]) /\ e \in LooseState /\ e.requests = d.requests
    BY <1>1, <1>3, LikeFits DEF Like
<1>5. RestType'
    BY DEF WireInv, RestType, ChunkWritten
<1>6. /\ updating = NoUpdate /\ remote' = remote
      /\ requester' = requester /\ updating' = updating /\ broken' = broken
    BY DEF ChunkWritten
<1> QED
    BY <1>1, <1>2, <1>4, <1>5, <1>6, OneStep

(* Every connection's requests are cancelled.                              *)
LEMMA CancelsEverywhere ==
    ASSUME WireInv, NEW next \in [Conn -> LooseState],
           \A x \in Conn : Like(local[x], next[x]),
           local' = [x \in Conn |-> IF next[x].status = "gone" THEN next[x]
                                    ELSE CancelAllRequests(x, next[x])],
           requester' = [r \in Chunk |-> Nil], remote' = remote,
           updating = NoUpdate, updating' = updating, broken' = broken,
           RestType'
    PROVE  WireInv'
<1>1. ASSUME NEW x \in Conn
      PROVE  /\ local'[x] \in LooseState
             /\ Fits(x, local'[x], remote'[x])
             /\ local'[x].requests = {}
    <2>1. remote[x] \in RemoteState /\ Fits(x, local[x], remote[x])
        BY Unmoved
    <2> DEFINE n == next[x]
    <2>2. n \in LooseState /\ Fits(x, n, remote[x])
        BY <2>1, LikeFits
    <2>3. CASE n.status = "gone"
        <3>1. n.requests = {}
            BY <2>2, <2>3 DEF Fits
        <3> QED
            BY <2>2, <2>3, <3>1
    <2>4. CASE n.status # "gone"
        <3> DEFINE f == CancelAllRequests(x, n)
        <3> HIDE DEF n
        <3>1. f \in LooseState /\ Fits(x, f, remote[x]) /\ f.requests = {}
            BY <2>1, <2>2, CancelAllFits
        <3> HIDE DEF f
        <3>2. local'[x] = f
            BY <2>4 DEF n, f
        <3> QED
            BY <3>1, <3>2
    <2> QED
        BY <2>3, <2>4
<1>2. local' \in [Conn -> LooseState]
    BY <1>1
<1>3. Agrees'
    BY <1>1, PeerAssumption DEF Agrees
<1>4. remote' \in [Conn -> RemoteState] /\ (Readable => broken' = {})
    BY DEF WireInv, NoProtocolError
<1> QED
    BY <1>1, <1>2, <1>3, <1>4, WireStep

LEMMA WriteFailsWire ==
    ASSUME WireInv, NEW c \in Conn, WriteFails(c)
    PROVE  WireInv'
<1> DEFINE written(x) == IF x = c THEN [local[x] EXCEPT !.writing = Nil] ELSE local[x]
           next == [x \in Conn |-> IF local[x].status = "gone" THEN written(x)
                                   ELSE OnNeedUpdateRequests(written(x), "other")]
<1>1. \A x \in Conn : Like(local[x], written(x))
    BY DEF WireInv, Like, LooseState
<1> HIDE DEF written
<1>2. \A x \in Conn : Like(local[x], OnNeedUpdateRequests(written(x), "other"))
    <2> SUFFICES ASSUME NEW x \in Conn
                 PROVE  Like(local[x], OnNeedUpdateRequests(written(x), "other"))
        OBVIOUS
    <2>1. Like(local[x], written(x))
        BY <1>1
    <2>2. Like(written(x), OnNeedUpdateRequests(written(x), "other"))
        BY <2>1, AskLike DEF Like
    <2> QED
        BY <2>1, <2>2 DEF Like
<1>3. \A x \in Conn : Like(local[x], next[x])
    BY <1>1, <1>2
<1>4. next \in [Conn -> LooseState]
    BY <1>3 DEF Like
<1>5. local' = [x \in Conn |-> IF next[x].status = "gone" THEN next[x]
                               ELSE CancelAllRequests(x, next[x])]
    <2>1. local' = [x \in Conn |-> IF written(x).status = "gone" THEN written(x)
                ELSE CancelAllRequests(x, OnNeedUpdateRequests(written(x), "other"))]
        BY DEF WriteFails, written
    <2>2. ASSUME NEW x \in Conn
          PROVE  (IF written(x).status = "gone" THEN written(x)
                  ELSE CancelAllRequests(x, OnNeedUpdateRequests(written(x), "other")))
                 = (IF next[x].status = "gone" THEN next[x]
                    ELSE CancelAllRequests(x, next[x]))
        <3>1. written(x).status = local[x].status /\ next[x].status = local[x].status
            BY <1>1, <1>3 DEF Like
        <3>2. next[x] = IF local[x].status = "gone" THEN written(x)
                        ELSE OnNeedUpdateRequests(written(x), "other")
            OBVIOUS
        <3> HIDE DEF next
        <3> QED
            BY <3>1, <3>2
    <2> HIDE DEF next
    <2> QED
        BY <2>1, <2>2
<1> HIDE DEF next
<1>6. RestType'
    BY DEF WireInv, RestType, WriteFails
<1>7. /\ requester' = [r \in Chunk |-> Nil] /\ remote' = remote
      /\ updating = NoUpdate /\ updating' = updating /\ broken' = broken
    BY DEF WriteFails
<1> QED
    BY <1>3, <1>4, <1>5, <1>6, <1>7, CancelsEverywhere

LEMMA CheckPassesWire == WireInv /\ CheckPasses => WireInv'
<1> SUFFICES ASSUME WireInv, CheckPasses PROVE WireInv'
    OBVIOUS
<1>1. local \in [Conn -> LooseState] /\ \A x \in Conn : Like(local[x], local[x])
    BY DEF WireInv, Like
<1>2. RestType'
    BY DEF WireInv, RestType, CheckPasses
<1>3. /\ local' = [x \in Conn |-> IF local[x].status = "gone" THEN local[x]
                                  ELSE CancelAllRequests(x, local[x])]
      /\ requester' = [r \in Chunk |-> Nil] /\ remote' = remote
      /\ updating = NoUpdate /\ updating' = updating /\ broken' = broken
    BY DEF CheckPasses
<1> QED
    BY <1>1, <1>2, <1>3, CancelsEverywhere

LEMMA CheckFailsWire == WireInv /\ CheckFails => WireInv'
<1> SUFFICES ASSUME WireInv, CheckFails PROVE WireInv'
    OBVIOUS
<1>1. local' = [c \in Conn |-> IF c \in Conns /\ ~disallowed /\ ~local[c].peerChoking
                               THEN AskIfLow(local[c], "other") ELSE local[c]]
    BY DEF CheckFails, UpdatePeerRequestsForPiece
<1>2. \A c \in Conn : Like(local[c], local[c]) /\ Like(local[c], AskIfLow(local[c], "other"))
    BY AskLike DEF WireInv, Like
<1>3. \A c \in Conn : Like(local[c], local'[c])
    BY <1>1, <1>2
<1>4. local' \in [Conn -> LooseState]
    BY <1>1, <1>3 DEF Like
<1>5. /\ requester' = requester /\ remote' = remote
      /\ updating = NoUpdate /\ updating' = updating /\ broken' = broken
    BY DEF CheckFails
<1>6. \A c \in Conn : Fits(c, local'[c], remote'[c])
    BY <1>3, <1>5, LikeFits DEF WireInv
<1>7. Agrees'
    BY <1>3, <1>5 DEF WireInv, Agrees, Like
<1>8. RestType'
    <2>1. failedChecks' \in 0..MaxFailedChecks
        BY PeerAssumption DEF WireInv, RestType, CheckFails
    <2> QED
        BY <2>1 DEF WireInv, RestType, CheckFails
<1>9. (Readable => broken' = {}) /\ remote' \in [Conn -> RemoteState]
    BY <1>5 DEF WireInv, NoProtocolError
<1> QED
    BY <1>4, <1>5, <1>6, <1>7, <1>8, <1>9, WireStep

LEMMA CloseConnWire ==
    ASSUME WireInv, NEW c \in Conn, CloseConn(c)
    PROVE  WireInv'
<1> DEFINE d == local[c]
           e == [d EXCEPT !.status = "closed"]
<1>1. /\ d \in LooseState /\ remote[c] \in RemoteState /\ Fits(c, d, remote[c])
      /\ remote = [remote EXCEPT ![c] = remote[c]]
    BY Unmoved
<1>2. local' = [local EXCEPT ![c] = e]
    BY DEF CloseConn, WireInv
<1>3. /\ e \in LooseState /\ e.requests = d.requests /\ e.expected = d.expected
      /\ e.cancelled = d.cancelled /\ e.out = d.out /\ e.status = "closed"
    BY <1>1 DEF LooseState
<1> HIDE DEF e
<1>4. Fits(c, e, remote[c])
    BY <1>1, <1>3 DEF Fits
<1>5. /\ updating = NoUpdate /\ remote' = remote /\ requester' = requester
      /\ UNCHANGED <<later, pieceVars, updating, broken, chokes>>
    BY DEF CloseConn
<1>6. RestType'
    BY <1>5, RestStep DEF WireInv, RestType
<1> QED
    BY <1>1, <1>2, <1>3, <1>4, <1>5, <1>6, OneStep

LEMMA DropConnectionWire ==
    ASSUME WireInv, NEW c \in Conn, DropConnection(c)
    PROVE  WireInv'
<1> DEFINE d == local[c]
           e == [d EXCEPT !.status = "gone", !.requests = {}]
<1>1. /\ d \in LooseState /\ remote[c] \in RemoteState /\ Fits(c, d, remote[c])
      /\ remote = [remote EXCEPT ![c] = remote[c]]
    BY Unmoved
<1>2. [local EXCEPT ![c].status = "gone", ![c].requests = {}] = [local EXCEPT ![c] = e]
    BY DEF WireInv
<1>3. /\ e \in LooseState /\ e.requests = {} /\ e.expected = d.expected
      /\ e.cancelled = d.cancelled /\ e.out = d.out /\ e.status = "gone"
    BY <1>1 DEF LooseState
<1> HIDE DEF e
<1>4. Fits(c, e, remote[c])
    BY <1>1, <1>3 DEF Fits
<1>5. /\ updating = NoUpdate /\ remote' = remote
      /\ local' = DeleteAllRequests(c, [local EXCEPT ![c] = e])
      /\ requester' = Unrequest(d.requests)
      /\ UNCHANGED <<later, pieceVars, updating, broken, chokes>>
    BY <1>2 DEF DropConnection
<1> QED
    BY <1>1, <1>3, <1>4, <1>5, Forgets

-----------------------------------------------------------------------------
(* The remote peers' steps.                                                *)

LEMMA OnReadRequestWire ==
    ASSUME WireInv, Serving, NEW c \in Conn, OnReadRequest(c)
    PROVE  WireInv'
<1> DEFINE d == local[c]
           u == remote[c]
           r == Asked(c)
           e == [d EXCEPT !.out = Tail(@)]
           v == CASE HavePeerRequest(u, r) -> u
                  [] ~HavePeerRequest(u, r) /\ Refuses(u) ->
                        IF c \in Fast THEN Reject(u, r) ELSE u
                  [] OTHER -> [u EXCEPT !.unread = @ \cup {r}]
<1>1. d \in LooseState /\ u \in RemoteState /\ Fits(c, d, u)
    BY Unmoved
<1>2. d.status = "open" /\ d.out # <<>> /\ Head(d.out)[1] = "request" /\ updating = NoUpdate
    BY DEF OnReadRequest, RemoteReads, RemoteRuns
<1>3. /\ Readable => ~(HavePeerRequest(u, r) /\ c \in Fast)
      /\ e \in LooseState /\ e.requests = d.requests
      /\ e.cancelled = d.cancelled /\ e.expected = d.expected
      /\ ~(HavePeerRequest(u, r) /\ c \in Fast) => v \in RemoteState /\ Fits(c, e, v)
    <2> HIDE DEF d, u
    <2>1. r = Head(d.out)[2]
        BY DEF Asked, d
    <2> QED
        BY <1>1, <1>2, <2>1, RequestRead
<1>4. requester' = requester /\ UNCHANGED <<later, pieceVars, updating, chokes>>
    BY DEF OnReadRequest
<1>5. CASE ~Kicks(c, u, r)
    <2>0. ~(HavePeerRequest(u, r) /\ c \in Fast)
        BY <1>5 DEF Kicks
    <2>1. /\ local' = [local EXCEPT ![c] = e] /\ remote' = [remote EXCEPT ![c] = v]
          /\ broken' = broken
        BY <1>5 DEF OnReadRequest, WireInv
    <2> HIDE DEF e, v
    <2>2. RestType'
        BY <1>4, <2>1, RestStep DEF WireInv, RestType
    <2> QED
        BY <1>2, <1>3, <1>4, <2>0, <2>1, <2>2, OneStep
<1>6. CASE Kicks(c, u, r)
    <2>0. ~Readable
        BY <1>3, <1>6 DEF Kicks, Serving
    <2> DEFINE x == [e EXCEPT !.status = "closed"]
    <2>1. local' = [local EXCEPT ![c] = x] /\ remote' = remote /\ broken' = broken \cup {c}
        BY <1>6 DEF OnReadRequest, WireInv
    <2> HIDE DEF e
    <2>2. /\ x \in LooseState /\ x.status = "closed" /\ x.requests = d.requests
          /\ x.cancelled = d.cancelled /\ x.expected = d.expected
        BY <1>3 DEF LooseState
    <2> HIDE DEF x
    <2>3. remote' = [remote EXCEPT ![c] = u]
        BY <2>1 DEF WireInv
    <2> QED
        <3>1. c \notin Fast => \A q \in Chunk : Count(u.out, <<"reject", q>>) = 0
            BY <1>1 DEF Fits
        <3> QED
            BY <1>1, <1>2, <1>4, <2>0, <2>1, <2>2, <2>3, <3>1, Closes
<1> QED
    BY <1>5, <1>6

LEMMA OnPeerSentCancelWire ==
    ASSUME WireInv, NEW c \in Conn, OnPeerSentCancel(c)
    PROVE  WireInv'
<1> DEFINE d == local[c]
           u == remote[c]
           r == Asked(c)
           e == [d EXCEPT !.out = Tail(@)]
           v == CASE ~HavePeerRequest(u, r) -> u
                  [] HavePeerRequest(u, r) /\ c \in Fast -> Reject(u, r)
                  [] OTHER -> DeletePeerRequest(u, r)
<1>1. d \in LooseState /\ u \in RemoteState /\ Fits(c, d, u)
    BY Unmoved
<1>2. d.out # <<>> /\ Head(d.out)[1] = "cancel" /\ updating = NoUpdate
    BY DEF OnPeerSentCancel, RemoteReads, RemoteRuns
<1>3. e \in LooseState /\ e.requests = d.requests /\ v \in RemoteState /\ Fits(c, e, v)
    <2> HIDE DEF d, u
    <2>1. r = Head(d.out)[2]
        BY DEF Asked, d
    <2> QED
        BY <1>1, <1>2, <2>1, CancelRead
<1>4. /\ local' = [local EXCEPT ![c] = e] /\ remote' = [remote EXCEPT ![c] = v]
      /\ requester' = requester
      /\ UNCHANGED <<later, pieceVars, updating, broken, chokes>>
    BY DEF OnPeerSentCancel, WireInv
<1> HIDE DEF e, v
<1>5. RestType'
    BY <1>4, RestStep DEF WireInv, RestType
<1> QED
    BY <1>2, <1>3, <1>4, <1>5, OneStep

LEMMA RemoteOnly ==
    ASSUME WireInv, NEW c \in Conn, NEW v \in RemoteState, Fits(c, local[c], v),
           RemoteSteps(c, v)
    PROVE  WireInv'
<1>1. local[c] \in LooseState /\ local = [local EXCEPT ![c] = local[c]]
    BY Unmoved
<1>2. /\ updating = NoUpdate /\ local' = local /\ remote' = [remote EXCEPT ![c] = v]
      /\ requester' = requester /\ UNCHANGED <<later, pieceVars, updating, broken, chokes>>
    BY DEF RemoteSteps, RemoteRuns
<1>3. RestType'
    BY <1>2, RestStep DEF WireInv, RestType
<1> QED
    BY <1>1, <1>2, <1>3, OneStep

LEMMA ServesWire ==
    ASSUME WireInv, NEW c \in Conn,
           \/ ServePeerRequest(c) \/ WaitForDataAlloc(c) \/ PeerRequestDataRead(c)
    PROVE  WireInv'
<1> DEFINE u == remote[c]
<1>1. local[c] \in LooseState /\ u \in RemoteState /\ Fits(c, local[c], u)
    BY Unmoved
<1>2. CASE ServePeerRequest(c)
    <2>1. PICK r \in u.unread, step \in {"alloc", "reading"} :
              RemoteSteps(c, [u EXCEPT !.step = step, !.chunk = r])
        BY <1>2 DEF ServePeerRequest
    <2> DEFINE v == [u EXCEPT !.step = step, !.chunk = r]
    <2>2. v \in RemoteState /\ v.out = u.out /\ v.unread \cup v.ready = u.unread \cup u.ready
        BY <1>1 DEF RemoteState
    <2>3. RemoteSteps(c, v)
        BY <2>1
    <2> HIDE DEF v
    <2> QED
        BY <1>1, <2>2, <2>3, ServeFits, RemoteOnly
<1>3. CASE WaitForDataAlloc(c)
    <2>0. PICK step \in {"alloc", "reading"} : RemoteSteps(c, [u EXCEPT !.step = step])
        BY <1>3 DEF WaitForDataAlloc
    <2> DEFINE v == [u EXCEPT !.step = step]
    <2>1. v \in RemoteState /\ v.out = u.out /\ v.unread \cup v.ready = u.unread \cup u.ready
        BY <1>1 DEF RemoteState
    <2>2. RemoteSteps(c, v)
        BY <2>0
    <2> HIDE DEF v
    <2> QED
        BY <1>1, <2>1, <2>2, ServeFits, RemoteOnly
<1>4. CASE PeerRequestDataRead(c)
    <2> DEFINE v == [u EXCEPT !.step = "idle", !.chunk = Nil, !.unread = @ \ {u.chunk},
                              !.ready = IF u.chunk \in u.unread THEN @ \cup {u.chunk} ELSE @]
    <2>1. /\ v \in RemoteState /\ v.out = u.out
          /\ v.unread = u.unread \ {u.chunk}
          /\ v.ready = IF u.chunk \in u.unread THEN u.ready \cup {u.chunk} ELSE u.ready
        <3>1. (IF u.chunk \in u.unread THEN u.ready \cup {u.chunk} ELSE u.ready) \in SUBSET Chunk
            BY <1>1 DEF RemoteState
        <3>2. u.unread \ {u.chunk} \in SUBSET Chunk
            BY <1>1 DEF RemoteState
        <3> QED
            BY <1>1, <3>1, <3>2 DEF RemoteState
    <2>2. RemoteSteps(c, v)
        BY <1>4 DEF PeerRequestDataRead
    <2> HIDE DEF v
    <2>3. v.unread \cup v.ready = u.unread \cup u.ready
        BY <2>1
    <2> QED
        BY <1>1, <2>1, <2>2, <2>3, ServeFits, RemoteOnly
<1> QED
    BY <1>2, <1>3, <1>4

LEMMA SendChunkWire ==
    ASSUME WireInv, NEW c \in Conn, SendChunk(c)
    PROVE  WireInv'
<1>1. local[c] \in LooseState /\ remote[c] \in RemoteState /\ Fits(c, local[c], remote[c])
    BY Unmoved
<1>2. PICK r \in remote[c].ready :
          RemoteSteps(c, Send(DeletePeerRequest(remote[c], r), "piece", r))
    BY DEF SendChunk
<1> DEFINE v == Send(DeletePeerRequest(remote[c], r), "piece", r)
<1>3. v \in RemoteState /\ Fits(c, local[c], v)
    BY <1>1, SendChunkFits
<1>4. RemoteSteps(c, v)
    BY <1>2
<1> HIDE DEF v
<1> QED
    BY <1>3, <1>4, RemoteOnly

LEMMA UploadUnchokeWire ==
    ASSUME WireInv, NEW c \in Conn, UploadUnchoke(c)
    PROVE  WireInv'
<1> DEFINE u == remote[c]
           w == Send(u, "unchoke", Nil)
           v == [w EXCEPT !.choking = FALSE]
<1>1. local[c] \in LooseState /\ u \in RemoteState /\ Fits(c, local[c], u)
    BY Unmoved
<1>2. <<"unchoke", Nil>> \in Message
    BY Messages
<1>3. /\ w \in RemoteState /\ w.unread = u.unread /\ w.ready = u.ready
      /\ w.out = Append(u.out, <<"unchoke", Nil>>)
    BY <1>1, <1>2, SendIs
<1>4. RemoteSteps(c, v)
    BY DEF UploadUnchoke
<1> HIDE DEF w
<1>5. /\ v \in RemoteState /\ v.unread = u.unread /\ v.ready = u.ready
      /\ v.out = Append(u.out, <<"unchoke", Nil>>)
    BY <1>3 DEF RemoteState
<1> HIDE DEF v
<1>6. Fits(c, local[c], v)
    BY <1>1, <1>5, ChokeFits
<1> QED
    BY <1>4, <1>5, <1>6, RemoteOnly

LEMMA UploadChokeWire ==
    ASSUME WireInv, NEW c \in Conn, UploadChoke(c)
    PROVE  WireInv'
<1> DEFINE u == remote[c]
           w == Send(u, "choke", Nil)
           v == [w EXCEPT !.choking = TRUE,
                          !.unread = IF c \in Fast THEN @ ELSE {},
                          !.ready = IF c \in Fast THEN @ ELSE {}]
<1>1. /\ local[c] \in LooseState /\ u \in RemoteState /\ Fits(c, local[c], u)
      /\ local = [local EXCEPT ![c] = local[c]]
    BY Unmoved
<1>2. <<"choke", Nil>> \in Message
    BY Messages
<1>3. /\ w \in RemoteState /\ w.unread = u.unread /\ w.ready = u.ready
      /\ w.out = Append(u.out, <<"choke", Nil>>)
    BY <1>1, <1>2, SendIs
<1>4. remote' = [remote EXCEPT ![c] = v]
    BY DEF UploadChoke, Choke
<1> HIDE DEF w
<1>5. /\ v \in RemoteState /\ v.out = Append(u.out, <<"choke", Nil>>)
      /\ v.unread = (IF c \in Fast THEN u.unread ELSE {})
      /\ v.ready = (IF c \in Fast THEN u.ready ELSE {})
    BY <1>3 DEF RemoteState
<1> HIDE DEF v
<1>6. Fits(c, local[c], v)
    <2>1. v.unread \cup v.ready = u.unread \cup u.ready
              \/ (c \notin Fast /\ v.unread \cup v.ready = {})
        BY <1>5
    <2> QED
        BY <1>1, <1>5, <2>1, ChokeFits
<1>7. RestType'
    <2>1. chokes' \in 0..MaxChokes
        BY PeerAssumption DEF WireInv, RestType, UploadChoke
    <2> QED
        BY <2>1 DEF WireInv, RestType, UploadChoke, pieceVars
<1>8. /\ updating = NoUpdate /\ local' = local
      /\ requester' = requester /\ updating' = updating /\ broken' = broken
    BY DEF UploadChoke, RemoteRuns
<1> QED
    BY <1>1, <1>4, <1>5, <1>6, <1>7, <1>8, OneStep

(* A failed read rejects its request, held or not.                         *)
LEMMA ReadFailedWire ==
    ASSUME WireInv, Serving, NEW c \in Conn, PeerRequestDataReadFailed(c)
    PROVE  WireInv'
<1>0. PICK has \in {remote[c].has, FALSE} : remote' = [remote EXCEPT ![c] =
          UseBestReject(c, [remote[c] EXCEPT !.step = "idle", !.chunk = Nil, !.has = has],
                        remote[c].chunk)]
    BY DEF PeerRequestDataReadFailed
<1> DEFINE d == local[c]
           r == remote[c].chunk
           u == [remote[c] EXCEPT !.step = "idle", !.chunk = Nil, !.has = has]
           w == Send(u, "choke", Nil)
           v == UseBestReject(c, u, r)
<1>1. /\ d \in LooseState /\ remote[c] \in RemoteState /\ Fits(c, d, remote[c])
      /\ local = [local EXCEPT ![c] = d]
    BY Unmoved
<1>2. /\ ~Readable /\ updating = NoUpdate /\ remote[c].step = "reading"
      /\ remote' = [remote EXCEPT ![c] = v] /\ local' = local
      /\ UNCHANGED <<requester, later, pieceVars, updating, broken>>
    BY <1>0 DEF PeerRequestDataReadFailed, RemoteRuns, Readable
<1>3. r \in Chunk
    BY <1>2 DEF Serving
<1>4. u \in RemoteState /\ u.out = remote[c].out
    BY <1>1 DEF RemoteState
<1>5. c \notin Fast => \A q \in Chunk : Count(u.out, <<"reject", q>>) = 0
    BY <1>1, <1>4 DEF Fits
<1> HIDE DEF u, r
<1>6. v \in RemoteState /\ (c \notin Fast => \A q \in Chunk : Count(v.out, <<"reject", q>>) = 0)
    <2>1. CASE c \in Fast
        <3>1. v = Send(DeletePeerRequest(u, r), "reject", r)
            BY <2>1 DEF UseBestReject, Reject
        <3> HIDE DEF v
        <3> QED
            BY <1>3, <1>4, <2>1, <3>1, AnsweredIs
    <2>2. CASE c \notin Fast /\ u.choking
        BY <1>4, <1>5, <2>2 DEF UseBestReject, Choke
    <2>3. CASE c \notin Fast /\ ~u.choking
        <3>1. <<"choke", Nil>> \in Message
            BY Messages
        <3>2. /\ w \in RemoteState
              /\ \A m : Count(w.out, m) =
                    IF m = <<"choke", Nil>> THEN Count(u.out, m) + 1 ELSE Count(u.out, m)
            BY <1>4, <3>1, SendIs
        <3>3. \A q \in Chunk : Count(w.out, <<"reject", q>>) = 0
            <4>1. \A q \in Chunk : <<"reject", q>> # <<"choke", Nil>>
                OBVIOUS
            <4> HIDE DEF w
            <4> QED
                BY <1>5, <2>3, <3>2, <4>1
        <3>4. v = [w EXCEPT !.choking = TRUE, !.unread = {}, !.ready = {}]
            BY <2>3 DEF UseBestReject, Choke
        <3> HIDE DEF w, v
        <3>5. v \in RemoteState /\ v.out = w.out
            BY <3>2, <3>4 DEF RemoteState
        <3> QED
            BY <3>3, <3>5
    <2> QED
        BY <2>1, <2>2, <2>3
<1> HIDE DEF v
<1>7. Fits(c, d, v)
    BY <1>1, <1>2, <1>6, OwedFits
<1>8. RestType'
    <2>1. chokes' \in 0..MaxChokes
        BY PeerAssumption DEF WireInv, RestType, PeerRequestDataReadFailed
    <2> QED
        BY <1>2, <2>1 DEF WireInv, RestType, pieceVars
<1> QED
    BY <1>1, <1>2, <1>6, <1>7, <1>8, OneStep

-----------------------------------------------------------------------------
(* applyRequestState.                                                      *)

LEMMA UpdateRequestsWire ==
    ASSUME WireInv, NEW c \in Conn, UpdateRequests(c)
    PROVE  WireInv'
<1>1. IsFiniteSet(local[c].requests) /\ Cardinality(local[c].requests) \in Nat
    BY PeerAssumption, FS_Subset, FS_CardinalityType DEF WireInv, LooseState
<1>2. DesiredRequests(c) \in SUBSET Chunk /\ DesiredRequests(c) \cap local[c].cancelled = {}
    BY DEF DesiredRequests, Wanted
<1>3. /\ updating' = [conn |-> c, left |-> DesiredRequests(c),
                      before |-> Cardinality(local[c].requests)]
      /\ local[c].status = "open"
      /\ UNCHANGED <<local, remote, requester, later, pieceVars, broken, chokes>>
    BY DEF UpdateRequests
<1>4. updating' \in Updating /\ updating'.conn = c /\ updating'.left = DesiredRequests(c)
    BY <1>1, <1>2, <1>3 DEF Updating
<1>5. UpdatingFits'
    BY <1>2, <1>3, <1>4 DEF UpdatingFits
<1>6. RestType'
    BY <1>3, <1>4 DEF WireInv, RestType, pieceVars
<1> QED
    BY <1>3, <1>5, <1>6 DEF WireInv, Agrees, NoProtocolError

LEMMA ApplyRequestStateWire == WireInv /\ ApplyRequestState => WireInv'
<1> SUFFICES ASSUME WireInv, ApplyRequestState PROVE WireInv'
    OBVIOUS
<1> DEFINE c == updating.conn
           d == local[c]
           left == updating.left
<1>1. updating \in Updating /\ updating # NoUpdate
    BY DEF WireInv, RestType, ApplyRequestState
<1>2. /\ c \in Conn /\ left \in SUBSET Chunk /\ updating.before \in Nat
      /\ d.status = "open" /\ left \cap d.cancelled = {}
    BY <1>1 DEF Updating, WireInv, UpdatingFits
<1>3. /\ d \in LooseState /\ remote[c] \in RemoteState /\ Fits(c, d, remote[c])
      /\ local = [local EXCEPT ![c] = d]
    BY <1>2, Unmoved
<1>4. UNCHANGED <<remote, later, pieceVars, broken, chokes>>
    BY DEF ApplyRequestState
<1>5. (Readable => broken' = {}) /\ remote' \in [Conn -> RemoteState]
    BY <1>4 DEF WireInv, NoProtocolError
<1>6. CASE /\ updating' = NoUpdate
           /\ local' = [local EXCEPT ![c].need = "none",
                                     ![c].peak = Cardinality(d.requests) - updating.before]
           /\ UNCHANGED requester
    <2>1. Cardinality(d.requests) - updating.before \in Int
        <3>1. Cardinality(d.requests) \in Nat
            BY <1>3, PeerAssumption, FS_Subset, FS_CardinalityType DEF LooseState
        <3> QED
            BY <1>2, <3>1
    <2> DEFINE n == Cardinality(d.requests) - updating.before
               e == [d EXCEPT !.need = "none", !.peak = n]
    <2>2. local' = [local EXCEPT ![c] = e]
        BY <1>2, <1>6 DEF WireInv
    <2> HIDE DEF n
    <2>3. Like(d, e)
        BY <1>3, <2>1 DEF Like, LooseState, n
    <2> HIDE DEF e
    <2>4. e \in LooseState /\ Fits(c, e, remote[c]) /\ e.requests = d.requests
        BY <1>2, <1>3, <2>3, LikeFits DEF Like
    <2>5. \A x \in Conn : local'[x] = IF x = c THEN e ELSE local[x]
        BY <2>2 DEF WireInv
    <2>6. local' \in [Conn -> LooseState]
        BY <2>2, <2>4 DEF WireInv
    <2>7. \A x \in Conn : Fits(x, local'[x], remote'[x])
        BY <1>4, <2>4, <2>5 DEF WireInv
    <2>8. Agrees'
        BY <1>6, <2>4, <2>5 DEF WireInv, Agrees
    <2>9. RestType'
        BY <1>4, <1>6 DEF WireInv, RestType, pieceVars
    <2> QED
        BY <1>5, <1>6, <2>6, <2>7, <2>8, <2>9 DEF WireInv, UpdatingFits, NoProtocolError
<1>7. ASSUME NEW r \in left,
             updating' = [updating EXCEPT !.left = @ \ {r}],
             \/ UNCHANGED <<local, requester>>
             \/ /\ requester[r] # c
                /\ requester' = [requester EXCEPT ![r] = c]
                /\ local' = IF requester[r] = Nil THEN [local EXCEPT ![c] = Request(@, r)]
                            ELSE Steal(c, requester[r], r)
      PROVE  WireInv'
    <2>1. /\ updating' \in Updating /\ updating'.conn = c /\ updating'.left = left \ {r}
          /\ r \in Chunk
        BY <1>1, <1>2, <1>7 DEF Updating
    <2>2. CASE UNCHANGED <<local, requester>>
        <3>1. RestType'
            BY <1>4, <2>1, <2>2 DEF WireInv, RestType, pieceVars
        <3>2. UpdatingFits'
            BY <1>2, <2>1, <2>2 DEF UpdatingFits
        <3> QED
            BY <1>4, <1>5, <2>2, <3>1, <3>2 DEF WireInv, Agrees, NoProtocolError
    <2>3. CASE /\ requester[r] # c
               /\ requester' = [requester EXCEPT ![r] = c]
               /\ local' = IF requester[r] = Nil THEN [local EXCEPT ![c] = Request(@, r)]
                           ELSE Steal(c, requester[r], r)
        <3> DEFINE holder == requester[r]
                   e == Request(d, r)
        <3>1. holder \in Conn \cup {Nil} /\ \A x \in Conn : holder = x <=> r \in local[x].requests
            BY <2>1 DEF WireInv, RestType, Agrees
        <3>2. r \notin d.requests \cup d.cancelled
            BY <1>2, <2>3, <3>1
        <3>3. /\ e \in LooseState /\ Fits(c, e, remote[c])
              /\ e.status = d.status /\ e.cancelled = d.cancelled
              /\ e.requests = d.requests \cup {r}
            BY <1>2, <1>3, <2>1, <3>2, RequestFits
        <3>4. local'[c] = e
            <4>1. CASE holder = Nil
                BY <1>2, <2>3, <4>1 DEF WireInv
            <4>2. CASE holder # Nil
                <5>1. local' = [local EXCEPT ![holder] = Cancel(holder, @, r), ![c] = Request(@, r)]
                    BY <2>3, <4>2 DEF Steal
                <5> QED
                    BY <1>2, <2>3, <5>1 DEF WireInv
            <4> QED
                BY <4>1, <4>2
        <3>5. DOMAIN local' = Conn /\ local' = [x \in Conn |-> local'[x]]
            BY <2>3 DEF WireInv, Steal
        <3> HIDE DEF e
        <3>6. ASSUME NEW x \in Conn, x # c
              PROVE  /\ local'[x] \in LooseState /\ Fits(x, local'[x], remote[x])
                     /\ local'[x].requests = local[x].requests \ {r}
            <4>1. local[x] \in LooseState /\ remote[x] \in RemoteState /\ Fits(x, local[x], remote[x])
                BY Unmoved
            <4>2. CASE holder = x
                <5> DEFINE f == Cancel(x, local[x], r)
                <5>1. local'[x] = f
                    <6>1. holder # Nil
                        BY <4>2, PeerAssumption
                    <6>2. local' = [local EXCEPT ![holder] = Cancel(holder, @, r), ![c] = Request(@, r)]
                        BY <2>3, <6>1 DEF Steal
                    <6> QED
                        BY <3>6, <4>2, <6>2 DEF WireInv
                <5>2. r \in local[x].requests
                    BY <3>1, <4>2
                <5>3. f \in LooseState /\ Fits(x, f, remote[x]) /\ f.requests = local[x].requests \ {r}
                    BY <4>1, <5>2, CancelFits
                <5> HIDE DEF f
                <5> QED
                    BY <5>1, <5>3
            <4>3. CASE holder # x
                <5>1. r \notin local[x].requests
                    BY <3>1, <4>3
                <5>2. local'[x] = local[x]
                    BY <2>3, <3>6, <4>3 DEF Steal, WireInv
                <5> QED
                    BY <4>1, <5>1, <5>2
            <4> QED
                BY <4>2, <4>3
        <3>7. local' \in [Conn -> LooseState]
            BY <3>3, <3>4, <3>5, <3>6
        <3>8. \A x \in Conn : Fits(x, local'[x], remote'[x])
            BY <1>4, <3>3, <3>4, <3>6
        <3>9. Agrees'
            <4> SUFFICES ASSUME NEW x \in Conn, NEW q \in Chunk
                         PROVE  requester'[q] = x <=> q \in local'[x].requests
                BY DEF Agrees
            <4>1. requester'[q] = IF q = r THEN c ELSE requester[q]
                BY <2>3 DEF WireInv, RestType
            <4>2. requester[q] = x <=> q \in local[x].requests
                BY DEF WireInv, Agrees
            <4>3. CASE x = c
                BY <3>3, <3>4, <4>1, <4>2, <4>3
            <4>4. CASE x # c
                BY <3>6, <4>1, <4>2, <4>4
            <4> QED
                BY <4>3, <4>4
        <3>10. RestType'
            <4>1. requester' \in [Chunk -> Conn \cup {Nil}]
                BY <1>2, <2>3 DEF WireInv, RestType
            <4> QED
                BY <1>4, <2>1, <4>1 DEF WireInv, RestType, pieceVars
        <3>11. UpdatingFits'
            BY <1>2, <2>1, <3>3, <3>4 DEF UpdatingFits
        <3> QED
            BY <1>5, <3>7, <3>8, <3>9, <3>10, <3>11 DEF WireInv, NoProtocolError
    <2> QED
        BY <1>7, <2>2, <2>3
<1> QED
    <2>1. \/ /\ updating' = NoUpdate
             /\ local' = [local EXCEPT ![c].need = "none",
                                       ![c].peak = Cardinality(d.requests) - updating.before]
             /\ UNCHANGED requester
          \/ \E r \in left :
                /\ updating' = [updating EXCEPT !.left = @ \ {r}]
                /\ \/ UNCHANGED <<local, requester>>
                   \/ /\ requester[r] # c
                      /\ requester' = [requester EXCEPT ![r] = c]
                      /\ local' = IF requester[r] = Nil THEN [local EXCEPT ![c] = Request(@, r)]
                                  ELSE Steal(c, requester[r], r)
        BY DEF ApplyRequestState
    <2> QED
        BY <1>6, <1>7, <2>1

-----------------------------------------------------------------------------
(* Every step.                                                             *)

LEMMA NextWire ==
    ASSUME WireInv, Serving, [Next]_vars
    PROVE  WireInv'
<1>1. CASE UNCHANGED vars
    BY <1>1 DEF vars, pieceVars, WireInv, RestType, Agrees, UpdatingFits, NoProtocolError
<1>2. ASSUME NEW c \in Conn, LocalStep(c) PROVE WireInv'
    BY <1>2, ReadChokeWire, ReadUnchokeWire, ReadRejectWire, ReceiveChunkWire, ChunkWrittenWire,
       DropConnectionWire DEF LocalStep
<1>3. ASSUME NEW c \in Conn, RemoteStep(c) PROVE WireInv'
    BY <1>3, OnReadRequestWire, OnPeerSentCancelWire, ServesWire, SendChunkWire DEF RemoteStep
<1> QED
    BY <1>1, <1>2, <1>3, UpdateRequestsWire, WriteFailsWire, CloseConnWire, ReadFailedWire,
       UploadUnchokeWire, UploadChokeWire, ApplyRequestStateWire, CheckPassesWire, CheckFailsWire
       DEF Next

LEMMA NextServing ==
    ASSUME WireInv, Serving, [Next]_vars
    PROVE  Serving'
<1>1. remote \in [Conn -> RemoteState]
    BY DEF WireInv
<1>2. ASSUME remote' = remote PROVE Serving'
    BY <1>2 DEF Serving
<1>3. ASSUME NEW c \in Conn, NEW v, remote' = [remote EXCEPT ![c] = v],
             v.step # "idle" => v.chunk \in Chunk, Readable => v.has
      PROVE  Serving'
    BY <1>1, <1>3 DEF Serving
<1>4. ASSUME NEW c \in Conn, remote' = [remote EXCEPT ![c].out = Tail(@)] PROVE Serving'
    <2> DEFINE v == [remote[c] EXCEPT !.out = Tail(@)]
    <2>1. /\ remote' = [remote EXCEPT ![c] = v]
          /\ v.step = remote[c].step /\ v.chunk = remote[c].chunk /\ v.has = remote[c].has
        BY <1>1, <1>4 DEF RemoteState
    <2> HIDE DEF v
    <2> QED
        BY <1>3, <2>1 DEF Serving
<1>5. ASSUME NEW c \in Conn, LocalStep(c) PROVE Serving'
    <2>1. remote' = remote \/ remote' = [remote EXCEPT ![c].out = Tail(@)]
        BY <1>5 DEF LocalStep, ReadChoke, ReadUnchoke, ReadReject, ReceiveChunk, ChunkWritten,
                    DropConnection, Reads
    <2> QED
        BY <1>2, <1>4, <2>1
<1>6. ASSUME NEW c \in Conn, NEW v, remote' = [remote EXCEPT ![c] = v],
             v.step # "idle" => remote[c].step # "idle",
             v.chunk = remote[c].chunk, v.has = remote[c].has
      PROVE  Serving'
    BY <1>3, <1>6 DEF Serving
<1>7. ASSUME NEW c \in Conn, NEW r
      PROVE  LET u == remote[c]
                 same(v) == /\ v.step # "idle" => u.step # "idle"
                            /\ v.chunk = u.chunk /\ v.has = u.has
             IN
             /\ same(DeletePeerRequest(u, r)) /\ same(Reject(u, r)) /\ same(Choke(c, u))
             /\ same(Send(DeletePeerRequest(u, r), "piece", r))
             /\ same([u EXCEPT !.unread = @ \cup {r}])
             /\ same([Send(u, "unchoke", Nil) EXCEPT !.choking = FALSE])
    BY <1>1 DEF DeletePeerRequest, Reject, Choke, Send, RemoteState
<1>8. ASSUME NEW c \in Conn, RemoteStep(c) PROVE Serving'
    <2>1. CASE OnReadRequest(c)
        <3>1. \/ remote' = remote
              \/ \E r : \/ remote' = [remote EXCEPT ![c] = remote[c]]
                        \/ remote' = [remote EXCEPT ![c] = Reject(remote[c], r)]
                        \/ remote' = [remote EXCEPT ![c] = [remote[c] EXCEPT !.unread = @ \cup {r}]]
            BY <2>1 DEF OnReadRequest
        <3>2. CASE remote' = remote
            BY <1>2, <3>2
        <3>3. ASSUME NEW r, remote' = [remote EXCEPT ![c] = remote[c]] PROVE Serving'
            BY <1>6, <3>3
        <3>4. ASSUME NEW r, remote' = [remote EXCEPT ![c] = Reject(remote[c], r)] PROVE Serving'
            <4> DEFINE v == Reject(remote[c], r)
            <4>1. /\ v.step # "idle" => remote[c].step # "idle"
                  /\ v.chunk = remote[c].chunk /\ v.has = remote[c].has
                BY <1>7
            <4>2. remote' = [remote EXCEPT ![c] = v]
                BY <3>4
            <4> HIDE DEF v
            <4> QED
                BY <1>6, <4>1, <4>2
        <3>5. ASSUME NEW r, remote' = [remote EXCEPT ![c] = [remote[c] EXCEPT !.unread = @ \cup {r}]]
              PROVE  Serving'
            <4> DEFINE v == [remote[c] EXCEPT !.unread = @ \cup {r}]
            <4>1. /\ v.step # "idle" => remote[c].step # "idle"
                  /\ v.chunk = remote[c].chunk /\ v.has = remote[c].has
                BY <1>7
            <4>2. remote' = [remote EXCEPT ![c] = v]
                BY <3>5
            <4> HIDE DEF v
            <4> QED
                BY <1>6, <4>1, <4>2
        <3> QED
            BY <3>1, <3>2, <3>3, <3>4, <3>5
    <2>2. CASE OnPeerSentCancel(c)
        <3>1. \E r : \/ remote' = [remote EXCEPT ![c] = remote[c]]
                     \/ remote' = [remote EXCEPT ![c] = Reject(remote[c], r)]
                     \/ remote' = [remote EXCEPT ![c] = DeletePeerRequest(remote[c], r)]
            BY <2>2 DEF OnPeerSentCancel
        <3> QED
            BY <1>6, <1>7, <3>1
    <2>3. CASE ServePeerRequest(c)
        <3>1. PICK r \in remote[c].unread, step \in {"alloc", "reading"} :
                  remote' = [remote EXCEPT ![c] = [remote[c] EXCEPT !.step = step, !.chunk = r]]
            BY <2>3 DEF ServePeerRequest, RemoteSteps
        <3> DEFINE v == [remote[c] EXCEPT !.step = step, !.chunk = r]
        <3>2. r \in Chunk /\ v.chunk = r /\ v.has = remote[c].has
            BY <1>1 DEF RemoteState
        <3>3. remote' = [remote EXCEPT ![c] = v]
            BY <3>1
        <3> HIDE DEF v
        <3> QED
            BY <1>3, <3>2, <3>3 DEF Serving
    <2>4. CASE WaitForDataAlloc(c)
        <3>0. PICK step \in {"alloc", "reading"} :
                  remote' = [remote EXCEPT ![c] = [remote[c] EXCEPT !.step = step]]
            BY <2>4 DEF WaitForDataAlloc, RemoteSteps
        <3> DEFINE v == [remote[c] EXCEPT !.step = step]
        <3>1. remote' = [remote EXCEPT ![c] = v] /\ remote[c].step = "woken"
            BY <2>4, <3>0 DEF WaitForDataAlloc
        <3>2. v.chunk = remote[c].chunk /\ v.has = remote[c].has
            BY <1>1 DEF RemoteState
        <3>3. v.chunk \in Chunk
            BY <3>1, <3>2 DEF Serving
        <3> HIDE DEF v
        <3> QED
            BY <1>3, <3>1, <3>2, <3>3 DEF Serving
    <2>5. CASE PeerRequestDataRead(c)
        <3> DEFINE u == remote[c]
                   v == [u EXCEPT !.step = "idle", !.chunk = Nil, !.unread = @ \ {u.chunk},
                                  !.ready = IF u.chunk \in u.unread THEN @ \cup {u.chunk} ELSE @]
        <3>1. remote' = [remote EXCEPT ![c] = v]
            BY <2>5 DEF PeerRequestDataRead, RemoteSteps
        <3>2. v.step = "idle" /\ v.has = u.has
            BY <1>1 DEF RemoteState
        <3> HIDE DEF v
        <3> QED
            BY <1>3, <3>1, <3>2 DEF Serving
    <2>6. CASE SendChunk(c)
        <3>1. \E r : remote' = [remote EXCEPT ![c] = Send(DeletePeerRequest(remote[c], r), "piece", r)]
            BY <2>6 DEF SendChunk, RemoteSteps
        <3>2. PICK r : remote' = [remote EXCEPT ![c] = Send(DeletePeerRequest(remote[c], r), "piece", r)]
            BY <3>1
        <3> DEFINE v == Send(DeletePeerRequest(remote[c], r), "piece", r)
        <3>3. /\ v.step # "idle" => remote[c].step # "idle"
              /\ v.chunk = remote[c].chunk /\ v.has = remote[c].has
            BY <1>7
        <3>4. remote' = [remote EXCEPT ![c] = v]
            BY <3>2
        <3> HIDE DEF v
        <3> QED
            BY <1>6, <3>3, <3>4
    <2> QED
        BY <1>8, <2>1, <2>2, <2>3, <2>4, <2>5, <2>6 DEF RemoteStep
<1>9. ASSUME NEW c \in Conn, PeerRequestDataReadFailed(c) PROVE Serving'
    <2>0. PICK has : remote' = [remote EXCEPT ![c] =
              UseBestReject(c, [remote[c] EXCEPT !.step = "idle", !.chunk = Nil, !.has = has],
                            remote[c].chunk)]
        BY <1>9 DEF PeerRequestDataReadFailed
    <2> DEFINE u == [remote[c] EXCEPT !.step = "idle", !.chunk = Nil, !.has = has]
               v == UseBestReject(c, u, remote[c].chunk)
    <2>1. remote' = [remote EXCEPT ![c] = v] /\ ~Readable
        BY <1>9, <2>0 DEF PeerRequestDataReadFailed, Readable
    <2>2. v.step = "idle"
        BY <1>1 DEF UseBestReject, Reject, Choke, Send, DeletePeerRequest, RemoteState
    <2> HIDE DEF v
    <2> QED
        BY <1>3, <2>1, <2>2
<1>10. ASSUME NEW c \in Conn, UploadUnchoke(c) PROVE Serving'
    <2>1. remote' = [remote EXCEPT ![c] = [Send(remote[c], "unchoke", Nil) EXCEPT !.choking = FALSE]]
        BY <1>10 DEF UploadUnchoke, RemoteSteps
    <2> QED
        BY <1>6, <1>7, <2>1
<1>11. ASSUME NEW c \in Conn, UploadChoke(c) PROVE Serving'
    <2>1. remote' = [remote EXCEPT ![c] = Choke(c, remote[c])]
        BY <1>11 DEF UploadChoke
    <2> QED
        BY <1>6, <1>7, <2>1
<1>12. ASSUME NEW c \in Conn, UpdateRequests(c) \/ WriteFails(c) \/ CloseConn(c) PROVE Serving'
    BY <1>2, <1>12 DEF UpdateRequests, WriteFails, CloseConn
<1>13. CASE ApplyRequestState \/ CheckPasses \/ CheckFails \/ UNCHANGED vars
    BY <1>2, <1>13 DEF ApplyRequestState, CheckPasses, CheckFails, vars
<1> QED
    BY <1>5, <1>8, <1>9, <1>10, <1>11, <1>12, <1>13 DEF Next

LEMMA AlwaysWire == Spec => []WireInv
<1>1. Init => Serving
    BY DEF Init, Serving
<1>2. WireInv /\ Serving /\ [Next]_vars => WireInv' /\ Serving'
    BY NextWire, NextServing
<1> QED
    BY <1>1, <1>2, InitWire, PTL DEF Spec

-----------------------------------------------------------------------------
(* What is proved.                                                         *)

LEMMA WireImplies ==
    WireInv => /\ TypeOK /\ OneRequester
               /\ Readable => AnsweredOnce /\ NoProtocolError
<1> SUFFICES ASSUME WireInv
             PROVE  TypeOK /\ OneRequester /\ (Readable => AnsweredOnce /\ NoProtocolError)
    OBVIOUS
<1>1. local \in [Conn -> LocalState]
    <2> SUFFICES ASSUME NEW c \in Conn PROVE local[c] \in LocalState
        BY DEF WireInv
    <2>1. local[c] \in LooseState /\ Fits(c, local[c], remote[c])
        BY Unmoved
    <2>2. local[c].expected \in [Chunk -> Nat]
        BY <2>1 DEF LooseState, Fits
    <2> QED
        BY <2>1, <2>2 DEF LooseState, LocalState
<1>2. TypeOK
    BY <1>1 DEF TypeOK, WireInv, RestType, Updating
<1>3. OneRequester
    BY DEF OneRequester, WireInv, Agrees
<1>4. Readable => AnsweredOnce
    <2> SUFFICES ASSUME Readable, NEW c \in Fast, NEW r \in Chunk, local[c].status = "open"
                 PROVE  /\ Owed(local[c], remote[c], r) =
                              IF r \in local[c].requests \cup local[c].cancelled THEN 1 ELSE 0
                        /\ local[c].expected[r] = Owed(local[c], remote[c], r)
        BY DEF AnsweredOnce, Owed
    <2>1. c \in Conn
        BY PeerAssumption
    <2>2. Fits(c, local[c], remote[c])
        BY <2>1 DEF WireInv
    <2> QED
        BY <2>2 DEF Fits
<1> QED
    BY <1>2, <1>3, <1>4 DEF WireInv

(* PeerConn's state has its type, whatever fails: in particular            *)
(* validReceiveChunks, which checkReceivedChunk and remoteRejectedRequest  *)
(* decrement, stays at or above zero.                                      *)
THEOREM TypeCorrect == Spec => []TypeOK
<1>1. WireInv => TypeOK
    BY WireImplies
<1> QED
    BY <1>1, AlwaysWire, PTL

(* "Only one peer should have a given request at a time": the torrent's    *)
(* requestState and the connections' requests agree whenever the client's  *)
(* lock is free, through steals, cancels, chokes, rejects, received        *)
(* chunks, failed reads and writes, protocol errors and dropped            *)
(* connections.                                                            *)
THEOREM OneRequesterHolds == Spec => []OneRequester
<1>1. WireInv => OneRequester
    BY WireImplies
<1> QED
    BY <1>1, AlwaysWire, PTL

(* With the fast extension every request is answered exactly once, if no   *)
(* read of a served chunk fails: a failed one rejects its request even if  *)
(* that was cancelled, and rejected, meanwhile.                            *)
THEOREM Answered ==
    ASSUME Readable
    PROVE  Spec => []AnsweredOnce
<1>1. WireInv => AnsweredOnce
    BY WireImplies
<1> QED
    BY <1>1, AlwaysWire, PTL

(* No connection between two clients that run this code ends in a protocol *)
(* error, if no read of a served chunk fails: no unexpected chunk, invalid *)
(* reject or duplicate request.                                            *)
THEOREM NoErrors ==
    ASSUME Readable
    PROVE  Spec => []NoProtocolError
<1>1. WireInv => NoProtocolError
    BY WireImplies
<1> QED
    BY <1>1, AlwaysWire, PTL
=============================================================================
