---------------------------- MODULE PipelineProofs ----------------------------
(***************************************************************************)
(* The two pipelines, for any corpus, similarities, texts and              *)
(* configurations: the window arithmetic of FixedSizeChunker and of        *)
(* _token_limit; the events of a streamed answer; what retrieval, fusion,  *)
(* the reranker and MMR select; and the chunks that the five strategies    *)
(* make of a text.  A text's pieces form a Chain: they hold all of its     *)
(* tokens in their order, and neighbours share a bounded number of them.   *)
(***************************************************************************)
EXTENDS Pipelines, SequenceTheorems, FiniteSetTheorems, WellFoundedInduction, TLAPS

-----------------------------------------------------------------------------
(* Chunks of a fixed size. *)

\* Quotient and remainder, in the form the proofs use.
LEMMA Quotient ==
    ASSUME NEW a \in Nat, NEW b \in Nat \ {0}
    PROVE  a \div b \in Nat /\ b * (a \div b) <= a /\ a < b * (a \div b) + b
BY SMT

\* Nothing lies between a number and its successor.
LEMMA NoGap ==
    ASSUME NEW x \in Nat, NEW y \in Nat, NEW b \in Nat \ {0}, b * x < b * y + b
    PROVE  x <= y
<1> SUFFICES ASSUME x >= y + 1 PROVE FALSE
  OBVIOUS
<1>1. PICK d \in Nat : x = y + 1 + d
  <2> x - (y + 1) \in Nat
    OBVIOUS
  <2> QED OBVIOUS
<1>2. b * x = b * y + b + b * d
  BY <1>1
<1>3. b * d \in Nat
  OBVIOUS
<1>4. b * x \in Nat /\ b * y \in Nat
  OBVIOUS
<1> QED BY <1>2, <1>3, <1>4

\* The windows are as many as have a token to begin with.
LEMMA WindowStarts ==
    ASSUME NEW n \in Nat \ {0}, NEW size, NEW stride \in Nat \ {0}
    PROVE  /\ WindowCount(n, size, stride) \in Nat \ {0}
           /\ \A i \in Nat : i < WindowCount(n, size, stride) <=> stride * i < n
<1> DEFINE w == (n + stride - 1) \div stride
<1>1. n + stride - 1 \in Nat
  OBVIOUS
<1>2. w \in Nat /\ stride * w <= n + stride - 1 /\ n + stride - 1 < stride * w + stride
  BY <1>1, Quotient
<1> HIDE DEF w
<1>3. ASSUME NEW i \in Nat, i < w PROVE stride * i < n
  <2>1. PICK d \in Nat : w = i + 1 + d
    <3> w - (i + 1) \in Nat
      BY <1>2, <1>3
    <3> QED BY <1>2, <1>3
  <2>2. stride * w = stride * i + stride + stride * d
    BY <2>1
  <2>3. stride * d \in Nat /\ stride * i \in Nat
    OBVIOUS
  <2> QED BY <1>2, <2>2, <2>3
<1>4. ASSUME NEW i \in Nat, stride * i < n PROVE i < w
  <2> SUFFICES ASSUME w <= i PROVE FALSE
    BY <1>2
  <2>1. PICK d \in Nat : i = w + d
    <3> i - w \in Nat
      BY <1>2
    <3> QED BY <1>2
  <2>2. stride * i = stride * w + stride * d
    BY <1>2, <2>1
  <2>3. stride * d \in Nat /\ stride * w \in Nat
    BY <1>2
  <2>4. n < stride * w + 1
    BY <1>2, <2>3
  <2> QED BY <1>4, <2>2, <2>3, <2>4
<1>5. 0 < w
  <2> stride * 0 < n
    OBVIOUS
  <2> QED BY <1>4
<1> QED BY <1>2, <1>3, <1>4, <1>5 DEF WindowCount, w

\* The windows of a span hold all its tokens and nothing else, and none is empty or longer
\* than size (FixedSizeChunker's loop, _token_limit).
LEMMA WindowsCover ==
    ASSUME NEW first \in Nat, NEW last \in Nat, first <= last,
           NEW size \in Nat \ {0}, NEW stride \in Nat \ {0}, stride <= size
    PROVE  LET w == Windows(<<first, last>>, size, stride) IN
           /\ Len(w) \in Nat \ {0} /\ DOMAIN w = 1..Len(w)
           /\ \A t \in first..last : \E k \in DOMAIN w : Holds(w[k], t)
           /\ \A k \in DOMAIN w : /\ first <= w[k][1] /\ w[k][1] <= w[k][2] /\ w[k][2] <= last
                                  /\ SpanLength(w[k]) <= size
<1> DEFINE n == last - first + 1
           c == WindowCount(n, size, stride)
           w == Windows(<<first, last>>, size, stride)
<1>1. n \in Nat \ {0}
  OBVIOUS
<1> HIDE DEF n
<1>2. c \in Nat \ {0} /\ \A i \in Nat : i < c <=> stride * i < n
  BY <1>1, WindowStarts DEF WindowCount
<1> HIDE DEF c
<1>3. w = [k \in 1..c |-> <<first + (k - 1) * stride,
                           IF first + (k - 1) * stride + size - 1 <= last
                           THEN first + (k - 1) * stride + size - 1 ELSE last>>]
  BY DEF Windows, SpanLength, c, n
<1> HIDE DEF w
<1>4. DOMAIN w = 1..c /\ Len(w) = c
  BY <1>2, <1>3
<1>5. ASSUME NEW k \in 1..c
      PROVE  /\ w[k][1] = first + stride * (k - 1) /\ stride * (k - 1) \in Nat
             /\ stride * (k - 1) < n
             /\ w[k][2] = IF w[k][1] + size - 1 <= last THEN w[k][1] + size - 1 ELSE last
  <2>1. k - 1 \in Nat /\ k - 1 < c
    BY <1>2
  <2>2. (k - 1) * stride = stride * (k - 1) /\ stride * (k - 1) \in Nat
    BY <2>1
  <2>3. stride * (k - 1) < n
    BY <1>2, <2>1
  <2> QED BY <1>3, <2>2, <2>3
<1>6. ASSUME NEW t \in first..last PROVE \E k \in 1..c : Holds(w[k], t)
  <2> DEFINE i == (t - first) \div stride
  <2>1. t - first \in Nat
    OBVIOUS
  <2>2. i \in Nat /\ stride * i <= t - first /\ t - first < stride * i + stride
    BY <2>1, Quotient
  <2> HIDE DEF i
  <2>3. stride * i \in Nat
    BY <2>2
  <2>4. stride * i < n
    BY <2>2, <2>3 DEF n
  <2>5. i + 1 \in 1..c /\ (i + 1) - 1 = i
    BY <1>2, <2>2, <2>4
  <2>6. w[i + 1][1] = first + stride * i
        /\ w[i + 1][2] = IF w[i + 1][1] + size - 1 <= last THEN w[i + 1][1] + size - 1 ELSE last
    BY <1>5, <2>5
  <2>7. Holds(w[i + 1], t)
    BY <2>2, <2>3, <2>6 DEF Holds
  <2> QED BY <2>5, <2>7
<1>7. ASSUME NEW k \in 1..c
      PROVE  /\ first <= w[k][1] /\ w[k][1] <= w[k][2] /\ w[k][2] <= last
             /\ SpanLength(w[k]) <= size
  BY <1>5 DEF SpanLength, n
<1> QED BY <1>2, <1>4, <1>6, <1>7 DEF w

\* Two neighbouring windows share size - stride tokens, or all that is left.
LEMMA WindowsOverlap ==
    ASSUME NEW first \in Nat, NEW last \in Nat, first <= last,
           NEW size \in Nat \ {0}, NEW overlap \in Nat, overlap < size
    PROVE  LET w == Windows(<<first, last>>, size, size - overlap) IN
           \A k \in DOMAIN w : k + 1 \in DOMAIN w =>
              w[k][2] - w[k + 1][1] + 1 =
                 IF overlap <= SpanLength(w[k + 1]) THEN overlap ELSE SpanLength(w[k + 1])
<1> SUFFICES ASSUME NEW k \in DOMAIN Windows(<<first, last>>, size, size - overlap),
                    k + 1 \in DOMAIN Windows(<<first, last>>, size, size - overlap)
             PROVE  LET w == Windows(<<first, last>>, size, size - overlap) IN
                    w[k][2] - w[k + 1][1] + 1 =
                       IF overlap <= SpanLength(w[k + 1]) THEN overlap ELSE SpanLength(w[k + 1])
  OBVIOUS
<1> DEFINE stride == size - overlap
           n == last - first + 1
           c == WindowCount(n, size, stride)
           w == Windows(<<first, last>>, size, stride)
           x == stride * (k - 1)
<1>1. n \in Nat \ {0} /\ stride \in Nat \ {0} /\ size = stride + overlap
  OBVIOUS
<1>2. w = [j \in 1..c |-> <<first + (j - 1) * stride,
                           IF first + (j - 1) * stride + size - 1 <= last
                           THEN first + (j - 1) * stride + size - 1 ELSE last>>]
  BY DEF Windows, SpanLength
<1>3. c \in Nat \ {0} /\ \A i \in Nat : i < c <=> stride * i < n
  BY <1>1, WindowStarts DEF WindowCount
<1> HIDE DEF w, c, stride, n
<1>4. k \in 1..c /\ k + 1 \in 1..c /\ k - 1 \in Nat /\ k \in Nat /\ k < c
  BY <1>2, <1>3 DEF w, stride
<1>5. (k - 1) * stride = x /\ ((k + 1) - 1) * stride = x + stride /\ x \in Nat
  BY <1>1, <1>4
<1>6. x + stride < n
  <2>1. stride * k = x + stride
    BY <1>1, <1>4
  <2> QED BY <1>3, <1>4, <2>1
<1> HIDE DEF x
<1>7. /\ w[k] = <<first + x, IF first + x + size - 1 <= last THEN first + x + size - 1 ELSE last>>
      /\ w[k + 1] = <<first + (x + stride),
                      IF first + (x + stride) + size - 1 <= last
                      THEN first + (x + stride) + size - 1 ELSE last>>
  BY <1>2, <1>4, <1>5
<1>8. w[k][2] - w[k + 1][1] + 1 =
         IF overlap <= SpanLength(w[k + 1]) THEN overlap ELSE SpanLength(w[k + 1])
  BY <1>1, <1>5, <1>6, <1>7 DEF SpanLength, n
<1> QED BY <1>8 DEF w, stride

-----------------------------------------------------------------------------
(* The events of a stream. *)

Event == {"token", "error", "done", "[DONE]"}

\* One event and two more are three.
LEMMA ThreeEvents ==
    ASSUME NEW S, NEW e \in S, NEW f \in S, NEW g \in S
    PROVE  <<e>> \o <<f, g>> = <<e, f, g>>
<1>1. <<e>> \in Seq(S) /\ <<f, g>> \in Seq(S) /\ <<e, f, g>> \in Seq(S)
  OBVIOUS
<1>2. Len(<<e>>) = 1 /\ Len(<<f, g>>) = 2 /\ Len(<<e, f, g>>) = 3
  OBVIOUS
<1> DEFINE l == <<e>> \o <<f, g>>
<1>3. /\ l \in Seq(S) /\ Len(l) = 3
      /\ \A i \in 1..3 : l[i] = IF i <= 1 THEN <<e>>[i] ELSE <<f, g>>[i - 1]
  BY <1>1, <1>2, ConcatProperties
<1> HIDE DEF l
<1>4. \A i \in 1..3 : l[i] = <<e, f, g>>[i]
  BY <1>3
<1>5. l = <<e, f, g>>
  BY <1>1, <1>2, <1>3, <1>4, SeqEqual
<1> QED BY <1>5 DEF l

\* A stream that has sent t ends with e, which its last event but one shows.
Ending(t, e) == t \o <<e, "[DONE]">>
Endings == {Ending(t, e) : t \in {<<>>, <<"token">>}, e \in {"error", "done"}}

\* The event before the closing [DONE] tells how a stream ended: with an error or done.
LEMMA LastEvents ==
    ASSUME NEW t \in {<<>>, <<"token">>}, NEW e \in {"error", "done"}
    PROVE  /\ Ending(t, e) \in Endings
           /\ Ending(t, e)[Len(Ending(t, e)) - 1] = e
<1>1. t \in Seq(Event) /\ e \in Event /\ "[DONE]" \in Event
  <2>1. <<>> \in Seq(Event) /\ <<"token">> \in Seq(Event)
    BY DEF Event
  <2> QED BY <2>1 DEF Event
<1>2. <<e, "[DONE]">> \in Seq(Event) /\ Len(<<e, "[DONE]">>) = 2 /\ <<e, "[DONE]">>[1] = e
  BY <1>1
<1> DEFINE es == Ending(t, e)
<1>3. /\ Len(t) \in Nat /\ Len(es) = Len(t) + 2
      /\ \A i \in 1..Len(t) + 2 :
            es[i] = IF i <= Len(t) THEN t[i] ELSE <<e, "[DONE]">>[i - Len(t)]
  BY <1>1, <1>2, ConcatProperties, LenProperties DEF Ending
<1> HIDE DEF es
<1>4. es[Len(es) - 1] = e
  BY <1>2, <1>3
<1>5. Ending(t, e) \in Endings
  BY DEF Endings
<1> QED BY <1>4, <1>5 DEF es

\* What a stream sends after nothing.
LEMMA FirstEvents ==
    /\ \A S : \A s \in Seq(S) : <<>> \o s = s
    /\ <<>> \o <<>> = <<>> /\ <<>> \o <<"token">> = <<"token">>
    /\ <<>> \o <<"token", "error", "[DONE]">> = Ending(<<"token">>, "error")
<1>1. \A S : \A s \in Seq(S) : <<>> \o s = s
  BY ConcatEmptySeq
<1>2. "token" \in Event /\ "error" \in Event /\ "[DONE]" \in Event
  BY DEF Event
<1>3. <<>> \in Seq(Event) /\ <<"token">> \in Seq(Event) /\ <<"token", "error", "[DONE]">> \in Seq(Event)
  BY <1>2
<1>4. <<"token">> \o <<"error", "[DONE]">> = <<"token", "error", "[DONE]">>
  BY <1>2, ThreeEvents
<1> QED BY <1>1, <1>3, <1>4 DEF Ending

\* What a stream has sent at each stage: nothing before the answer is generated, no error and
\* no end before the last stage.
StreamInvariant ==
    /\ stage \in Stages
    /\ stage \in Stages \ {"check", "respond", "end"} => events = <<>>
    /\ stage \in {"check", "respond"} => events \in {<<>>, <<"token">>}
    /\ StreamProtocol

\* A stream that ends in this step, with an end only if it has answered.
LEMMA StreamEnds ==
    ASSUME stage' = "end",
           ask'.stream => \E t \in {<<>>, <<"token">>}, e \in {"error", "done"} :
                             /\ events' = Ending(t, e)
                             /\ (e = "done") = (outcome' = "answered")
    PROVE  StreamInvariant'
<1>1. CASE ask'.stream
  <2>1. PICK t \in {<<>>, <<"token">>}, e \in {"error", "done"} :
           events' = Ending(t, e) /\ (e = "done") = (outcome' = "answered")
    BY <1>1
  <2>2. events' \in Endings /\ events'[Len(events') - 1] = e
    BY <2>1, LastEvents
  <2>3. StreamProtocol'
    BY <2>1, <2>2 DEF StreamProtocol, Endings, Ending
  <2> QED BY <2>3 DEF StreamInvariant, Stages
<1>2. CASE ~ask'.stream
  BY <1>2 DEF StreamInvariant, StreamProtocol, Stages
<1> QED BY <1>1, <1>2

\* An error ends a stream that has sent nothing yet.
LEMMA RaiseEnds ==
    ASSUME StreamInvariant, stage \in Stages \ {"check", "respond", "end"},
           NEW error, Raise(error)
    PROVE  StreamInvariant'
<1>1. stage' = "end" /\ ask' = ask /\ outcome' \in {"unavailable", "error"}
  BY DEF Raise
<1>2. events = <<>>
  BY DEF StreamInvariant
<1>3. ask.stream => events' = Ending(<<>>, "error")
  BY <1>2 DEF Raise, Emit, Ending
<1> QED BY <1>1, <1>3, StreamEnds

\* Every stage of the pipeline leaves the stream as the protocol has it.
LEMMA StreamPreserved == StreamInvariant /\ [Next]_vars => StreamInvariant'
<1> SUFFICES ASSUME StreamInvariant, [Next]_vars PROVE StreamInvariant'
  OBVIOUS
<1> DEFINE Early == Stages \ {"check", "respond", "end"}
<1>g. ASSUME NEW next \in Early, stage \in Early, Goto(next) PROVE StreamInvariant'
  BY <1>g DEF Goto, StreamInvariant, StreamProtocol, Stages
<1>s. {"start", "route", "direct", "rewrite", "retrieve", "rerank", "generate"} \subseteq Early
  BY DEF Stages
<1> HIDE DEF Early
<1>r. ASSUME NEW error, stage \in Early, Raise(error) PROVE StreamInvariant'
  BY <1>r, RaiseEnds DEF Early
<1>1. CASE RefuseMismatch
  BY <1>1, <1>r, <1>s DEF RefuseMismatch
<1>2. CASE Start
  BY <1>2, <1>g, <1>s DEF Start
<1>3. CASE Route
  <2>1. Goto("direct") \/ Goto("rewrite") \/ Goto("retrieve") \/ \E error \in Errors : Raise(error)
    BY <1>3 DEF Route
  <2> QED BY <1>3, <2>1, <1>g, <1>r, <1>s DEF Route
<1>4. CASE Rewrite
  BY <1>4, <1>g, <1>r, <1>s DEF Rewrite
<1>5. CASE Retrieve \/ Rerank
  BY <1>5 DEF Retrieve, Rerank, StreamInvariant, StreamProtocol, Stages
<1>6. CASE RetrieveFails
  BY <1>6, <1>r, <1>s DEF RetrieveFails
<1>7. CASE RerankFails
  BY <1>7, <1>r, <1>s DEF RerankFails
<1>8. CASE Generate
  <2>1. stage \in {"generate", "direct"} /\ stage' \in {"check", "respond"}
    BY <1>8 DEF Generate
  <2>2. events = <<>>
    BY <2>1 DEF StreamInvariant, Stages
  <2>3. events' \in {<<>>, <<"token">>}
    BY <1>8, <2>2, FirstEvents DEF Generate, Emit
  <2> QED BY <2>1, <2>3 DEF StreamInvariant, StreamProtocol, Stages
<1>9. CASE GenerateFails
  <2>1. stage \in {"generate", "direct"}
    BY <1>9 DEF GenerateFails
  <2>2. CASE \E error \in Errors : Raise(error)
    BY <2>1, <2>2, <1>r, <1>s
  <2>3. CASE /\ stage' = "end" /\ outcome' = "error" /\ ask.stream /\ ask' = ask
             /\ Emit(<<"token", "error", "[DONE]">>)
    <3>1. events = <<>>
      BY <2>1 DEF StreamInvariant, Stages
    <3>2. events' = Ending(<<"token">>, "error")
      BY <2>3, <3>1, FirstEvents DEF Emit
    <3> QED BY <2>3, <3>2, StreamEnds
  <2> QED BY <1>9, <2>2, <2>3 DEF GenerateFails
<1>10. CASE CheckHallucination
  BY <1>10 DEF CheckHallucination, Goto, StreamInvariant, StreamProtocol, Stages
<1>11. CASE Respond
  <2>1. stage' = "end" /\ outcome' = "answered" /\ ask' = ask
    BY <1>11 DEF Respond
  <2>2. events \in {<<>>, <<"token">>}
    BY <1>11 DEF Respond, StreamInvariant
  <2>3. ask.stream => events' = Ending(events, "done")
    BY <1>11 DEF Respond, Emit, Ending
  <2> QED BY <2>1, <2>2, <2>3, StreamEnds
<1>12. CASE UNCHANGED pipelineVars
  BY <1>12 DEF pipelineVars, StreamInvariant, StreamProtocol
<1> QED
  BY <1>1, <1>2, <1>3, <1>4, <1>5, <1>6, <1>7, <1>8, <1>9, <1>10, <1>11, <1>12
  DEF Next, PipelineStep, vars

\* stream_query_pipeline's events (api/v1/query.py): whatever fails, a client gets the
\* tokens, one error or one end, then [DONE], and an end only with the whole answer.
THEOREM StreamsEndOnce == Spec => []StreamProtocol
<1>1. Init => StreamInvariant
  BY DEF Init, PipelineInit, QueryUnused, StreamInvariant, StreamProtocol, Stages
<1>2. StreamInvariant /\ [Next]_vars => StreamInvariant'
  BY StreamPreserved
<1>3. StreamInvariant => StreamProtocol
  BY DEF StreamInvariant
<1> QED BY <1>1, <1>2, <1>3, PTL DEF Spec

-----------------------------------------------------------------------------
(* Induction, for properties given as sets. *)

\* A set of numbers that is not empty has a least one.
LEMMA LeastNumber ==
    ASSUME NEW T \in SUBSET Nat, T # {}
    PROVE  \E x \in T : \A y \in T : x <= y
<1>1. \E R : IsWellFoundedOn(R, Nat) /\ \A x, y \in Nat : y < x => <<y, x>> \in R
  <2>1. \A x, y \in Nat : y < x => <<y, x>> \in OpToRel(<, Nat)
    BY Zenon DEF OpToRel
  <2> QED BY <2>1, NatLessThanWellFounded, Zenon
<1>2. PICK R : IsWellFoundedOn(R, Nat) /\ \A x, y \in Nat : y < x => <<y, x>> \in R
  BY <1>1
<1>3. PICK x \in T : \A y \in T : ~(<<y, x>> \in R)
  BY <1>2, WFMin
<1>4. \A y \in T : ~(y < x)
  BY <1>2, <1>3, Zenon
<1>5. \A y \in T : x <= y
  BY <1>4
<1> QED BY <1>5

\* What holds of 0 and passes to the successor holds of every number.
LEMMA NumbersAll ==
    ASSUME NEW T \in SUBSET Nat, 0 \in T, \A n \in T : n + 1 \in T
    PROVE  T = Nat
<1> SUFFICES ASSUME Nat \ T # {} PROVE FALSE
  OBVIOUS
<1>1. PICK x \in Nat \ T : \A y \in Nat \ T : x <= y
  BY LeastNumber
<1>2. x - 1 \in Nat /\ x - 1 \notin Nat \ T
  BY <1>1
<1>3. x - 1 \in T /\ (x - 1) + 1 = x
  BY <1>2
<1> QED BY <1>1, <1>3

-----------------------------------------------------------------------------
(* Positions. *)

\* before[i] are the elements before i, in an order of I.
IsOrder(before, I) ==
    /\ before \in [I -> SUBSET I]
    /\ \A i \in I : i \notin before[i]
    /\ \A i, j \in I : j \in before[i] => before[j] \subseteq before[i]
    /\ \A i, j \in I : i # j => j \in before[i] \/ i \in before[j]

\* In a finite set so ordered, the number of elements before it is the position of each.
LEMMA PositionsAreBijective ==
    ASSUME NEW I, IsFiniteSet(I), NEW before, IsOrder(before, I)
    PROVE  /\ Cardinality(I) \in Nat
           /\ \A i \in I : Cardinality(before[i]) \in 0..(Cardinality(I) - 1)
           /\ \A i, j \in I : j \in before[i] => Cardinality(before[j]) < Cardinality(before[i])
           /\ \A i, j \in I : Cardinality(before[i]) = Cardinality(before[j]) => i = j
           /\ \A p \in 1..Cardinality(I) : \E i \in I : Cardinality(before[i]) = p - 1
<1> DEFINE n == Cardinality(I)
           C(i) == Cardinality(before[i])
<1>1. n \in Nat
  BY FS_CardinalityType
<1>2. ASSUME NEW i \in I PROVE IsFiniteSet(before[i]) /\ C(i) \in 0..(n - 1)
  <2>1. before[i] \in SUBSET (I \ {i})
    BY DEF IsOrder
  <2>2. IsFiniteSet(I \ {i}) /\ Cardinality(I \ {i}) = n - 1
    BY FS_RemoveElement
  <2>3. IsFiniteSet(before[i]) /\ C(i) <= n - 1
    BY <2>1, <2>2, FS_Subset
  <2>4. C(i) \in Nat
    BY <2>3, FS_CardinalityType
  <2> QED BY <1>1, <2>3, <2>4
<1>3. ASSUME NEW i \in I, NEW j \in I, j \in before[i] PROVE C(j) < C(i)
  <2>1. before[j] \in SUBSET before[i] /\ before[j] # before[i]
    BY <1>3 DEF IsOrder
  <2>2. C(j) <= C(i) /\ C(j) # C(i)
    BY <1>2, <2>1, FS_Subset
  <2>3. C(j) \in Int /\ C(i) \in Int
    BY <1>1, <1>2
  <2> QED BY <2>2, <2>3
<1>4. ASSUME NEW i \in I, NEW j \in I, C(i) = C(j) PROVE i = j
  <2>1. i # j => j \in before[i] \/ i \in before[j]
    BY DEF IsOrder
  <2>2. C(j) \in Int /\ C(i) \in Int
    BY <1>1, <1>2
  <2> QED BY <1>3, <1>4, <2>1, <2>2
<1> HIDE DEF C
<1>5. ASSUME NEW p \in 1..n PROVE \E i \in I : C(i) = p - 1
  <2> DEFINE f == [i \in I |-> C(i) + 1]
  <2>1. f \in [I -> 1..n]
    BY <1>1, <1>2
  <2>2. \A i, j \in I : f[i] = f[j] => i = j
    <3> SUFFICES ASSUME NEW i \in I, NEW j \in I, f[i] = f[j] PROVE i = j
      OBVIOUS
    <3>1. C(i) \in Int /\ C(j) \in Int /\ C(i) + 1 = C(j) + 1
      BY <1>1, <1>2
    <3> QED BY <3>1, <1>4
  <2>3. f \in Injection(I, 1..n)
    BY <2>1, <2>2 DEF Injection, IsInjective
  <2>4. IsFiniteSet(1..n) /\ Cardinality(1..n) = n
    BY <1>1, FS_Interval
  <2>5. f \in Surjection(I, 1..n)
    BY <2>3, <2>4, FS_Injection
  <2>6. PICK i \in I : f[i] = p
    BY <2>5 DEF Surjection
  <2>7. C(i) + 1 = p /\ C(i) \in Int
    BY <1>1, <1>2, <2>6
  <2> QED BY <2>7
<1> QED BY <1>1, <1>2, <1>3, <1>4, <1>5 DEF C

\* The order's positions, as InOrder lists them.
LEMMA InOrderProperties ==
    ASSUME NEW I, IsFiniteSet(I), NEW before, IsOrder(before, I)
    PROVE  LET at == InOrder(I, before) IN
           /\ Cardinality(I) \in Nat
           /\ at \in [1..Cardinality(I) -> I]
           /\ \A p, q \in 1..Cardinality(I) : p < q => at[p] \in before[at[q]]
           /\ \A p, q \in 1..Cardinality(I) : at[p] = at[q] => p = q
           /\ \A i \in I : \E p \in 1..Cardinality(I) : at[p] = i
<1> DEFINE n == Cardinality(I)
           C(i) == Cardinality(before[i])
           at == InOrder(I, before)
<1>1. /\ n \in Nat
      /\ \A i \in I : C(i) \in 0..(n - 1)
      /\ \A i, j \in I : j \in before[i] => C(j) < C(i)
      /\ \A i, j \in I : C(i) = C(j) => i = j
      /\ \A p \in 1..n : \E i \in I : C(i) = p - 1
  BY PositionsAreBijective
<1>2. at = [p \in 1..n |-> CHOOSE i \in I : C(i) = p - 1]
  BY DEF InOrder
<1> HIDE DEF n, C, at
<1>3. \A p \in 1..n : at[p] \in I /\ C(at[p]) = p - 1
  BY <1>1, <1>2
<1>4. at \in [1..n -> I]
  BY <1>2, <1>3
<1>5. \A p, q \in 1..n : at[p] = at[q] => p = q
  <2> SUFFICES ASSUME NEW p \in 1..n, NEW q \in 1..n, at[p] = at[q] PROVE p = q
    OBVIOUS
  <2>1. p - 1 = q - 1 /\ p \in Int /\ q \in Int
    BY <1>1, <1>3
  <2> QED BY <2>1
<1>6. \A p, q \in 1..n : p < q => at[p] \in before[at[q]]
  <2> SUFFICES ASSUME NEW p \in 1..n, NEW q \in 1..n, p < q PROVE at[p] \in before[at[q]]
    OBVIOUS
  <2>1. p \in Int /\ q \in Int /\ p # q /\ at[p] \in I /\ at[q] \in I
    BY <1>1, <1>3
  <2>2. at[p] # at[q]
    BY <1>5, <2>1
  <2>3. ~(at[q] \in before[at[p]])
    BY <1>1, <1>3, <2>1
  <2> QED BY <2>1, <2>2, <2>3 DEF IsOrder
<1>7. \A i \in I : \E p \in 1..n : at[p] = i
  <2> SUFFICES ASSUME NEW i \in I PROVE \E p \in 1..n : at[p] = i
    OBVIOUS
  <2>1. C(i) \in 0..(n - 1)
    BY <1>1
  <2>2. C(i) + 1 \in 1..n /\ (C(i) + 1) - 1 = C(i)
    BY <1>1, <2>1
  <2>3. at[C(i) + 1] \in I /\ C(at[C(i) + 1]) = C(i)
    BY <1>3, <2>2
  <2>4. at[C(i) + 1] = i
    BY <1>1, <2>3
  <2> QED BY <2>2, <2>4
<1> QED BY <1>1, <1>4, <1>5, <1>6, <1>7 DEF n, at

-----------------------------------------------------------------------------
(* Recursive functions and greatest values. *)

\* f starts with base, and step takes it from each number to the next.
Recursive(f, S, base, step) ==
    f \in [Nat -> S] /\ f[0] = base /\ \A n \in Nat \ {0} : f[n] = step[n][f[n - 1]]

\* step never leaves S.
Steps(step, S) == \A n \in Nat \ {0} : \A x \in S : step[n][x] \in S

\* Such a function exists.
LEMMA NatFunction ==
    ASSUME NEW S, NEW base \in S, NEW step, Steps(step, S)
    PROVE  \E f : Recursive(f, S, base, step)
<1> DEFINE Chain(g, n) == /\ g \in [0..n -> S] /\ g[0] = base
                          /\ \A m \in 1..n : g[m] = step[m][g[m - 1]]
           T == {n \in Nat : \E g : Chain(g, n)}
           U == {i \in Nat : \A m, n \in Nat : \A g, h :
                    (Chain(g, m) /\ Chain(h, n) /\ i <= m /\ i <= n) => g[i] = h[i]}
           G(n) == CHOOSE g : Chain(g, n)
           f == [n \in Nat |-> G(n)[n]]
<1>1. T = Nat
  <2>1. 0 \in T
    <3>1. Chain([i \in 0..0 |-> base], 0)
      OBVIOUS
    <3> QED BY <3>1
  <2>2. ASSUME NEW n \in T PROVE n + 1 \in T
    <3>1. PICK g : Chain(g, n)
      OBVIOUS
    <3> DEFINE h == [i \in 0..(n + 1) |-> IF i = n + 1 THEN step[n + 1][g[n]] ELSE g[i]]
    <3>2. g[n] \in S /\ step[n + 1][g[n]] \in S
      BY <3>1 DEF Steps
    <3>3. h \in [0..(n + 1) -> S] /\ h[0] = base
      BY <3>1, <3>2
    <3>4. ASSUME NEW m \in 1..(n + 1) PROVE h[m] = step[m][h[m - 1]]
      <4>1. CASE m = n + 1
        <5>1. h[m] = step[m][g[n]] /\ h[n] = g[n] /\ m - 1 = n
          BY <4>1
        <5> QED BY <5>1
      <4>2. CASE m # n + 1
        <5>1. m \in 1..n /\ m - 1 \in 0..n /\ m - 1 # n + 1 /\ m \in 0..(n + 1) /\ m - 1 \in 0..(n + 1)
          BY <4>2
        <5>2. h[m] = g[m] /\ h[m - 1] = g[m - 1]
          BY <5>1, <4>2
        <5> QED BY <3>1, <5>1, <5>2
      <4> QED BY <4>1, <4>2
    <3> HIDE DEF h
    <3>5. Chain(h, n + 1)
      BY <3>3, <3>4
    <3> QED BY <3>5
  <2> HIDE DEF T
  <2>3. T \in SUBSET Nat
    BY DEF T
  <2> QED BY <2>1, <2>2, <2>3, NumbersAll
<1>2. U = Nat
  <2>1. 0 \in U
    OBVIOUS
  <2>2. ASSUME NEW i \in U PROVE i + 1 \in U
    <3> HIDE DEF Chain
    <3>0. i \in Nat /\ i + 1 \in Nat
      OBVIOUS
    <3> SUFFICES ASSUME NEW m \in Nat, NEW n \in Nat, NEW g, NEW h, Chain(g, m), Chain(h, n),
                        i + 1 <= m, i + 1 <= n
                 PROVE  g[i + 1] = h[i + 1]
      BY <3>0
    <3>1. i <= m /\ i <= n
      BY <3>0
    <3>2. g[i] = h[i]
      BY <3>1
    <3>3. i + 1 \in 1..m /\ i + 1 \in 1..n /\ (i + 1) - 1 = i
      BY <3>0
    <3> QED BY <3>2, <3>3 DEF Chain
  <2> HIDE DEF U
  <2>3. U \in SUBSET Nat
    BY DEF U
  <2> QED BY <2>1, <2>2, <2>3, NumbersAll
<1>3. \A n \in Nat : Chain(G(n), n)
  <2> SUFFICES ASSUME NEW n \in Nat PROVE Chain(G(n), n)
    OBVIOUS
  <2>1. \E g : Chain(g, n)
    BY <1>1
  <2> HIDE DEF Chain
  <2> QED BY <2>1
<1> HIDE DEF G
<1>4. f \in [Nat -> S]
  BY <1>3
<1>5. \A n \in Nat \ {0} : f[n] = step[n][f[n - 1]]
  <2> SUFFICES ASSUME NEW n \in Nat \ {0} PROVE f[n] = step[n][f[n - 1]]
    OBVIOUS
  <2>1. n - 1 \in Nat /\ n \in 1..n /\ n - 1 <= n /\ n - 1 <= n - 1
    OBVIOUS
  <2>2. Chain(G(n), n) /\ Chain(G(n - 1), n - 1)
    BY <1>3, <2>1
  <2>3. G(n)[n - 1] = G(n - 1)[n - 1]
    <3> HIDE DEF Chain
    <3>1. n - 1 \in U
      <4> HIDE DEF U
      <4> QED BY <1>2, <2>1
    <3> QED BY <2>1, <2>2, <3>1
  <2>4. G(n)[n] = step[n][G(n)[n - 1]]
    BY <2>1, <2>2
  <2> QED BY <2>1, <2>3, <2>4
<1>6. f[0] = base
  BY <1>3
<1> HIDE DEF f
<1> QED BY <1>4, <1>5, <1>6 DEF Recursive

\* Some element of a finite set has the greatest value.
LEMMA Greatest ==
    ASSUME NEW I, IsFiniteSet(I), I # {}, NEW v, \A i \in I : v[i] \in Int
    PROVE  \E i \in I : \A j \in I : v[i] >= v[j]
<1> DEFINE Above(i) == {j \in I : v[j] > v[i]}
           T == {Cardinality(Above(i)) : i \in I}
<1>1. \A i \in I : Above(i) \in SUBSET I /\ IsFiniteSet(Above(i)) /\ Cardinality(Above(i)) \in Nat
  BY FS_Subset, FS_CardinalityType
<1>2. T \in SUBSET Nat /\ T # {}
  BY <1>1
<1>3. PICK i \in I : \A j \in I : Cardinality(Above(i)) <= Cardinality(Above(j))
  <2>1. PICK x \in T : \A y \in T : x <= y
    BY <1>2, LeastNumber
  <2> QED BY <2>1
<1>4. ASSUME NEW j \in I, ~(v[i] >= v[j]) PROVE FALSE
  <2>1. Above(j) \in SUBSET Above(i) /\ j \in Above(i) /\ j \notin Above(j)
    BY <1>4
  <2> HIDE DEF Above
  <2>2. Cardinality(Above(j)) <= Cardinality(Above(i)) /\ Cardinality(Above(j)) # Cardinality(Above(i))
    BY <1>1, <2>1, FS_Subset
  <2> QED BY <1>1, <1>3, <2>2
<1> QED BY <1>3, <1>4

\* A finite set of integers has a least and a greatest element.
LEMMA Extremes ==
    ASSUME NEW T \in SUBSET Int, IsFiniteSet(T), T # {}
    PROVE  /\ Max(T) \in T /\ \A x \in T : Max(T) >= x
           /\ Min(T) \in T /\ \A x \in T : Min(T) <= x
<1>1. \E x \in T : \A y \in T : x >= y
  <2>1. \A i \in T : [t \in T |-> t][i] \in Int
    OBVIOUS
  <2>2. PICK i \in T : \A j \in T : [t \in T |-> t][i] >= [t \in T |-> t][j]
    BY <2>1, Greatest
  <2> QED BY <2>2
<1>2. \E x \in T : \A y \in T : x =< y
  <2>1. \A i \in T : [t \in T |-> -t][i] \in Int
    OBVIOUS
  <2>2. PICK i \in T : \A j \in T : [t \in T |-> -t][i] >= [t \in T |-> -t][j]
    BY <2>1, Greatest
  <2>3. \A j \in T : -i >= -j
    BY <2>2
  <2>4. \A j \in T : i =< j
    BY <2>3
  <2> QED BY <2>4
<1> QED BY <1>1, <1>2 DEF Max, Min

-----------------------------------------------------------------------------
(* Lists of different chunks. *)

\* Lists without a repeated id.
Distinct(rs) == \A i, j \in DOMAIN rs : rs[i].id = rs[j].id => i = j
RankedList == {rs \in Seq(Result) : Distinct(rs)}

\* The first n numbers are n.
LEMMA FirstNumbers ==
    ASSUME NEW n \in Nat
    PROVE  IsFiniteSet(1..n) /\ Cardinality(1..n) = n /\ IsFiniteSet(0..n)
BY FS_Interval

\* [:limit].
LEMMA CutProperties ==
    ASSUME NEW S, NEW rs \in Seq(S), NEW k \in Nat
    PROVE  /\ Cut(rs, k) \in Seq(S)
           /\ Len(Cut(rs, k)) = IF Len(rs) < k THEN Len(rs) ELSE k
           /\ \A i \in DOMAIN Cut(rs, k) : i \in DOMAIN rs /\ Cut(rs, k)[i] = rs[i]
<1> DEFINE m == IF Len(rs) < k THEN Len(rs) ELSE k
<1>1. m \in Nat /\ m <= Len(rs) /\ Len(rs) \in Nat /\ DOMAIN rs = 1..Len(rs)
  OBVIOUS
<1> HIDE DEF m
<1>2. SubSeq(rs, 1, m) = [i \in 1..m |-> rs[i]]
  BY <1>1
<1>3. /\ SubSeq(rs, 1, m) \in Seq(S) /\ Len(SubSeq(rs, 1, m)) = m
      /\ \A i \in 1..m : SubSeq(rs, 1, m)[i] = rs[i]
  BY <1>1
<1>4. Cut(rs, k) = SubSeq(rs, 1, m)
  BY DEF Cut, m
<1>5. DOMAIN Cut(rs, k) = 1..m
  BY <1>3, <1>4
<1> QED BY <1>1, <1>3, <1>4, <1>5 DEF m

\* The positions of the elements that Keep keeps.
Keeping(at, rs, I) ==
    /\ at \in [1..Cardinality(I) -> I]
    /\ \A p \in 1..Cardinality(I) : Keep(rs, I)[p] = rs[at[p]]
    /\ \A p, q \in 1..Cardinality(I) : p < q => at[p] < at[q]
    /\ \A p, q \in 1..Cardinality(I) : at[p] = at[q] => p = q
    /\ \A i \in I : \E p \in 1..Cardinality(I) : at[p] = i

\* What Keep keeps, at which positions.
LEMMA KeepProperties ==
    ASSUME NEW S, NEW rs \in Seq(S), NEW I \in SUBSET (DOMAIN rs)
    PROVE  /\ IsFiniteSet(I) /\ Cardinality(I) \in Nat /\ Cardinality(I) <= Len(rs)
           /\ Keep(rs, I) \in Seq(S) /\ Len(Keep(rs, I)) = Cardinality(I)
           /\ \E at : Keeping(at, rs, I)
<1> DEFINE before == [i \in I |-> {j \in I : j < i}]
           at == InOrder(I, before)
           n == Cardinality(I)
<1>1. DOMAIN rs = 1..Len(rs) /\ Len(rs) \in Nat
  OBVIOUS
<1>2. IsFiniteSet(I) /\ n \in Nat /\ n <= Len(rs)
  <2>1. IsFiniteSet(1..Len(rs)) /\ Cardinality(1..Len(rs)) = Len(rs)
    BY <1>1, FirstNumbers
  <2> QED BY <1>1, <2>1, FS_Subset, FS_CardinalityType
<1>3. IsOrder(before, I)
  <2>1. \A i \in I : i \in Int
    BY <1>1
  <2>2. before \in [I -> SUBSET I]
    OBVIOUS
  <2>3. \A i \in I : i \notin before[i]
    BY <2>1
  <2>4. \A i, j \in I : j \in before[i] => before[j] \subseteq before[i]
    BY <2>1
  <2>5. \A i, j \in I : i # j => j \in before[i] \/ i \in before[j]
    BY <2>1
  <2> QED BY <2>2, <2>3, <2>4, <2>5 DEF IsOrder
<1>4. \A i, j \in I : i \in before[j] => i < j
  OBVIOUS
<1>5. Keep(rs, I) = [p \in 1..n |-> rs[at[p]]]
  BY DEF Keep
<1> HIDE DEF before, at
<1>6. /\ at \in [1..n -> I]
      /\ \A p, q \in 1..n : p < q => at[p] \in before[at[q]]
      /\ \A p, q \in 1..n : at[p] = at[q] => p = q
      /\ \A i \in I : \E p \in 1..n : at[p] = i
  BY <1>2, <1>3, InOrderProperties DEF at
<1> HIDE DEF n
<1>7. Keep(rs, I) \in Seq(S) /\ Len(Keep(rs, I)) = n
  <2>1. \A p \in 1..n : rs[at[p]] \in S
    BY <1>1, <1>6
  <2> QED BY <1>2, <1>5, <2>1
<1>8. \A p, q \in 1..n : p < q => at[p] < at[q]
  BY <1>4, <1>6
<1>9. \A p \in 1..n : Keep(rs, I)[p] = rs[at[p]]
  BY <1>5
<1>10. Keeping(at, rs, I)
  BY <1>6, <1>8, <1>9 DEF Keeping, n
<1> HIDE DEF at
<1> QED BY <1>2, <1>7, <1>10 DEF n

\* The positions a stable sort by falling keys takes its elements from.
Sorting(at, rs, key) ==
    /\ at \in [1..Len(rs) -> 1..Len(rs)]
    /\ \A p \in 1..Len(rs) : SortedBy(rs, key)[p] = rs[at[p]]
    /\ \A p, q \in 1..Len(rs) : p < q => key[at[p]] >= key[at[q]]
    /\ \A p, q \in 1..Len(rs) : at[p] = at[q] => p = q
    /\ \A i \in 1..Len(rs) : \E p \in 1..Len(rs) : at[p] = i

\* sorted(..., reverse=True), as SortedBy has it.
LEMMA SortedProperties ==
    ASSUME NEW S, NEW rs \in Seq(S), NEW key \in [DOMAIN rs -> Int]
    PROVE  /\ SortedBy(rs, key) \in Seq(S) /\ Len(SortedBy(rs, key)) = Len(rs)
           /\ \E at : Sorting(at, rs, key)
<1> DEFINE n == Len(rs)
           before == [i \in DOMAIN key |-> Ahead(key, i)]
           at == InOrder(DOMAIN key, before)
<1>1. DOMAIN rs = 1..n /\ n \in Nat /\ DOMAIN key = 1..n
  OBVIOUS
<1>2. IsFiniteSet(1..n) /\ Cardinality(1..n) = n
  BY <1>1, FirstNumbers
<1>3. \A i \in 1..n : before[i] = {j \in 1..n : key[j] > key[i] \/ (key[j] = key[i] /\ j < i)}
  BY <1>1 DEF Ahead
<1>4. IsOrder(before, 1..n)
  <2>1. \A i \in 1..n : i \in Int /\ key[i] \in Int
    BY <1>1
  <2>2. before \in [1..n -> SUBSET (1..n)]
    BY <1>1, <1>3
  <2> HIDE DEF before, n
  <2>3. \A i \in 1..n : i \notin before[i]
    BY <1>3, <2>1
  <2>4. \A i, j \in 1..n : j \in before[i] => before[j] \subseteq before[i]
    BY <1>3, <2>1
  <2>5. \A i, j \in 1..n : i # j => j \in before[i] \/ i \in before[j]
    BY <1>3, <2>1
  <2> QED BY <2>2, <2>3, <2>4, <2>5 DEF IsOrder
<1>5. \A i, j \in 1..n : i \in before[j] => key[i] >= key[j]
  BY <1>1, <1>3
<1>6. SortedBy(rs, key) = [p \in 1..n |-> rs[at[p]]]
  BY <1>1 DEF SortedBy
<1> HIDE DEF before
<1>7. /\ at \in [1..n -> 1..n]
      /\ \A p, q \in 1..n : p < q => at[p] \in before[at[q]]
      /\ \A p, q \in 1..n : at[p] = at[q] => p = q
      /\ \A i \in 1..n : \E p \in 1..n : at[p] = i
  <2> HIDE DEF n
  <2>1. at = InOrder(1..n, before)
    BY <1>1
  <2> HIDE DEF at
  <2> DEFINE I == 1..n
  <2>2. IsFiniteSet(I) /\ Cardinality(I) = n /\ IsOrder(before, I) /\ at = InOrder(I, before)
    BY <1>2, <1>4, <2>1
  <2> HIDE DEF I
  <2>3. /\ at \in [1..Cardinality(I) -> I]
        /\ \A p, q \in 1..Cardinality(I) : p < q => at[p] \in before[at[q]]
        /\ \A p, q \in 1..Cardinality(I) : at[p] = at[q] => p = q
        /\ \A i \in I : \E p \in 1..Cardinality(I) : at[p] = i
    <3> DEFINE by == InOrder(I, before)
    <3>1. /\ by \in [1..Cardinality(I) -> I]
          /\ \A p, q \in 1..Cardinality(I) : p < q => by[p] \in before[by[q]]
          /\ \A p, q \in 1..Cardinality(I) : by[p] = by[q] => p = q
          /\ \A i \in I : \E p \in 1..Cardinality(I) : by[p] = i
      BY <2>2, InOrderProperties
    <3> HIDE DEF by
    <3>2. at = by
      BY <2>2 DEF by
    <3> QED BY <3>1, <3>2
  <2>4. I = 1..n
    BY DEF I
  <2> QED BY <2>2, <2>3, <2>4
<1> HIDE DEF at, n
<1>8. SortedBy(rs, key) \in Seq(S) /\ Len(SortedBy(rs, key)) = n
  <2>1. \A p \in 1..n : rs[at[p]] \in S
    BY <1>1, <1>7
  <2> QED BY <1>1, <1>6, <2>1
<1>9. \A p, q \in 1..n : p < q => key[at[p]] >= key[at[q]]
  BY <1>5, <1>7
<1>10. \A p \in 1..n : SortedBy(rs, key)[p] = rs[at[p]]
  BY <1>6
<1>11. Sorting(at, rs, key)
  BY <1>7, <1>9, <1>10 DEF Sorting, n
<1> QED BY <1>8, <1>11 DEF n

\* A list of different chunks has as many as it is long.
LEMMA IdsOfDistinct ==
    ASSUME NEW rs \in RankedList
    PROVE  IsFiniteSet(Ids(rs)) /\ Cardinality(Ids(rs)) = Len(rs) /\ Ids(rs) \subseteq Chunks
<1> DEFINE f == [i \in 1..Len(rs) |-> rs[i].id]
<1>1. rs \in Seq(Result) /\ Distinct(rs) /\ DOMAIN rs = 1..Len(rs) /\ Len(rs) \in Nat
  BY DEF RankedList
<1>2. Ids(rs) = {f[i] : i \in 1..Len(rs)}
  BY <1>1 DEF Ids
<1>3. f \in Bijection(1..Len(rs), Ids(rs))
  BY <1>1, <1>2 DEF Bijection, Injection, Surjection, IsInjective, Distinct
<1>4. IsFiniteSet(1..Len(rs)) /\ Cardinality(1..Len(rs)) = Len(rs)
  BY <1>1, FirstNumbers
<1>5. Ids(rs) \subseteq Chunks
  <2>1. \A i \in 1..Len(rs) : rs[i] \in Result
    BY <1>1
  <2> QED BY <1>1, <2>1 DEF Ids, Result
<1>6. ExistsBijection(1..Len(rs), Ids(rs))
  BY <1>3 DEF ExistsBijection
<1> QED BY <1>4, <1>5, <1>6, FS_Bijection

\* Where a chunk is in a list.
LEMMA PositionProperties ==
    ASSUME NEW rs \in RankedList, NEW id \in Ids(rs)
    PROVE  /\ Position(rs, id) \in DOMAIN rs /\ rs[Position(rs, id)].id = id
           /\ \A i \in DOMAIN rs : rs[i].id = id => Position(rs, id) = i
<1>1. \E i \in DOMAIN rs : rs[i].id = id
  BY DEF Ids
<1>2. Position(rs, id) \in DOMAIN rs /\ rs[Position(rs, id)].id = id
  BY <1>1 DEF Position
<1> QED BY <1>2 DEF RankedList, Distinct

\* What a store returns for one query.
LEMMA FoundProperties ==
    ASSUME NEW o \in Rankings, NEW allowed \in SUBSET Chunks, NEW k \in Nat, NEW e \in BOOLEAN
    PROVE  /\ Found(o, allowed, k, e) \in RankedList
           /\ Ids(Found(o, allowed, k, e)) \subseteq allowed
<1> DEFINE n == Cardinality(Chunks)
           I == {i \in DOMAIN o : o[i] \in allowed}
           hits == Nearest(o, allowed, k)
           found == Found(o, allowed, k, e)
<1>1. n \in Nat
  BY RankingAssumption, FS_CardinalityType
<1>2. o \in [1..n -> Chunks] /\ \A i, j \in 1..n : i # j => o[i] # o[j]
  BY DEF Rankings, SetToSeqs
<1> HIDE DEF n
<1>3. o \in Seq(Chunks) /\ Len(o) = n /\ DOMAIN o = 1..n
  BY <1>1, <1>2
<1>4. I \in SUBSET (DOMAIN o) /\ \A i \in I : o[i] \in allowed
  OBVIOUS
<1>5. hits = Cut(Keep(o, I), k)
  BY DEF Nearest
<1> HIDE DEF I, hits
<1>6. /\ Cardinality(I) \in Nat /\ Cardinality(I) <= n
      /\ Keep(o, I) \in Seq(Chunks) /\ Len(Keep(o, I)) = Cardinality(I)
  BY <1>3, <1>4, KeepProperties
<1>7. PICK at : Keeping(at, o, I)
  BY <1>3, <1>4, KeepProperties
<1>8. /\ at \in [1..Cardinality(I) -> I]
      /\ \A p \in 1..Cardinality(I) : Keep(o, I)[p] = o[at[p]]
      /\ \A p, q \in 1..Cardinality(I) : at[p] = at[q] => p = q
  BY <1>7 DEF Keeping
<1>9. /\ hits \in Seq(Chunks) /\ Len(hits) \in Nat /\ Len(hits) <= n
      /\ \A i \in 1..Len(hits) : i \in 1..Cardinality(I) /\ hits[i] = Keep(o, I)[i]
  <2>1. DOMAIN Keep(o, I) = 1..Cardinality(I)
    BY <1>6
  <2>2. hits \in Seq(Chunks) /\ DOMAIN hits = 1..Len(hits) /\ Len(hits) \in Nat
    BY <1>5, <1>6, CutProperties
  <2>3. \A i \in DOMAIN hits : i \in DOMAIN Keep(o, I) /\ hits[i] = Keep(o, I)[i]
    BY <1>5, <1>6, CutProperties
  <2>4. Len(hits) <= n
    BY <1>1, <1>5, <1>6, CutProperties
  <2> QED BY <2>1, <2>2, <2>3, <2>4
<1>10. \A i \in 1..Len(hits) : hits[i] = o[at[i]] /\ at[i] \in I /\ hits[i] \in allowed
  BY <1>4, <1>8, <1>9
<1>11. \A i, j \in 1..Len(hits) : hits[i] = hits[j] => i = j
  <2> SUFFICES ASSUME NEW i \in 1..Len(hits), NEW j \in 1..Len(hits), hits[i] = hits[j]
               PROVE  i = j
    OBVIOUS
  <2>1. o[at[i]] = o[at[j]] /\ at[i] \in 1..n /\ at[j] \in 1..n
    BY <1>3, <1>4, <1>10
  <2> QED BY <1>2, <1>8, <1>9, <2>1
<1>12. found = [i \in 1..Len(hits) |-> [id |-> hits[i], score |-> n - i, embedded |-> e]]
  BY <1>9 DEF Found, hits, n
<1> HIDE DEF found
<1>13. \A i \in 1..Len(hits) : found[i] \in Result /\ found[i].id = hits[i]
  <2> SUFFICES ASSUME NEW i \in 1..Len(hits) PROVE found[i] \in Result /\ found[i].id = hits[i]
    OBVIOUS
  <2>1. n - i \in Nat /\ hits[i] \in Chunks
    BY <1>1, <1>9
  <2>2. found[i] = [id |-> hits[i], score |-> n - i, embedded |-> e]
    BY <1>12
  <2> QED BY <2>1, <2>2 DEF Result
<1>14. DOMAIN found = 1..Len(hits) /\ found \in Seq(Result)
  BY <1>9, <1>12, <1>13
<1>15. Distinct(found)
  BY <1>11, <1>13, <1>14 DEF Distinct
<1>16. Ids(found) \subseteq allowed
  BY <1>10, <1>13, <1>14 DEF Ids
<1> QED BY <1>14, <1>15, <1>16 DEF RankedList, found

-----------------------------------------------------------------------------
(* Fusion. *)

\* The chunks of several lists.
AllIds(ls) == UNION {Ids(ls[l]) : l \in DOMAIN ls}

\* Who holds a chunk, and first.
LEMMA HoldingProperties ==
    ASSUME NEW ls \in Seq(RankedList), NEW id \in AllIds(ls)
    PROVE  /\ Holding(ls, id) \in SUBSET (1..Len(ls)) /\ Holding(ls, id) # {}
           /\ IsFiniteSet(Holding(ls, id))
           /\ \A l \in Holding(ls, id) : ls[l] \in RankedList /\ id \in Ids(ls[l])
           /\ Min(Holding(ls, id)) \in Holding(ls, id)
<1>1. DOMAIN ls = 1..Len(ls) /\ Len(ls) \in Nat
  OBVIOUS
<1>2. Holding(ls, id) \in SUBSET (1..Len(ls)) /\ Holding(ls, id) # {}
  BY <1>1 DEF Holding, AllIds
<1>3. IsFiniteSet(Holding(ls, id))
  BY <1>1, <1>2, FirstNumbers, FS_Subset
<1>4. Min(Holding(ls, id)) \in Holding(ls, id)
  <2>1. Holding(ls, id) \in SUBSET Int
    BY <1>1, <1>2
  <2> QED BY <1>2, <1>3, <2>1, Extremes
<1>5. \A l \in Holding(ls, id) : ls[l] \in RankedList /\ id \in Ids(ls[l])
  BY <1>1 DEF Holding
<1> QED BY <1>2, <1>3, <1>4, <1>5

\* The loops meet each chunk of the lists once.
LEMMA FirstMetProperties ==
    ASSUME NEW ls \in Seq(RankedList)
    PROVE  /\ IsFiniteSet(AllIds(ls)) /\ AllIds(ls) \subseteq Chunks
           /\ Cardinality(AllIds(ls)) \in Nat
           /\ FirstMet(ls) \in [1..Cardinality(AllIds(ls)) -> AllIds(ls)]
           /\ \A p, q \in 1..Cardinality(AllIds(ls)) : FirstMet(ls)[p] = FirstMet(ls)[q] => p = q
           /\ \A id \in AllIds(ls) : \E p \in 1..Cardinality(AllIds(ls)) : FirstMet(ls)[p] = id
<1> DEFINE ids == AllIds(ls)
           list(id) == Min(Holding(ls, id))
           place(id) == Position(ls[list(id)], id)
           Earlier(a, b) == list(a) < list(b) \/ (list(a) = list(b) /\ place(a) < place(b))
           before == [id \in ids |-> {other \in ids : Earlier(other, id)}]
<1>1. IsFiniteSet(ids) /\ ids \subseteq Chunks
  <2>1. \A l \in DOMAIN ls : ls[l] \in RankedList
    OBVIOUS
  <2>2. ids \in SUBSET Chunks
    BY <2>1, IdsOfDistinct DEF AllIds
  <2> QED BY <2>2, RankingAssumption, FS_Subset
<1>2. ASSUME NEW id \in ids
      PROVE  list(id) \in Int /\ place(id) \in Int /\ ls[list(id)][place(id)].id = id
  <2>1. list(id) \in 1..Len(ls) /\ ls[list(id)] \in RankedList /\ id \in Ids(ls[list(id)])
    BY HoldingProperties
  <2>2. place(id) \in DOMAIN ls[list(id)] /\ ls[list(id)][place(id)].id = id
    BY <2>1, PositionProperties
  <2>3. DOMAIN ls[list(id)] \subseteq Int
    BY <2>1 DEF RankedList
  <2> QED BY <2>1, <2>2, <2>3
<1>3. FirstMet(ls) = InOrder(ids, before)
  BY DEF FirstMet, AllIds
<1> HIDE DEF ids, list, place
<1>4. IsOrder(before, ids)
  <2>1. before \in [ids -> SUBSET ids]
    OBVIOUS
  <2>2. \A i \in ids : i \notin before[i]
    BY <1>2
  <2>3. \A i, j \in ids : j \in before[i] => before[j] \subseteq before[i]
    BY <1>2
  <2>4. \A i, j \in ids : i # j => j \in before[i] \/ i \in before[j]
    BY <1>2
  <2> QED BY <2>1, <2>2, <2>3, <2>4 DEF IsOrder
<1> HIDE DEF before
<1> DEFINE by == InOrder(ids, before)
<1>5. /\ Cardinality(ids) \in Nat
      /\ by \in [1..Cardinality(ids) -> ids]
      /\ \A p, q \in 1..Cardinality(ids) : by[p] = by[q] => p = q
      /\ \A i \in ids : \E p \in 1..Cardinality(ids) : by[p] = i
  BY <1>1, <1>4, InOrderProperties
<1> HIDE DEF by
<1>6. FirstMet(ls) = by
  BY <1>3 DEF by
<1> QED BY <1>1, <1>5, <1>6 DEF ids

\* The copies that are kept.
LEMMA CopyProperties ==
    ASSUME NEW ls \in Seq(RankedList), NEW id \in AllIds(ls)
    PROVE  /\ FirstCopy(ls, id) \in Result /\ FirstCopy(ls, id).id = id
           /\ BestCopy(ls, id) \in Result /\ BestCopy(ls, id).id = id
<1> DEFINE H == Holding(ls, id)
           copy(l) == ls[l][Position(ls[l], id)]
           best == {l \in H : \A m \in H : copy(l).score >= copy(m).score}
<1>1. /\ H \in SUBSET (1..Len(ls)) /\ H # {} /\ IsFiniteSet(H) /\ Min(H) \in H
      /\ \A l \in H : ls[l] \in RankedList /\ id \in Ids(ls[l])
  BY HoldingProperties
<1>2. ASSUME NEW l \in H PROVE copy(l) \in Result /\ copy(l).id = id /\ copy(l).score \in Int
  <2>1. ls[l] \in Seq(Result) /\ Position(ls[l], id) \in DOMAIN ls[l] /\ copy(l).id = id
    BY <1>1, PositionProperties DEF RankedList
  <2>2. copy(l) \in Result
    BY <2>1
  <2> QED BY <2>1, <2>2 DEF Result
<1>3. FirstCopy(ls, id) = copy(Min(H)) /\ BestCopy(ls, id) = copy(Min(best))
  BY DEF FirstCopy, BestCopy
<1> HIDE DEF H, copy
<1>4. Min(best) \in H
  <2>1. best # {}
    <3>1. \A l \in H : [m \in H |-> copy(m).score][l] \in Int
      BY <1>2
    <3>2. PICK l \in H : \A m \in H : [k \in H |-> copy(k).score][l] >= [k \in H |-> copy(k).score][m]
      BY <1>1, <3>1, Greatest
    <3>3. l \in best
      BY <3>2
    <3> QED BY <3>3
  <2>2. best \in SUBSET H
    OBVIOUS
  <2> HIDE DEF best
  <2>3. IsFiniteSet(best)
    BY <1>1, <2>2, FS_Subset
  <2>4. best \in SUBSET Int
    <3>1. \A i \in 1..Len(ls) : i \in Int
      OBVIOUS
    <3> QED BY <1>1, <2>2, <3>1
  <2>5. Min(best) \in best
    BY <2>1, <2>3, <2>4, Extremes
  <2> QED BY <2>2, <2>5
<1> QED BY <1>1, <1>2, <1>3, <1>4

\* The scale is a multiple of every rank's denominator.
LEMMA ScaleProperties ==
    /\ Scale \in Nat \ {0}
    /\ \A r \in 0..Cardinality(Chunks) : \E q \in Nat : Scale = (K + r) * q
<1> DEFINE step == [n \in Nat |-> [x \in Nat |-> x * (K + n)]]
           Product(f) == f = [n \in Nat |-> IF n = 0 THEN K ELSE f[n - 1] * (K + n)]
           product == CHOOSE f : Product(f)
           c == Cardinality(Chunks)
<1>0. K \in Nat \ {0} /\ c \in Nat
  BY RankingAssumption, FS_CardinalityType
<1>1. Steps(step, Nat)
  BY <1>0 DEF Steps
<1>2. \A n \in Nat \ {0} : \A x \in Nat : step[n][x] = x * (K + n)
  OBVIOUS
<1> HIDE DEF step
<1>3. PICK f : Recursive(f, Nat, K, step)
  BY <1>0, <1>1, NatFunction
<1>4. Product(f)
  <2>1. ASSUME NEW n \in Nat PROVE f[n] = IF n = 0 THEN K ELSE f[n - 1] * (K + n)
    <3>1. CASE n = 0
      BY <1>3, <3>1 DEF Recursive
    <3>2. CASE n # 0
      <4>1. n \in Nat \ {0} /\ f[n - 1] \in Nat
        BY <1>3, <3>2 DEF Recursive
      <4> QED BY <1>2, <1>3, <3>2, <4>1 DEF Recursive
    <3> QED BY <3>1, <3>2
  <2> QED BY <1>3, <2>1 DEF Recursive
<1>5. Product(product)
  <2> HIDE DEF Product
  <2> QED BY <1>4
<1>6. Scale = product[c]
  BY DEF Scale
<1> HIDE DEF product, c
<1>7. product[0] = K /\ \A n \in Nat : product[n + 1] = product[n] * (K + (n + 1))
  <2>1. \A n \in Nat : product[n] = IF n = 0 THEN K ELSE product[n - 1] * (K + n)
    BY <1>5
  <2>2. ASSUME NEW n \in Nat PROVE product[n + 1] = product[n] * (K + (n + 1))
    <3>1. n + 1 \in Nat /\ n + 1 # 0 /\ (n + 1) - 1 = n
      OBVIOUS
    <3> QED BY <2>1, <3>1
  <2> QED BY <2>1, <2>2
<1> DEFINE Multiple(x, n) == x \in Nat \ {0} /\ \A r \in 0..n : \E q \in Nat : x = (K + r) * q
           T == {n \in Nat : Multiple(product[n], n)}
<1>8. T = Nat
  <2>1. 0 \in T
    <3>1. \A r \in 0..0 : K = (K + r) * 1
      BY <1>0
    <3> QED BY <1>0, <1>7, <3>1
  <2>2. ASSUME NEW n \in T PROVE n + 1 \in T
    <3> DEFINE x == product[n]
               y == product[n + 1]
    <3>1. n \in Nat /\ Multiple(x, n) /\ y = x * (K + (n + 1))
      BY <1>7
    <3> HIDE DEF x, y
    <3>2. y \in Nat \ {0}
      BY <1>0, <3>1
    <3>3. ASSUME NEW r \in 0..(n + 1) PROVE \E q \in Nat : y = (K + r) * q
      <4>1. CASE r = n + 1
        BY <1>0, <3>1, <4>1
      <4>2. CASE r # n + 1
        <5>1. PICK q \in Nat : x = (K + r) * q
          BY <3>1, <4>2
        <5>2. q * (K + (n + 1)) \in Nat
          BY <1>0, <3>1
        <5>3. y = (K + r) * (q * (K + (n + 1)))
          BY <1>0, <3>1, <5>1
        <5> QED BY <5>2, <5>3
      <4> QED BY <4>1, <4>2
    <3>4. Multiple(product[n + 1], n + 1)
      BY <3>2, <3>3 DEF y
    <3> HIDE DEF Multiple
    <3> QED BY <3>1, <3>4
  <2> HIDE DEF T
  <2>3. T \in SUBSET Nat
    BY DEF T
  <2> QED BY <2>1, <2>2, <2>3, NumbersAll
<1>9. Multiple(product[c], c)
  <2> HIDE DEF Multiple
  <2>1. c \in T
    <3> HIDE DEF T
    <3> QED BY <1>0, <1>8
  <2> QED BY <2>1
<1> QED BY <1>6, <1>9 DEF c

\* A better rank has a larger share.
LEMMA ShareProperties ==
    /\ \A r \in Nat : Share(r) \in Nat
    /\ \A r \in 0..Cardinality(Chunks) : Share(r) > 0
    /\ \A r, s \in 0..Cardinality(Chunks) : r < s => Share(r) > Share(s)
<1>0. K \in Nat \ {0} /\ Scale \in Nat \ {0} /\ Cardinality(Chunks) \in Nat
  BY RankingAssumption, FS_CardinalityType, ScaleProperties
<1>1. ASSUME NEW r \in Nat PROVE Share(r) \in Nat
  <2>1. K + r \in Nat \ {0}
    BY <1>0
  <2> HIDE DEF Share
  <2>2. Scale \div (K + r) \in Nat
    BY <1>0, <2>1
  <2> QED BY <2>2 DEF Share
<1>2. ASSUME NEW r \in 0..Cardinality(Chunks) PROVE Share(r) \in Nat /\ Scale = (K + r) * Share(r)
  <2>1. PICK q \in Nat : Scale = (K + r) * q
    BY ScaleProperties
  <2>2. K + r \in Nat \ {0}
    BY <1>0
  <2>3. ASSUME NEW b \in Nat \ {0} PROVE (b * q) \div b = q
    BY <2>1
  <2>4. Scale \div (K + r) = q
    BY <2>1, <2>2, <2>3
  <2> QED BY <2>1, <2>4 DEF Share
<1>3. ASSUME NEW r \in 0..Cardinality(Chunks) PROVE Share(r) > 0
  BY <1>0, <1>2, <1>3
<1>4. ASSUME NEW r \in 0..Cardinality(Chunks), NEW s \in 0..Cardinality(Chunks), r < s
      PROVE  Share(r) > Share(s)
  <2> DEFINE x == Share(r)
             y == Share(s)
  <2>1. x \in Nat /\ y \in Nat /\ x > 0 /\ (K + r) * x = (K + s) * y
    BY <1>2, <1>3
  <2> HIDE DEF x, y
  <2> SUFFICES ASSUME y >= x PROVE FALSE
    BY <2>1 DEF x, y
  <2>2. (K + s) * y >= (K + s) * x
    BY <1>0, <2>1
  <2>3. (K + s) * x = (K + r) * x + (s - r) * x
    BY <1>0, <2>1
  <2>4. (s - r) * x > 0
    BY <1>4, <2>1
  <2>5. (K + s) * y \in Int /\ (K + s) * x \in Int /\ (K + r) * x \in Int /\ (s - r) * x \in Int
    BY <1>0, <2>1
  <2> QED BY <2>1, <2>2, <2>3, <2>4, <2>5
<1> QED BY <1>1, <1>3, <1>4

\* What a list adds to a chunk's score.
ShareIn(ls, first, l, id) ==
    IF l \in Holding(ls, id) THEN Share(first + Position(ls[l], id) - 1) ELSE 0

\* A score is the sum of what each list adds.
LEMMA FusedScoreSums ==
    ASSUME NEW ls \in Seq(RankedList), NEW first \in Nat, NEW id
    PROVE  \E total : /\ total \in [Nat -> Nat] /\ total[0] = 0
                      /\ \A n \in Nat \ {0} : total[n] = total[n - 1] + ShareIn(ls, first, n, id)
                      /\ FusedScore(ls, first, id) = total[Len(ls)]
<1> DEFINE step == [n \in Nat |-> [x \in Nat |-> x + ShareIn(ls, first, n, id)]]
           Total(f) == f = [n \in Nat |-> IF n = 0 THEN 0
                                          ELSE f[n - 1] + (IF n \in Holding(ls, id)
                                               THEN Share(first + Position(ls[n], id) - 1) ELSE 0)]
           total == CHOOSE f : Total(f)
<1>1. \A n \in Nat : ShareIn(ls, first, n, id) \in Nat
  <2> SUFFICES ASSUME NEW n \in Nat, n \in Holding(ls, id)
               PROVE  Share(first + Position(ls[n], id) - 1) \in Nat
    BY DEF ShareIn
  <2>1. ls[n] \in RankedList /\ id \in Ids(ls[n])
    BY DEF Holding
  <2>2. Position(ls[n], id) \in 1..Len(ls[n]) /\ Len(ls[n]) \in Nat
    BY <2>1, PositionProperties DEF RankedList
  <2>3. first + Position(ls[n], id) - 1 \in Nat
    BY <2>2
  <2> QED BY <2>3, ShareProperties
<1>2. \A n \in Nat \ {0} : \A x \in Nat : step[n][x] = x + ShareIn(ls, first, n, id)
  OBVIOUS
<1> HIDE DEF step
<1>3. Steps(step, Nat)
  <2> SUFFICES ASSUME NEW n \in Nat \ {0}, NEW x \in Nat PROVE step[n][x] \in Nat
    BY DEF Steps
  <2>1. ShareIn(ls, first, n, id) \in Nat
    BY <1>1
  <2>2. step[n][x] = x + ShareIn(ls, first, n, id)
    BY <1>2
  <2>3. x + ShareIn(ls, first, n, id) \in Nat
    BY <2>1
  <2> QED BY <2>2, <2>3
<1>4. PICK f : Recursive(f, Nat, 0, step)
  BY <1>3, NatFunction
<1>5. Total(f)
  <2>1. ASSUME NEW n \in Nat PROVE f[n] = IF n = 0 THEN 0 ELSE f[n - 1] + ShareIn(ls, first, n, id)
    <3>1. CASE n = 0
      BY <1>4, <3>1 DEF Recursive
    <3>2. CASE n # 0
      <4>1. n \in Nat \ {0} /\ f[n - 1] \in Nat
        BY <1>4, <3>2 DEF Recursive
      <4> QED BY <1>2, <1>4, <3>2, <4>1 DEF Recursive
    <3> QED BY <3>1, <3>2
  <2>2. f = [n \in Nat |-> IF n = 0 THEN 0 ELSE f[n - 1] + ShareIn(ls, first, n, id)]
    BY <1>4, <2>1 DEF Recursive
  <2> QED BY <2>2 DEF ShareIn
<1>6. Total(total)
  <2> HIDE DEF Total
  <2> QED BY <1>5
<1>7. FusedScore(ls, first, id) = total[Len(ls)]
  BY DEF FusedScore
<1>8. \A n \in Nat : total[n] = IF n = 0 THEN 0 ELSE total[n - 1] + ShareIn(ls, first, n, id)
  <2> HIDE DEF total
  <2> QED BY <1>6 DEF ShareIn
<1>9. total = [n \in Nat |-> total[n]]
  <2> HIDE DEF total
  <2> QED BY <1>6
<1> HIDE DEF total
<1> DEFINE T == {n \in Nat : total[n] \in Nat}
<1>10. T = Nat
  <2>1. 0 \in T
    BY <1>8
  <2>2. ASSUME NEW n \in T PROVE n + 1 \in T
    <3>1. n + 1 \in Nat \ {0} /\ (n + 1) - 1 = n
      OBVIOUS
    <3>2. total[n + 1] = total[n] + ShareIn(ls, first, n + 1, id)
      BY <1>8, <3>1
    <3>3. ShareIn(ls, first, n + 1, id) \in Nat
      BY <1>1, <3>1
    <3> QED BY <3>1, <3>2, <3>3
  <2> HIDE DEF T
  <2>3. T \in SUBSET Nat
    BY DEF T
  <2> QED BY <2>1, <2>2, <2>3, NumbersAll
<1>11. \A n \in Nat : total[n] \in Nat
  BY <1>10
<1>12. total \in [Nat -> Nat]
  BY <1>9, <1>11
<1> QED BY <1>7, <1>8, <1>12

\* The rank of a chunk in a list, and one chunk ranked better than another by the lists.
RankIn(ls, l, id) ==
    IF id \in Ids(ls[l]) THEN Position(ls[l], id) ELSE Cardinality(Chunks) + 1
Dominates(ls, a, b) ==
    /\ \A l \in DOMAIN ls : RankIn(ls, l, a) <= RankIn(ls, l, b)
    /\ \E l \in DOMAIN ls : RankIn(ls, l, a) < RankIn(ls, l, b)

\* No chunk of rs is before one that dominates it in ls.
RespectsDominance(ls, rs) ==
    \A a, b \in Ids(rs) : Dominates(ls, a, b) => Position(rs, a) < Position(rs, b)

\* A better rank in a list adds more to the score.
LEMMA BetterRankAddsMore ==
    ASSUME NEW ls \in Seq(RankedList), NEW first \in {0, 1}, NEW l \in DOMAIN ls, NEW a, NEW b,
           RankIn(ls, l, a) <= RankIn(ls, l, b)
    PROVE  /\ ShareIn(ls, first, l, a) >= ShareIn(ls, first, l, b)
           /\ RankIn(ls, l, a) < RankIn(ls, l, b) =>
                ShareIn(ls, first, l, a) > ShareIn(ls, first, l, b)
           /\ ShareIn(ls, first, l, a) \in Nat /\ ShareIn(ls, first, l, b) \in Nat
<1> DEFINE c == Cardinality(Chunks)
           rs == ls[l]
           pa == Position(rs, a)
           pb == Position(rs, b)
<1>1. c \in Nat
  BY RankingAssumption, FS_CardinalityType
<1>2. rs \in RankedList
  OBVIOUS
<1> HIDE DEF rs
<1>3. Len(rs) \in Nat /\ Len(rs) <= c /\ DOMAIN rs = 1..Len(rs)
  <2>1. IsFiniteSet(Ids(rs)) /\ Cardinality(Ids(rs)) = Len(rs) /\ Ids(rs) \subseteq Chunks
    BY <1>2, IdsOfDistinct
  <2>2. Cardinality(Ids(rs)) <= c
    BY <2>1, RankingAssumption, FS_Subset
  <2> QED BY <1>2, <2>1, <2>2 DEF RankedList
<1>4. /\ a \in Ids(rs) => pa \in 1..c
      /\ b \in Ids(rs) => pb \in 1..c
  BY <1>1, <1>2, <1>3, PositionProperties
<1>5. \A id : id \in Ids(rs) => l \in Holding(ls, id)
  BY DEF Holding, rs
<1>6. \A id : id \notin Ids(rs) => l \notin Holding(ls, id)
  BY DEF Holding, rs
<1>7. /\ ShareIn(ls, first, l, a) = IF a \in Ids(rs) THEN Share(first + pa - 1) ELSE 0
      /\ ShareIn(ls, first, l, b) = IF b \in Ids(rs) THEN Share(first + pb - 1) ELSE 0
  BY <1>5, <1>6 DEF ShareIn, rs
<1>8. /\ RankIn(ls, l, a) = IF a \in Ids(rs) THEN pa ELSE c + 1
      /\ RankIn(ls, l, b) = IF b \in Ids(rs) THEN pb ELSE c + 1
  BY DEF RankIn, rs
<1> HIDE DEF pa, pb
<1>9. CASE b \in Ids(rs)
  <2>1. a \in Ids(rs) /\ pa <= pb
    BY <1>1, <1>4, <1>8, <1>9
  <2>2. first + pa - 1 \in 0..c /\ first + pb - 1 \in 0..c
    BY <1>1, <1>4, <1>9, <2>1
  <2> HIDE DEF c
  <2>3. pa < pb => Share(first + pa - 1) > Share(first + pb - 1)
    <3>1. ASSUME pa < pb PROVE first + pa - 1 < first + pb - 1
      BY <1>4, <1>9, <2>1, <3>1
    <3> QED BY <2>2, <3>1, ShareProperties DEF c
  <2>4. pa = pb => Share(first + pa - 1) = Share(first + pb - 1)
    OBVIOUS
  <2>5. Share(first + pa - 1) \in Nat /\ Share(first + pb - 1) \in Nat
    <3>1. first + pa - 1 \in Nat /\ first + pb - 1 \in Nat
      BY <2>2
    <3> QED BY <3>1, ShareProperties
  <2>6. pa \in Int /\ pb \in Int
    BY <1>4, <1>9, <2>1
  <2>7. pa < pb \/ pa = pb
    BY <2>1, <2>6
  <2> QED BY <1>7, <1>8, <1>9, <2>1, <2>3, <2>4, <2>5, <2>7
<1>10. CASE b \notin Ids(rs)
  <2>1. CASE a \in Ids(rs)
    <3>1. first + pa - 1 \in 0..c /\ first + pa - 1 \in Nat
      BY <1>1, <1>4, <2>1
    <3>2. Share(first + pa - 1) > 0 /\ Share(first + pa - 1) \in Nat
      BY <3>1, ShareProperties
    <3> QED BY <1>7, <1>10, <2>1, <3>2
  <2>2. CASE a \notin Ids(rs)
    BY <1>1, <1>7, <1>8, <1>10, <2>2
  <2> QED BY <2>1, <2>2
<1> QED BY <1>9, <1>10

\* What dominates has the higher score.
LEMMA ScoresDominate ==
    ASSUME NEW ls \in Seq(RankedList), NEW first \in {0, 1}, NEW a, NEW b, Dominates(ls, a, b)
    PROVE  FusedScore(ls, first, a) > FusedScore(ls, first, b)
<1>0. first \in Nat /\ DOMAIN ls = 1..Len(ls) /\ Len(ls) \in Nat
  OBVIOUS
<1>1. PICK ta : /\ ta \in [Nat -> Nat] /\ ta[0] = 0
                /\ \A n \in Nat \ {0} : ta[n] = ta[n - 1] + ShareIn(ls, first, n, a)
                /\ FusedScore(ls, first, a) = ta[Len(ls)]
  BY <1>0, FusedScoreSums
<1>2. PICK tb : /\ tb \in [Nat -> Nat] /\ tb[0] = 0
                /\ \A n \in Nat \ {0} : tb[n] = tb[n - 1] + ShareIn(ls, first, n, b)
                /\ FusedScore(ls, first, b) = tb[Len(ls)]
  BY <1>0, FusedScoreSums
<1> DEFINE Strict(l) == RankIn(ls, l, a) < RankIn(ls, l, b)
           T == {n \in Nat : n <= Len(ls) =>
                    /\ ta[n] >= tb[n]
                    /\ (\E l \in 1..n : Strict(l)) => ta[n] > tb[n]}
<1>3. \A l \in 1..Len(ls) :
         /\ ShareIn(ls, first, l, a) >= ShareIn(ls, first, l, b)
         /\ Strict(l) => ShareIn(ls, first, l, a) > ShareIn(ls, first, l, b)
         /\ ShareIn(ls, first, l, a) \in Nat /\ ShareIn(ls, first, l, b) \in Nat
  BY <1>0, BetterRankAddsMore DEF Dominates
<1>4. \E l \in 1..Len(ls) : Strict(l)
  BY <1>0 DEF Dominates
<1> HIDE DEF Strict
<1>5. T = Nat
  <2>1. 0 \in T
    BY <1>1, <1>2
  <2>2. ASSUME NEW n \in T PROVE n + 1 \in T
    <3> SUFFICES ASSUME n + 1 <= Len(ls)
                 PROVE  /\ ta[n + 1] >= tb[n + 1]
                        /\ (\E l \in 1..(n + 1) : Strict(l)) => ta[n + 1] > tb[n + 1]
      OBVIOUS
    <3>1. /\ n \in Nat /\ n + 1 \in Nat \ {0} /\ (n + 1) - 1 = n /\ n <= Len(ls)
          /\ n + 1 \in 1..Len(ls)
      BY <1>0
    <3>2. ta[n] >= tb[n] /\ ((\E l \in 1..n : Strict(l)) => ta[n] > tb[n])
      BY <3>1
    <3> DEFINE x == ShareIn(ls, first, n + 1, a)
               y == ShareIn(ls, first, n + 1, b)
    <3>3. ta[n + 1] = ta[n] + x /\ tb[n + 1] = tb[n] + y
      BY <1>1, <1>2, <3>1
    <3>4. x >= y /\ (Strict(n + 1) => x > y) /\ x \in Nat /\ y \in Nat
      BY <1>3, <3>1
    <3>5. ta[n] \in Nat /\ tb[n] \in Nat
      BY <1>1, <1>2, <3>1
    <3> HIDE DEF x, y
    <3>6. ta[n + 1] >= tb[n + 1]
      BY <3>2, <3>3, <3>4, <3>5
    <3>7. ASSUME NEW l \in 1..(n + 1), Strict(l) PROVE ta[n + 1] > tb[n + 1]
      <4>1. CASE l = n + 1
        BY <3>2, <3>3, <3>4, <3>5, <3>7, <4>1
      <4>2. CASE l # n + 1
        <5>1. l \in 1..n
          BY <3>1, <4>2
        <5>2. ta[n] > tb[n]
          BY <3>2, <3>7, <5>1
        <5> QED BY <3>3, <3>4, <3>5, <5>2
      <4> QED BY <4>1, <4>2
    <3> QED BY <3>6, <3>7
  <2> HIDE DEF T
  <2>3. T \in SUBSET Nat
    BY DEF T
  <2> QED BY <2>1, <2>2, <2>3, NumbersAll
<1>6. Len(ls) \in T
  <2> HIDE DEF T
  <2> QED BY <1>0, <1>5
<1>7. ta[Len(ls)] > tb[Len(ls)]
  BY <1>0, <1>4, <1>6
<1> QED BY <1>1, <1>2, <1>7

\* Copies of different chunks, sorted by a key: the same chunks, each once.
LEMMA SortedCopies ==
    ASSUME NEW n \in Nat, NEW copies \in [1..n -> Result], NEW key \in [1..n -> Int],
           \A i, j \in 1..n : copies[i].id = copies[j].id => i = j
    PROVE  /\ SortedBy(copies, key) \in RankedList
           /\ Ids(SortedBy(copies, key)) = {copies[i].id : i \in 1..n}
           /\ \A i, j \in 1..n : key[i] > key[j] =>
                 Position(SortedBy(copies, key), copies[i].id)
                     < Position(SortedBy(copies, key), copies[j].id)
<1> DEFINE fused == SortedBy(copies, key)
<1>4. copies \in Seq(Result) /\ Len(copies) = n /\ DOMAIN copies = 1..n
  OBVIOUS
<1>6. key \in [DOMAIN copies -> Int]
  BY <1>4
<1>8. fused \in Seq(Result) /\ Len(fused) = n /\ DOMAIN fused = 1..n
  <2>1. fused \in Seq(Result) /\ Len(fused) = n
    BY <1>4, <1>6, SortedProperties
  <2> QED BY <2>1
<1>5. PICK at : Sorting(at, copies, key)
  BY <1>4, <1>6, SortedProperties
<1>9. /\ at \in [1..n -> 1..n]
      /\ \A p \in 1..n : fused[p] = copies[at[p]]
      /\ \A p, q \in 1..n : p < q => key[at[p]] >= key[at[q]]
      /\ \A p, q \in 1..n : at[p] = at[q] => p = q
      /\ \A i \in 1..n : \E p \in 1..n : at[p] = i
  BY <1>4, <1>5 DEF Sorting
<1> HIDE DEF fused
<1>10. \A p \in 1..n : fused[p].id = copies[at[p]].id /\ at[p] \in 1..n
  BY <1>9
<1>11. Distinct(fused)
  <2> SUFFICES ASSUME NEW p \in 1..n, NEW q \in 1..n, fused[p].id = fused[q].id PROVE p = q
    BY <1>8 DEF Distinct
  <2>1. copies[at[p]].id = copies[at[q]].id /\ at[p] \in 1..n /\ at[q] \in 1..n
    BY <1>10
  <2>2. at[p] = at[q]
    BY <2>1
  <2> QED BY <1>9, <2>2
<1>12. fused \in RankedList
  BY <1>8, <1>11 DEF RankedList
<1>13. Ids(fused) = {copies[i].id : i \in 1..n}
  <2>1. ASSUME NEW id \in Ids(fused) PROVE \E i \in 1..n : id = copies[i].id
    <3>1. PICK p \in 1..n : fused[p].id = id
      BY <1>8 DEF Ids
    <3> QED BY <1>10, <3>1
  <2>2. ASSUME NEW i \in 1..n PROVE copies[i].id \in Ids(fused)
    <3>1. PICK p \in 1..n : at[p] = i
      BY <1>9
    <3>2. fused[p].id = copies[i].id /\ p \in DOMAIN fused
      BY <1>8, <1>10, <3>1
    <3> QED BY <3>2 DEF Ids
  <2>3. \A id : id \in Ids(fused) <=> \E i \in 1..n : id = copies[i].id
    BY <2>1, <2>2
  <2> QED BY <2>3
<1>14. ASSUME NEW i \in 1..n, NEW j \in 1..n, key[i] > key[j]
       PROVE  Position(fused, copies[i].id) < Position(fused, copies[j].id)
  <2>1. PICK p \in 1..n : at[p] = i
    BY <1>9
  <2>2. PICK q \in 1..n : at[q] = j
    BY <1>9
  <2>0. ASSUME NEW m \in 1..n, NEW r \in 1..n, at[r] = m
        PROVE  Position(fused, copies[m].id) = r
    <3>1. fused[r].id = copies[m].id /\ r \in DOMAIN fused
      BY <1>8, <1>10, <2>0
    <3>2. copies[m].id \in Ids(fused)
      BY <3>1 DEF Ids
    <3> QED BY <1>12, <3>1, <3>2, PositionProperties
  <2>3. Position(fused, copies[i].id) = p
    BY <2>0, <2>1
  <2>4. Position(fused, copies[j].id) = q
    BY <2>0, <2>2
  <2>5. ~(q < p) /\ q # p
    <3>1. key[i] \in Int /\ key[j] \in Int /\ key[at[p]] = key[i] /\ key[at[q]] = key[j]
      BY <2>1, <2>2
    <3>2. q < p => key[at[q]] >= key[at[p]]
      BY <1>9
    <3>3. q = p => key[i] = key[j]
      BY <3>1
    <3> QED BY <1>14, <3>1, <3>2, <3>3
  <2> QED BY <2>3, <2>4, <2>5
<1> QED BY <1>12, <1>13, <1>14 DEF fused

\* Merged lists: each chunk once, the best ranked before what they dominate.
LEMMA FusedProperties ==
    ASSUME NEW ls \in Seq(RankedList), NEW first \in {0, 1},
           NEW copies \in [DOMAIN FirstMet(ls) -> Result],
           \A i \in DOMAIN FirstMet(ls) : copies[i].id = FirstMet(ls)[i]
    PROVE  LET fused == SortedBy(copies, [i \in DOMAIN FirstMet(ls) |->
                                             FusedScore(ls, first, FirstMet(ls)[i])])
           IN  fused \in RankedList /\ Ids(fused) = AllIds(ls) /\ RespectsDominance(ls, fused)
<1> DEFINE n == Cardinality(AllIds(ls))
           met == FirstMet(ls)
           key == [i \in DOMAIN met |-> FusedScore(ls, first, met[i])]
           fused == SortedBy(copies, key)
<1>1. /\ n \in Nat
      /\ met \in [1..n -> AllIds(ls)]
      /\ \A p, q \in 1..n : met[p] = met[q] => p = q
      /\ \A id \in AllIds(ls) : \E p \in 1..n : met[p] = id
  BY FirstMetProperties
<1>2. \A id : FusedScore(ls, first, id) \in Int
  <2> SUFFICES ASSUME NEW id PROVE FusedScore(ls, first, id) \in Int
    OBVIOUS
  <2>0. first \in Nat
    OBVIOUS
  <2>1. PICK total : /\ total \in [Nat -> Nat] /\ total[0] = 0
                     /\ \A m \in Nat \ {0} : total[m] = total[m - 1] + ShareIn(ls, first, m, id)
                     /\ FusedScore(ls, first, id) = total[Len(ls)]
    BY <2>0, FusedScoreSums
  <2>2. Len(ls) \in Nat
    OBVIOUS
  <2> QED BY <2>1, <2>2
<1> HIDE DEF n
<1>3. DOMAIN met = 1..n
  BY <1>1
<1>4. copies \in [1..n -> Result] /\ \A i \in 1..n : copies[i].id = met[i]
  BY <1>3
<1> HIDE DEF met
<1>5. key \in [1..n -> Int] /\ \A i \in 1..n : key[i] = FusedScore(ls, first, met[i])
  BY <1>2, <1>3
<1> HIDE DEF key
<1>6. \A i, j \in 1..n : copies[i].id = copies[j].id => i = j
  BY <1>1, <1>4
<1>7. /\ fused \in RankedList
      /\ Ids(fused) = {copies[i].id : i \in 1..n}
      /\ \A i, j \in 1..n : key[i] > key[j] =>
            Position(fused, copies[i].id) < Position(fused, copies[j].id)
  BY <1>1, <1>4, <1>5, <1>6, SortedCopies
<1> HIDE DEF fused
<1>8. Ids(fused) = AllIds(ls)
  BY <1>1, <1>4, <1>7
<1>9. ASSUME NEW a \in AllIds(ls), NEW b \in AllIds(ls), Dominates(ls, a, b)
      PROVE  Position(fused, a) < Position(fused, b)
  <2>1. PICK i \in 1..n : met[i] = a
    BY <1>1
  <2>2. PICK j \in 1..n : met[j] = b
    BY <1>1
  <2>3. key[i] > key[j]
    BY <1>5, <1>9, <2>1, <2>2, ScoresDominate
  <2> QED BY <1>4, <1>7, <2>1, <2>2, <2>3
<1> QED BY <1>7, <1>8, <1>9 DEF RespectsDominance, fused, key, met

\* The first of a list.
LEMMA CutOfRanked ==
    ASSUME NEW rs \in RankedList, NEW k \in Nat
    PROVE  /\ Cut(rs, k) \in RankedList /\ Ids(Cut(rs, k)) \subseteq Ids(rs)
           /\ Len(Cut(rs, k)) \in Nat /\ Len(Cut(rs, k)) <= k
           /\ (k > 0 /\ rs # <<>>) => Cut(rs, k) # <<>>
           /\ \A ls : RespectsDominance(ls, rs) => RespectsDominance(ls, Cut(rs, k))
<1> DEFINE cut == Cut(rs, k)
<1>1. rs \in Seq(Result) /\ Distinct(rs)
  BY DEF RankedList
<1>2. /\ cut \in Seq(Result)
      /\ Len(cut) = IF Len(rs) < k THEN Len(rs) ELSE k
      /\ \A i \in DOMAIN cut : i \in DOMAIN rs /\ cut[i] = rs[i]
  BY <1>1, CutProperties
<1> HIDE DEF cut
<1>3. cut \in RankedList
  BY <1>1, <1>2 DEF RankedList, Distinct
<1>4. Ids(cut) \subseteq Ids(rs)
  BY <1>2 DEF Ids
<1>5. ASSUME NEW id \in Ids(cut) PROVE Position(cut, id) = Position(rs, id)
  <2>1. PICK i \in DOMAIN cut : cut[i].id = id
    BY DEF Ids
  <2>2. Position(cut, id) = i
    BY <1>3, <2>1, PositionProperties
  <2>3. i \in DOMAIN rs /\ rs[i].id = id /\ id \in Ids(rs)
    BY <1>2, <1>4, <2>1
  <2>4. Position(rs, id) = i
    BY <2>3, PositionProperties
  <2> QED BY <2>2, <2>4
<1>6. ASSUME NEW ls, RespectsDominance(ls, rs) PROVE RespectsDominance(ls, cut)
  BY <1>4, <1>5, <1>6 DEF RespectsDominance
<1>7. Len(cut) \in Nat /\ Len(cut) <= k
  BY <1>1, <1>2
<1>8. (k > 0 /\ rs # <<>>) => cut # <<>>
  BY <1>1, <1>2
<1> QED BY <1>3, <1>4, <1>6, <1>7, <1>8 DEF cut

\* reciprocal_rank_fusion and _rrf_merge.
LEMMA FusionProperties ==
    /\ \A dense, sparse \in RankedList :
          /\ ReciprocalRankFusion(dense, sparse) \in RankedList
          /\ RespectsDominance(<<dense, sparse>>, ReciprocalRankFusion(dense, sparse))
    /\ \A ls \in Seq(RankedList), k \in Nat :
          /\ RrfMerge(ls, k) \in RankedList /\ Ids(RrfMerge(ls, k)) \subseteq AllIds(ls)
          /\ RespectsDominance(ls, RrfMerge(ls, k))
<1>1. ASSUME NEW dense \in RankedList, NEW sparse \in RankedList
      PROVE  /\ ReciprocalRankFusion(dense, sparse) \in RankedList
             /\ RespectsDominance(<<dense, sparse>>, ReciprocalRankFusion(dense, sparse))
  <2> DEFINE ls == <<dense, sparse>>
             met == FirstMet(ls)
             copies == [i \in DOMAIN met |-> FirstCopy(ls, met[i])]
             fused == SortedBy(copies, [i \in DOMAIN met |-> FusedScore(ls, 1, met[i])])
  <2>1. ls \in Seq(RankedList)
    OBVIOUS
  <2>2. ReciprocalRankFusion(dense, sparse) = fused
    BY DEF ReciprocalRankFusion, Fused
  <2> HIDE DEF ls
  <2>3. \A i \in DOMAIN met : met[i] \in AllIds(ls)
    BY <2>1, FirstMetProperties
  <2>4. copies \in [DOMAIN met -> Result] /\ \A i \in DOMAIN met : copies[i].id = met[i]
    BY <2>1, <2>3, CopyProperties
  <2> HIDE DEF copies
  <2>5. fused \in RankedList /\ RespectsDominance(ls, fused)
    BY <2>1, <2>4, FusedProperties
  <2> QED BY <2>2, <2>5 DEF ls
<1>2. ASSUME NEW ls \in Seq(RankedList), NEW k \in Nat
      PROVE  /\ RrfMerge(ls, k) \in RankedList /\ Ids(RrfMerge(ls, k)) \subseteq AllIds(ls)
             /\ RespectsDominance(ls, RrfMerge(ls, k))
  <2> DEFINE met == FirstMet(ls)
             copies == [i \in DOMAIN met |-> BestCopy(ls, met[i])]
             fused == SortedBy(copies, [i \in DOMAIN met |-> FusedScore(ls, 0, met[i])])
  <2>1. RrfMerge(ls, k) = Cut(fused, k)
    BY DEF RrfMerge, Fused
  <2>2. \A i \in DOMAIN met : met[i] \in AllIds(ls)
    BY FirstMetProperties
  <2>3. copies \in [DOMAIN met -> Result] /\ \A i \in DOMAIN met : copies[i].id = met[i]
    BY <2>2, CopyProperties
  <2> HIDE DEF copies
  <2>4. fused \in RankedList /\ Ids(fused) = AllIds(ls) /\ RespectsDominance(ls, fused)
    BY <2>3, FusedProperties
  <2> HIDE DEF fused
  <2>5. /\ Cut(fused, k) \in RankedList /\ Ids(Cut(fused, k)) \subseteq AllIds(ls)
        /\ RespectsDominance(ls, Cut(fused, k))
    BY <2>4, CutOfRanked
  <2> QED BY <2>1, <2>5
<1> QED BY <1>1, <1>2

-----------------------------------------------------------------------------
(* Selection. *)

\* Keeping some of different chunks.
LEMMA KeepRanked ==
    ASSUME NEW rs \in RankedList, NEW I \in SUBSET (DOMAIN rs)
    PROVE  /\ Keep(rs, I) \in RankedList
           /\ Ids(Keep(rs, I)) = {rs[i].id : i \in I}
           /\ ToSet(Keep(rs, I)) = {rs[i] : i \in I}
<1> DEFINE n == Cardinality(I)
           kept == Keep(rs, I)
<1>1. rs \in Seq(Result) /\ Distinct(rs)
  BY DEF RankedList
<1>2. kept \in Seq(Result) /\ Len(kept) = n /\ n \in Nat
  BY <1>1, KeepProperties
<1>3. PICK at : Keeping(at, rs, I)
  BY <1>1, KeepProperties
<1>4. /\ at \in [1..n -> I]
      /\ \A p \in 1..n : kept[p] = rs[at[p]]
      /\ \A p, q \in 1..n : at[p] = at[q] => p = q
      /\ \A i \in I : \E p \in 1..n : at[p] = i
  BY <1>3 DEF Keeping
<1> HIDE DEF kept, n
<1>5. DOMAIN kept = 1..n
  BY <1>2
<1>6. Distinct(kept)
  <2> SUFFICES ASSUME NEW p \in 1..n, NEW q \in 1..n, kept[p].id = kept[q].id PROVE p = q
    BY <1>5 DEF Distinct
  <2>1. rs[at[p]].id = rs[at[q]].id /\ at[p] \in DOMAIN rs /\ at[q] \in DOMAIN rs
    BY <1>4
  <2>2. at[p] = at[q]
    BY <1>1, <2>1 DEF Distinct
  <2> QED BY <1>4, <2>2
<1>7. \A r : (\E p \in 1..n : kept[p] = r) <=> (\E i \in I : rs[i] = r)
  BY <1>4
<1>8. Ids(kept) = {rs[i].id : i \in I}
  <2>1. \A x : x \in Ids(kept) <=> \E p \in 1..n : kept[p].id = x
    BY <1>5 DEF Ids
  <2>2. \A x : x \in {rs[i].id : i \in I} <=> \E i \in I : rs[i].id = x
    OBVIOUS
  <2> QED BY <1>7, <2>1, <2>2
<1>9. ToSet(kept) = {rs[i] : i \in I}
  BY <1>5, <1>7 DEF ToSet
<1> QED BY <1>2, <1>6, <1>8, <1>9 DEF RankedList, kept

\* What the reranker may answer: all chunks it was given, in some order.
LEMMA OrderProperties ==
    ASSUME NEW rs \in RankedList, NEW order \in Orders(rs)
    PROVE  order \in Seq(Chunks) /\ Len(order) = Len(rs) /\ ToSet(order) = Ids(rs)
<1> DEFINE n == Len(rs)
<1>1. rs \in Seq(Result) /\ DOMAIN rs = 1..n /\ n \in Nat
  BY DEF RankedList
<1>2. IsFiniteSet(Ids(rs)) /\ Cardinality(Ids(rs)) = n /\ Ids(rs) \subseteq Chunks
  BY IdsOfDistinct
<1> HIDE DEF n
<1>3. order \in [1..n -> Ids(rs)] /\ \A id \in Ids(rs) : \E i \in 1..n : order[i] = id
  <2>1. CASE order = [i \in DOMAIN rs |-> rs[i].id]
    BY <1>1, <2>1 DEF Ids
  <2>2. CASE order \in SetToSeqs(Ids(rs))
    <3>1. order \in [1..n -> Ids(rs)] /\ \A i, j \in 1..n : i # j => order[i] # order[j]
      BY <1>2, <2>2 DEF SetToSeqs
    <3>2. order \in Injection(1..n, Ids(rs))
      BY <3>1 DEF Injection, IsInjective
    <3>3. Cardinality(1..n) = Cardinality(Ids(rs))
      BY <1>1, <1>2, FirstNumbers
    <3>4. order \in Surjection(1..n, Ids(rs))
      BY <1>2, <3>2, <3>3, FS_Injection
    <3> QED BY <3>1, <3>4 DEF Surjection
  <2> QED BY <2>1, <2>2 DEF Orders
<1>4. order \in Seq(Chunks) /\ Len(order) = n /\ DOMAIN order = 1..n
  BY <1>1, <1>2, <1>3
<1>5. ToSet(order) = Ids(rs)
  BY <1>3, <1>4 DEF ToSet
<1> QED BY <1>4, <1>5 DEF n

\* The elements of a list are no more than its length.
LEMMA ToSetBounded ==
    ASSUME NEW S, NEW s \in Seq(S)
    PROVE  IsFiniteSet(ToSet(s)) /\ Cardinality(ToSet(s)) <= Len(s)
<1> DEFINE f == [i \in 1..Len(s) |-> s[i]]
<1>1. Len(s) \in Nat /\ DOMAIN s = 1..Len(s)
  OBVIOUS
<1>2. f \in Surjection(1..Len(s), ToSet(s))
  BY <1>1 DEF Surjection, ToSet
<1>3. IsFiniteSet(1..Len(s)) /\ Cardinality(1..Len(s)) = Len(s)
  BY <1>1, FirstNumbers
<1> QED BY <1>2, <1>3, FS_Surjection

\* _execute_rerank.
LEMMA RerankedProperties ==
    ASSUME NEW rs \in RankedList, NEW order \in Orders(rs), NEW k \in Nat \ {0}
    PROVE  /\ Reranked(rs, order, k) \in RankedList
           /\ Ids(Reranked(rs, order, k)) \subseteq Ids(rs)
           /\ Len(Reranked(rs, order, k)) <= k
           /\ rs # <<>> => Reranked(rs, order, k) # <<>>
           /\ (\A a, b \in Chunks : TextOf[a] = TextOf[b] => a = b) =>
                Ids(Reranked(rs, order, k)) = ToSet(Cut(order, k))
<1> DEFINE first == Cut(order, k)
           texts == {TextOf[order[i]] : i \in DOMAIN first}
           I == {i \in DOMAIN rs : TextOf[rs[i].id] \in texts}
           kept == Keep(rs, I)
<1>1. k \in Nat /\ k > 0
  OBVIOUS
<1>2. order \in Seq(Chunks) /\ Len(order) = Len(rs) /\ ToSet(order) = Ids(rs)
  BY OrderProperties
<1>3. /\ first \in Seq(Chunks) /\ Len(first) = (IF Len(order) < k THEN Len(order) ELSE k)
      /\ \A i \in DOMAIN first : i \in DOMAIN order /\ first[i] = order[i]
  BY <1>1, <1>2, CutProperties
<1>4. Reranked(rs, order, k) = Cut(kept, k)
  BY DEF Reranked
<1>5. I \in SUBSET (DOMAIN rs)
  OBVIOUS
<1>6. \A i \in I : \E j \in DOMAIN first : TextOf[rs[i].id] = TextOf[first[j]]
  BY <1>3
<1>7. \A i \in DOMAIN rs, j \in DOMAIN first : rs[i].id = first[j] => i \in I
  BY <1>3
<1> HIDE DEF first, I
<1>8. /\ kept \in RankedList /\ Ids(kept) = {rs[i].id : i \in I}
  BY <1>5, KeepRanked
<1> HIDE DEF kept
<1>9. /\ Cut(kept, k) \in RankedList /\ Ids(Cut(kept, k)) \subseteq Ids(kept)
      /\ Len(Cut(kept, k)) <= k /\ (kept # <<>> => Cut(kept, k) # <<>>)
  BY <1>1, <1>8, CutOfRanked
<1>10. Ids(kept) \subseteq Ids(rs)
  BY <1>5, <1>8 DEF Ids
<1>11. \A j \in DOMAIN first : first[j] \in ToSet(order)
  BY <1>3 DEF ToSet
<1>12. \A j \in DOMAIN first : first[j] \in Ids(kept)
  <2> SUFFICES ASSUME NEW j \in DOMAIN first PROVE first[j] \in Ids(kept)
    OBVIOUS
  <2>1. PICK i \in DOMAIN rs : rs[i].id = first[j]
    BY <1>2, <1>11 DEF Ids
  <2>2. i \in I
    BY <1>7, <2>1
  <2> QED BY <1>8, <2>1, <2>2
<1>13. ASSUME rs # <<>> PROVE kept # <<>>
  <2>1. Len(rs) > 0
    <3>1. rs \in Seq(Result)
      BY DEF RankedList
    <3> QED BY <1>13, <3>1
  <2>2. 1 \in DOMAIN first
    BY <1>1, <1>2, <1>3, <2>1
  <2>3. Ids(kept) # {}
    BY <1>12, <2>2
  <2> QED BY <2>3 DEF Ids
<1>14. ASSUME \A a, b \in Chunks : TextOf[a] = TextOf[b] => a = b
       PROVE  Ids(Cut(kept, k)) = ToSet(first)
  <2>1. ASSUME NEW id \in Ids(kept) PROVE id \in ToSet(first)
    <3>1. PICK i \in I : id = rs[i].id
      BY <1>8
    <3>2. PICK j \in DOMAIN first : TextOf[id] = TextOf[first[j]]
      BY <1>6, <3>1
    <3>3. id \in Chunks /\ first[j] \in Chunks
      BY <1>3, <1>8, IdsOfDistinct
    <3>4. id = first[j]
      BY <1>14, <3>2, <3>3
    <3> QED BY <3>4 DEF ToSet
  <2>2. Ids(kept) = ToSet(first)
    BY <1>12, <2>1 DEF ToSet
  <2>3. Len(kept) <= k /\ kept \in Seq(Result)
    <3>1. Cardinality(ToSet(first)) <= Len(first)
      BY <1>3, ToSetBounded
    <3>2. Cardinality(Ids(kept)) = Len(kept)
      BY <1>8, IdsOfDistinct
    <3>3. Len(kept) \in Nat /\ kept \in Seq(Result)
      BY <1>8 DEF RankedList
    <3>4. Len(first) <= k /\ Len(first) \in Nat
      BY <1>1, <1>2, <1>3
    <3> QED BY <1>1, <2>2, <3>1, <3>2, <3>3, <3>4
  <2>4. Cut(kept, k) = kept
    <3>1. Cut(kept, k) \in Seq(Result) /\ Len(Cut(kept, k)) = Len(kept)
      BY <1>1, <2>3, CutProperties
    <3>2. \A i \in 1..Len(kept) : Cut(kept, k)[i] = kept[i]
      BY <1>1, <2>3, <3>1, CutProperties
    <3> QED BY <2>3, <3>1, <3>2, SeqEqual
  <2> QED BY <2>2, <2>4
<1> QED BY <1>4, <1>9, <1>10, <1>13, <1>14 DEF first

\* What MMR compares are integers.
LEMMA RelevanceIsInt ==
    ASSUME NEW r \in Result, NEW selected \in Seq(Result)
    PROVE  Relevance(r, selected) \in Int
<1>1. r.score \in Int /\ r.id \in Chunks /\ Lambda \in Int
  BY RankingAssumption DEF Result
<1>2. CASE selected = <<>>
  BY <1>1, <1>2 DEF Relevance
<1>3. CASE selected # <<>>
  <2> DEFINE T == {Similarity[<<r.id, s.id>>] : s \in ToSet(selected)}
  <2>1. \A s \in ToSet(selected) : s.id \in Chunks
    <3>1. \A i \in DOMAIN selected : selected[i] \in Result
      OBVIOUS
    <3> QED BY <3>1 DEF ToSet, Result
  <2>2. ASSUME NEW s \in ToSet(selected) PROVE Similarity[<<r.id, s.id>>] \in 0..10
    <3>1. <<r.id, s.id>> \in Chunks \X Chunks
      BY <1>1, <2>1
    <3> QED BY <3>1, RankingAssumption
  <2>3. T \in SUBSET (0..10)
    BY <2>2
  <2>4. T # {}
    <3>1. selected[1] \in ToSet(selected)
      BY <1>3 DEF ToSet
    <3> QED BY <3>1
  <2> HIDE DEF T
  <2>5. IsFiniteSet(T) /\ T \in SUBSET Int
    <3>1. IsFiniteSet(0..10)
      <4>1. \A n \in Nat : IsFiniteSet(0..n)
        BY FirstNumbers
      <4> QED BY <4>1
    <3>2. IsFiniteSet(T)
      BY <2>3, <3>1, FS_Subset
    <3>3. T \in SUBSET Int
      BY <2>3
    <3> QED BY <3>2, <3>3
  <2>6. Max(T) \in Int
    BY <2>4, <2>5, Extremes
  <2>7. Relevance(r, selected) = Lambda * r.score - (10 - Lambda) * Max(T)
    BY <1>3 DEF Relevance, T
  <2> QED BY <1>1, <2>6, <2>7
<1> QED BY <1>2, <1>3

\* The results MMR has left, and the best of them.
Rest(rs, selected) == Keep(rs, {i \in DOMAIN rs : rs[i] \notin ToSet(selected)})
BestOf(rest, selected) ==
    rest[Min({i \in DOMAIN rest : \A j \in DOMAIN rest :
                Relevance(rest[i], selected) >= Relevance(rest[j], selected)})]
Round(rs, selected) ==
    IF Rest(rs, selected) = <<>> THEN selected
    ELSE Append(selected, BestOf(Rest(rs, selected), selected))
Selections(rs) == {selected \in RankedList : ToSet(selected) \subseteq ToSet(rs)}

\* A round adds a result that is not selected yet, as long as there is one.
LEMMA RoundProperties ==
    ASSUME NEW rs \in RankedList, NEW selected \in Selections(rs)
    PROVE  /\ Round(rs, selected) \in Selections(rs)
           /\ Len(Round(rs, selected)) \in {Len(selected), Len(selected) + 1}
           /\ (rs # <<>> /\ selected = <<>>) => Len(Round(rs, selected)) = 1
<1> DEFINE I == {i \in DOMAIN rs : rs[i] \notin ToSet(selected)}
           rest == Rest(rs, selected)
           best == BestOf(rest, selected)
           v == [i \in DOMAIN rest |-> Relevance(rest[i], selected)]
           B == {i \in DOMAIN rest : \A j \in DOMAIN rest :
                    Relevance(rest[i], selected) >= Relevance(rest[j], selected)}
<1>1. /\ rs \in Seq(Result) /\ Distinct(rs) /\ Len(selected) \in Nat
      /\ selected \in Seq(Result) /\ Distinct(selected) /\ ToSet(selected) \subseteq ToSet(rs)
  BY DEF RankedList, Selections
<1>2. rest \in RankedList /\ ToSet(rest) = {rs[i] : i \in I}
  <2>1. I \in SUBSET (DOMAIN rs)
    OBVIOUS
  <2>2. rest = Keep(rs, I)
    BY DEF Rest
  <2> HIDE DEF I, rest
  <2> QED BY <2>1, <2>2, KeepRanked
<1>3. (rs # <<>> /\ selected = <<>>) => rest # <<>>
  <2> SUFFICES ASSUME rs # <<>>, selected = <<>> PROVE rest # <<>>
    OBVIOUS
  <2>1. 1 \in I
    BY <1>1 DEF ToSet
  <2>2. rs[1] \in ToSet(rest)
    BY <1>2, <2>1
  <2> HIDE DEF rest
  <2> QED BY <2>2 DEF ToSet
<1> HIDE DEF rest
<1>4. rest \in Seq(Result) /\ DOMAIN rest = 1..Len(rest) /\ Len(rest) \in Nat
  BY <1>2 DEF RankedList
<1>5. CASE rest = <<>>
  BY <1>1, <1>3, <1>5 DEF Round, rest
<1>6. CASE rest # <<>>
  <2>1. \A i \in DOMAIN rest : v[i] \in Int
    BY <1>1, <1>4, RelevanceIsInt
  <2>2. IsFiniteSet(DOMAIN rest) /\ DOMAIN rest # {}
    <3>1. IsFiniteSet(1..Len(rest))
      BY <1>4, FirstNumbers
    <3>2. Len(rest) # 0
      BY <1>4, <1>6
    <3>3. 1 \in DOMAIN rest
      BY <1>4, <3>2
    <3>4. IsFiniteSet(DOMAIN rest)
      BY <1>4, <3>1
    <3> QED BY <3>3, <3>4
  <2>3. \E i \in DOMAIN rest : \A j \in DOMAIN rest : v[i] >= v[j]
    <3> HIDE DEF v
    <3> QED BY <2>1, <2>2, Greatest
  <2>4. B # {} /\ B \in SUBSET (DOMAIN rest)
    BY <2>3
  <2> HIDE DEF B, v
  <2>5. Min(B) \in B
    <3>1. IsFiniteSet(B)
      BY <2>2, <2>4, FS_Subset
    <3>2. B \in SUBSET Int
      BY <1>4, <2>4
    <3> QED BY <2>4, <3>1, <3>2, Extremes
  <2>6. best = rest[Min(B)]
    BY DEF BestOf, B
  <2> HIDE DEF best
  <2>7. best \in Result /\ best \in ToSet(rest)
    BY <1>4, <2>4, <2>5, <2>6 DEF ToSet
  <2>8. PICK i \in I : best = rs[i]
    BY <1>2, <2>7
  <2>9. best \in ToSet(rs) /\ best \notin ToSet(selected)
    BY <2>8 DEF ToSet
  <2>10. ASSUME NEW j \in DOMAIN selected PROVE selected[j].id # best.id
    <3>1. selected[j] \in ToSet(selected)
      BY DEF ToSet
    <3>2. PICK m \in DOMAIN rs : selected[j] = rs[m]
      BY <1>1, <3>1 DEF ToSet
    <3>3. m # i
      BY <2>8, <2>9, <3>1, <3>2
    <3> QED BY <1>1, <2>8, <3>2, <3>3 DEF Distinct
  <2> DEFINE next == Append(selected, best)
  <2>11. Round(rs, selected) = next
    BY <1>6 DEF Round, rest, best
  <2>12. /\ next \in Seq(Result) /\ Len(next) = Len(selected) + 1
         /\ \A j \in 1..Len(selected) : next[j] = selected[j]
         /\ next[Len(selected) + 1] = best
    BY <1>1, <2>7, AppendProperties
  <2> HIDE DEF next
  <2>13. DOMAIN next = 1..(Len(selected) + 1) /\ DOMAIN selected = 1..Len(selected)
    BY <1>1, <2>12
  <2>14. \A j \in DOMAIN next : j \in DOMAIN selected \/ j = Len(selected) + 1
    BY <1>1, <2>13
  <2>15. Distinct(next)
    <3> SUFFICES ASSUME NEW p \in DOMAIN next, NEW q \in DOMAIN next, next[p].id = next[q].id
                 PROVE  p = q
      BY DEF Distinct
    <3> QED BY <1>1, <2>10, <2>12, <2>13, <2>14 DEF Distinct
  <2>16. ToSet(next) \subseteq ToSet(rs)
    <3>1. \A j \in DOMAIN selected : selected[j] \in ToSet(rs)
      BY <1>1 DEF ToSet
    <3>2. \A j \in DOMAIN next : next[j] \in ToSet(rs)
      BY <2>9, <2>12, <2>13, <2>14, <3>1
    <3> QED BY <3>2 DEF ToSet
  <2>17. next \in Selections(rs)
    BY <2>12, <2>15, <2>16 DEF Selections, RankedList
  <2>18. selected = <<>> => Len(selected) = 0
    OBVIOUS
  <2> QED BY <2>11, <2>12, <2>17, <2>18
<1> QED BY <1>5, <1>6

\* _mmr_filter.
LEMMA MmrFilterProperties ==
    ASSUME NEW rs \in RankedList, NEW k \in Nat
    PROVE  /\ MmrFilter(rs, k) \in Selections(rs)
           /\ Len(MmrFilter(rs, k)) <= k
           /\ (k > 0 /\ rs # <<>>) => MmrFilter(rs, k) # <<>>
<1> DEFINE S == Selections(rs)
           step == [n \in Nat |-> [selected \in S |-> Round(rs, selected)]]
           Rounds(f) == f = [n \in Nat |-> IF n = 0 THEN <<>> ELSE Round(rs, f[n - 1])]
           rounds == CHOOSE f : Rounds(f)
<1>1. <<>> \in S
  BY DEF Selections, RankedList, Distinct, ToSet
<1>2. \A n \in Nat \ {0} : \A selected \in S : step[n][selected] = Round(rs, selected)
  OBVIOUS
<1> HIDE DEF step
<1>3. Steps(step, S)
  BY <1>2, RoundProperties DEF Steps
<1> HIDE DEF S
<1>4. PICK f : Recursive(f, S, <<>>, step)
  BY <1>1, <1>3, NatFunction
<1>5. Rounds(f)
  <2>1. ASSUME NEW n \in Nat PROVE f[n] = IF n = 0 THEN <<>> ELSE Round(rs, f[n - 1])
    <3>1. CASE n = 0
      BY <1>4, <3>1 DEF Recursive
    <3>2. CASE n # 0
      <4>1. n \in Nat \ {0} /\ f[n - 1] \in S
        BY <1>4, <3>2 DEF Recursive
      <4> QED BY <1>2, <1>4, <3>2, <4>1 DEF Recursive
    <3> QED BY <3>1, <3>2
  <2> QED BY <1>4, <2>1 DEF Recursive
<1>6. Rounds(rounds)
  <2> HIDE DEF Rounds
  <2> QED BY <1>5
<1>7. MmrFilter(rs, k) = rounds[k]
  BY DEF MmrFilter, Round, Rest, BestOf
<1>8. rounds[0] = <<>> /\ \A n \in Nat : rounds[n + 1] = Round(rs, rounds[n])
  <2> HIDE DEF rounds
  <2>1. \A n \in Nat : rounds[n] = IF n = 0 THEN <<>> ELSE Round(rs, rounds[n - 1])
    BY <1>6
  <2>2. ASSUME NEW n \in Nat PROVE rounds[n + 1] = Round(rs, rounds[n])
    <3>1. n + 1 \in Nat /\ n + 1 # 0 /\ (n + 1) - 1 = n
      OBVIOUS
    <3> QED BY <2>1, <3>1
  <2> QED BY <2>1, <2>2
<1> HIDE DEF rounds
<1> DEFINE Good(n) == /\ rounds[n] \in S /\ Len(rounds[n]) \in Nat /\ Len(rounds[n]) <= n
                      /\ (n > 0 /\ rs # <<>>) => Len(rounds[n]) > 0
           T == {n \in Nat : Good(n)}
<1>9. T = Nat
  <2>1. 0 \in T
    BY <1>1, <1>8
  <2>2. ASSUME NEW n \in T PROVE n + 1 \in T
    <3> DEFINE now == rounds[n]
               next == rounds[n + 1]
    <3>1. /\ n \in Nat /\ now \in S /\ Len(now) \in Nat /\ Len(now) <= n
          /\ (n > 0 /\ rs # <<>>) => Len(now) > 0
      OBVIOUS
    <3>2. next = Round(rs, now)
      BY <1>8, <3>1
    <3> HIDE DEF now, next
    <3>3. /\ next \in S /\ Len(next) \in {Len(now), Len(now) + 1}
          /\ (rs # <<>> /\ now = <<>>) => Len(next) = 1
      BY <3>1, <3>2, RoundProperties DEF S
    <3>4. now = <<>> \/ Len(now) > 0
      <4>1. now \in Seq(Result)
        BY <3>1 DEF S, Selections, RankedList
      <4> QED BY <4>1
    <3>5. /\ next \in S /\ Len(next) \in Nat /\ Len(next) <= n + 1
          /\ (n + 1 > 0 /\ rs # <<>>) => Len(next) > 0
      BY <3>1, <3>3, <3>4
    <3> QED BY <3>1, <3>5 DEF next
  <2> HIDE DEF T
  <2>3. T \in SUBSET Nat
    BY DEF T
  <2> QED BY <2>1, <2>2, <2>3, NumbersAll
<1>10. Good(k)
  <2> HIDE DEF Good
  <2> QED BY <1>9
<1>11. rounds[k] # <<>> \/ Len(rounds[k]) = 0
  OBVIOUS
<1> QED BY <1>7, <1>10, <1>11 DEF S

\* _apply_mmr_if_enabled, when it is enabled.
LEMMA MmrProperties ==
    ASSUME NEW rs \in RankedList, NEW k \in Nat \ {0}
    PROVE  /\ Mmr(rs, k) \in RankedList /\ Ids(Mmr(rs, k)) \subseteq Ids(rs)
           /\ Len(Mmr(rs, k)) <= k
           /\ rs # <<>> => Mmr(rs, k) # <<>>
<1> DEFINE some == Embedded(rs)
<1>0. k \in Nat /\ k > 0
  OBVIOUS
<1>1. some \in RankedList /\ ToSet(some) \subseteq ToSet(rs)
  <2> DEFINE I == {i \in DOMAIN rs : rs[i].embedded}
  <2>1. I \in SUBSET (DOMAIN rs) /\ some = Keep(rs, I)
    BY DEF Embedded
  <2> HIDE DEF I, some
  <2>2. some \in RankedList /\ ToSet(some) = {rs[i] : i \in I}
    BY <2>1, KeepRanked
  <2> QED BY <2>1, <2>2 DEF ToSet
<1> HIDE DEF some
<1>2. Mmr(rs, k) = IF some = <<>> THEN Cut(rs, k) ELSE MmrFilter(some, k)
  BY DEF Mmr, some
<1>3. CASE some = <<>>
  BY <1>0, <1>2, <1>3, CutOfRanked
<1>4. CASE some # <<>>
  <2>1. /\ MmrFilter(some, k) \in Selections(some) /\ Len(MmrFilter(some, k)) <= k
        /\ MmrFilter(some, k) # <<>>
    BY <1>0, <1>1, <1>4, MmrFilterProperties
  <2> DEFINE chosen == MmrFilter(some, k)
  <2> HIDE DEF chosen
  <2>2. chosen \in RankedList /\ ToSet(chosen) \subseteq ToSet(rs)
    BY <1>1, <2>1 DEF Selections, chosen
  <2>3. Ids(chosen) \subseteq Ids(rs)
    <3> SUFFICES ASSUME NEW i \in DOMAIN chosen PROVE chosen[i].id \in Ids(rs)
      BY DEF Ids
    <3>1. chosen[i] \in ToSet(rs)
      BY <2>2 DEF ToSet
    <3> QED BY <3>1 DEF ToSet, Ids
  <2> QED BY <1>2, <1>4, <2>1, <2>2, <2>3 DEF chosen
<1> QED BY <1>3, <1>4

-----------------------------------------------------------------------------
(* The pipeline. *)

\* What a request may ask for.
Ask == [top_k : 1..MaxTopK, allowed : SUBSET Chunks, stream : BOOLEAN]

\* What is fetched for a request.
LEMMA PoolProperties ==
    ASSUME NEW k \in Nat
    PROVE  PoolOf(k) \in Nat
<1>1. PoolSize \in Nat
  BY PipelineAssumption
<1>2. {k, PoolSize} \in SUBSET Int /\ {k, PoolSize} # {}
  BY <1>1
<1>3. IsFiniteSet({k, PoolSize})
  <2>1. IsFiniteSet({k}) /\ {k, PoolSize} = {k} \cup {PoolSize}
    BY FS_Singleton
  <2> QED BY <2>1, FS_AddElement
<1>4. Max({k, PoolSize}) \in {k, PoolSize}
  BY <1>2, <1>3, Extremes
<1> QED BY <1>1, <1>4 DEF PoolOf

\* One list respects its own order.
LEMMA OneListDominates ==
    ASSUME NEW ls, DOMAIN ls = {1}
    PROVE  RespectsDominance(ls, ls[1])
<1> SUFFICES ASSUME NEW a \in Ids(ls[1]), NEW b \in Ids(ls[1]), Dominates(ls, a, b)
             PROVE  Position(ls[1], a) < Position(ls[1], b)
  BY DEF RespectsDominance
<1>1. RankIn(ls, 1, a) < RankIn(ls, 1, b)
  BY DEF Dominates
<1> QED BY <1>1 DEF RankIn

\* What Retrieve finds.
LEMMA RetrievalProperties ==
    ASSUME ask \in Ask, agent \in Agent
    PROVE  /\ \A o \in Rankings : SparseQuery(o) \in RankedList
           /\ \A ls \in DenseLists :
                 /\ ls \in Seq(RankedList)
                 /\ Dense(ls) \in RankedList /\ Ids(Dense(ls)) \subseteq ask.allowed
                 /\ RespectsDominance(ls, Dense(ls))
<1>1. ask.top_k \in Nat /\ ask.allowed \in SUBSET Chunks /\ agent.mmr \in BOOLEAN
  BY DEF Ask, Agent
<1>2. PoolOf(ask.top_k) \in Nat
  BY <1>1, PoolProperties
<1>3. \A o \in Rankings : SparseQuery(o) \in RankedList
  <2>1. Chunks \in SUBSET Chunks /\ FALSE \in BOOLEAN
    OBVIOUS
  <2> QED BY <1>2, <2>1, FoundProperties DEF SparseQuery
<1>4. \A o \in Rankings : DenseQuery(o) \in RankedList /\ Ids(DenseQuery(o)) \subseteq ask.allowed
  BY <1>1, <1>2, FoundProperties DEF DenseQuery
<1>5. ASSUME NEW ls \in DenseLists
      PROVE  ls \in Seq(RankedList) /\ ls # <<>> /\ AllIds(ls) \subseteq ask.allowed
  <2>1. CASE ls \in {<<DenseQuery(o)>> : o \in Rankings}
    <3>1. PICK o \in Rankings : ls = <<DenseQuery(o)>>
      BY <2>1
    <3>2. ls \in Seq(RankedList) /\ Len(ls) = 1 /\ ls[1] = DenseQuery(o) /\ DOMAIN ls = {1}
      BY <1>4, <3>1
    <3>3. AllIds(ls) \subseteq ask.allowed
      BY <1>4, <3>2 DEF AllIds
    <3>4. ls # <<>>
      BY <3>1
    <3> QED BY <3>2, <3>3, <3>4
  <2>2. CASE ls \in UNION {{[i \in 1..n |-> DenseQuery(os[i])] : os \in [1..n -> Rankings]} :
                             n \in 1..MultiQueryCount}
    <3>1. PICK n \in 1..MultiQueryCount :
             ls \in {[i \in 1..n |-> DenseQuery(os[i])] : os \in [1..n -> Rankings]}
      BY <2>2
    <3>2. PICK os \in [1..n -> Rankings] : ls = [i \in 1..n |-> DenseQuery(os[i])]
      BY <3>1
    <3>3. n \in Nat \ {0}
      BY PipelineAssumption
    <3>4. \A i \in 1..n : os[i] \in Rankings /\ ls[i] = DenseQuery(os[i])
      BY <3>2
    <3>5. \A i \in 1..n : ls[i] \in RankedList /\ Ids(ls[i]) \subseteq ask.allowed
      BY <1>4, <3>4
    <3>6. ls \in Seq(RankedList) /\ Len(ls) = n /\ DOMAIN ls = 1..n
      BY <3>2, <3>3, <3>5
    <3>7. AllIds(ls) \subseteq ask.allowed
      BY <3>5, <3>6 DEF AllIds
    <3> QED BY <3>3, <3>6, <3>7
  <2> QED BY <2>1, <2>2 DEF DenseLists
<1>6. ASSUME NEW ls \in DenseLists
      PROVE  /\ Dense(ls) \in RankedList /\ Ids(Dense(ls)) \subseteq ask.allowed
             /\ RespectsDominance(ls, Dense(ls))
  <2>1. CASE Len(ls) = 1
    <3>1. ls \in Seq(RankedList) /\ DOMAIN ls = {1} /\ AllIds(ls) \subseteq ask.allowed
      BY <1>5, <2>1
    <3>2. ls[1] \in RankedList /\ Ids(ls[1]) \subseteq ask.allowed
      <4>1. 1 \in DOMAIN ls /\ ls[1] \in RankedList
        BY <3>1
      <4>2. Ids(ls[1]) \subseteq AllIds(ls)
        BY <4>1 DEF AllIds
      <4> QED BY <3>1, <4>1, <4>2
    <3>3. Dense(ls) = ls[1]
      BY <2>1 DEF Dense
    <3> QED BY <3>1, <3>2, <3>3, OneListDominates
  <2>2. CASE Len(ls) # 1
    <3>1. Dense(ls) = RrfMerge(ls, PoolOf(ask.top_k))
      BY <2>2 DEF Dense
    <3> QED BY <1>2, <1>5, <3>1, FusionProperties
  <2> QED BY <2>1, <2>2
<1> QED BY <1>3, <1>5, <1>6

\* What Retrieve leaves.
LEMMA RetrieveFinds ==
    ASSUME ask \in Ask, agent \in Agent, Retrieve
    PROVE  /\ lists' \in Seq(RankedList) /\ retrieved' \in RankedList
           /\ RespectsDominance(lists', retrieved')
           /\ agent.mode = "dense" => Ids(retrieved') \subseteq ask.allowed
<1>0. PoolOf(ask.top_k) \in Nat
  <2>1. ask.top_k \in Nat
    BY DEF Ask
  <2> QED BY <2>1, PoolProperties
<1>1. CASE agent.mode = "dense" /\ \E ls \in DenseLists : lists' = ls /\ retrieved' = Dense(ls)
  BY <1>1, RetrievalProperties
<1>2. CASE /\ agent.mode = "sparse"
           /\ \E o \in Rankings : lists' = <<SparseQuery(o)>> /\ retrieved' = SparseQuery(o)
  <2>1. PICK o \in Rankings : lists' = <<SparseQuery(o)>> /\ retrieved' = SparseQuery(o)
    BY <1>2
  <2> DEFINE s == SparseQuery(o)
             ls == <<s>>
  <2>2. s \in RankedList
    BY RetrievalProperties
  <2> HIDE DEF s
  <2>3. ls \in Seq(RankedList) /\ DOMAIN ls = {1} /\ ls[1] = s
    BY <2>2
  <2> HIDE DEF ls
  <2>4. RespectsDominance(ls, s)
    BY <2>3, OneListDominates
  <2> QED BY <1>2, <2>1, <2>2, <2>3, <2>4 DEF ls, s
<1>3. CASE /\ agent.mode = "hybrid"
           /\ \E ls \in DenseLists, o \in Rankings :
                 /\ lists' = <<Dense(ls), SparseQuery(o)>>
                 /\ retrieved' = Cut(ReciprocalRankFusion(Dense(ls), SparseQuery(o)),
                                     PoolOf(ask.top_k))
  <2>1. PICK ls \in DenseLists, o \in Rankings :
           /\ lists' = <<Dense(ls), SparseQuery(o)>>
           /\ retrieved' = Cut(ReciprocalRankFusion(Dense(ls), SparseQuery(o)), PoolOf(ask.top_k))
    BY <1>3
  <2> DEFINE d == Dense(ls)
             s == SparseQuery(o)
             fused == ReciprocalRankFusion(d, s)
  <2>2. d \in RankedList /\ s \in RankedList
    BY RetrievalProperties
  <2> HIDE DEF d, s
  <2>3. fused \in RankedList /\ RespectsDominance(<<d, s>>, fused)
    BY <2>2, FusionProperties
  <2>4. <<d, s>> \in Seq(RankedList)
    BY <2>2
  <2> HIDE DEF fused
  <2>5. Cut(fused, PoolOf(ask.top_k)) \in RankedList
    BY <1>0, <2>3, CutOfRanked
  <2>6. RespectsDominance(<<d, s>>, Cut(fused, PoolOf(ask.top_k)))
    BY <1>0, <2>3, CutOfRanked
  <2> QED BY <1>3, <2>1, <2>4, <2>5, <2>6 DEF fused, d, s
<1> QED BY <1>1, <1>2, <1>3 DEF Retrieve

\* What a request carries, and how far it is.
SelectionInvariant ==
    /\ stage \in Stages /\ agent \in Agent /\ ask \in Ask
    /\ lists \in Seq(RankedList) /\ retrieved \in RankedList /\ results \in RankedList
    /\ ranking \in Seq(Chunks) /\ answer \in {"none", "text"}
    /\ outcome \in {"none", "answered", "error", "unavailable"}
    /\ RespectsDominance(lists, retrieved)
    /\ agent.mode = "dense" => Ids(retrieved) \subseteq ask.allowed
    /\ Len(results) <= ask.top_k /\ Ids(results) \subseteq Ids(retrieved)
    /\ stage \in {"start", "route", "direct", "rewrite", "retrieve", "unused"} => retrieved = <<>>
    /\ stage = "generate" => (results = <<>> => retrieved = <<>>)
    /\ stage \in {"check", "respond"} => (answer = "none" => retrieved = <<>>)
    /\ outcome = "answered" => (answer = "none" => retrieved = <<>>)
    /\ stage # "end" => outcome = "none"
    /\ agent.mismatch => stage \in {"start", "end", "unused"} /\ outcome # "answered"

\* The invariant implies what a caller may rely on.
LEMMA SelectionInvariantImplies ==
    SelectionInvariant => SelectionSound /\ FusionRespectsDominance /\ EmptyOnlyIfNothingFound
<1> SUFFICES ASSUME SelectionInvariant
             PROVE  SelectionSound /\ FusionRespectsDominance /\ EmptyOnlyIfNothingFound
  OBVIOUS
<1>1. SelectionSound
  BY IdsOfDistinct DEF SelectionInvariant, SelectionSound
<1>2. FusionRespectsDominance
  BY DEF SelectionInvariant, FusionRespectsDominance, RespectsDominance, Dominates, RankIn
<1>3. EmptyOnlyIfNothingFound
  BY DEF SelectionInvariant, EmptyOnlyIfNothingFound
<1> QED BY <1>1, <1>2, <1>3

\* Nothing is retrieved at first.
LEMMA SelectionInit == Init => SelectionInvariant
<1> SUFFICES ASSUME Init PROVE SelectionInvariant
  OBVIOUS
<1>1. <<>> \in Seq(RankedList) /\ <<>> \in RankedList /\ <<>> \in Seq(Chunks)
  BY DEF RankedList, Distinct
<1>2. Ids(<<>>) = {} /\ Len(<<>>) = 0
  BY DEF Ids
<1>3. RespectsDominance(<<>>, <<>>)
  BY <1>2 DEF RespectsDominance
<1>4. agent \in Agent /\ ask \in Ask /\ stage \in {"start", "unused"}
  <2>1. CASE PipelineInit
    BY <2>1, PipelineAssumption, AgentsAssumption DEF PipelineInit, Ask
  <2>2. CASE QueryUnused
    <3>1. (CHOOSE a \in Agents : TRUE) \in Agents
      BY AgentsAssumption
    <3>2. 1 \in 1..MaxTopK
      BY PipelineAssumption
    <3> QED BY <2>2, <3>1, <3>2, AgentsAssumption DEF QueryUnused, Ask
  <2> QED BY <2>1, <2>2 DEF Init
<1>5. /\ retrieved = <<>> /\ lists = <<>> /\ ranking = <<>> /\ results = <<>>
      /\ answer = "none" /\ outcome = "none"
  BY DEF Init, PipelineInit, QueryUnused
<1>6. ask.top_k \in Nat
  BY <1>4 DEF Ask
<1> QED BY <1>1, <1>2, <1>3, <1>4, <1>5, <1>6 DEF SelectionInvariant, Stages

\* An error ends a request without an answer.
LEMMA SelectionRaise ==
    ASSUME SelectionInvariant, stage # "end", NEW error, Raise(error)
    PROVE  SelectionInvariant'
BY DEF SelectionInvariant, Raise, Stages

\* What the reranker and MMR select.
LEMMA SelectionRerank ==
    ASSUME SelectionInvariant, Rerank
    PROVE  SelectionInvariant'
<1> DEFINE k == ask.top_k
<1>1. PICK order \in Orders(retrieved) :
         LET top == Reranked(retrieved, order, ask.top_k) IN
         /\ ranking' = order
         /\ results' = IF agent.mmr THEN Mmr(top, ask.top_k) ELSE top
  BY DEF Rerank
<1>2. k \in Nat \ {0} /\ retrieved \in RankedList
  BY DEF SelectionInvariant, Ask
<1> HIDE DEF k
<1> DEFINE top == Reranked(retrieved, order, k)
<1>3. /\ top \in RankedList /\ Ids(top) \subseteq Ids(retrieved) /\ Len(top) <= k
      /\ retrieved # <<>> => top # <<>>
  BY <1>2, RerankedProperties
<1>4. results' = IF agent.mmr THEN Mmr(top, k) ELSE top
  BY <1>1 DEF k
<1> HIDE DEF top
<1>5. /\ results' \in RankedList /\ Ids(results') \subseteq Ids(retrieved) /\ Len(results') <= k
      /\ retrieved # <<>> => results' # <<>>
  <2>1. CASE agent.mmr
    <3>1. /\ Mmr(top, k) \in RankedList /\ Ids(Mmr(top, k)) \subseteq Ids(top)
          /\ Len(Mmr(top, k)) <= k /\ (top # <<>> => Mmr(top, k) # <<>>)
      BY <1>2, <1>3, MmrProperties
    <3> QED BY <1>3, <1>4, <2>1, <3>1
  <2>2. CASE ~agent.mmr
    BY <1>3, <1>4, <2>2
  <2> QED BY <2>1, <2>2
<1>6. ranking' \in Seq(Chunks)
  BY <1>1, <1>2, OrderProperties
<1>7. /\ stage = "rerank" /\ stage' = "generate"
      /\ UNCHANGED <<agent, ask, retrieved, lists, answer, events, outcome>>
  BY DEF Rerank
<1> QED BY <1>5, <1>6, <1>7 DEF SelectionInvariant, Stages, k

\* Every stage keeps the invariant.
LEMMA SelectionPreserved == SelectionInvariant /\ [Next]_vars => SelectionInvariant'
<1> SUFFICES ASSUME SelectionInvariant, [Next]_vars PROVE SelectionInvariant'
  OBVIOUS
<1>1. CASE RefuseMismatch \/ RetrieveFails \/ RerankFails
  <2>1. stage # "end" /\ \E error : Raise(error)
    BY <1>1 DEF RefuseMismatch, RetrieveFails, RerankFails
  <2> QED BY <2>1, SelectionRaise
<1>2. CASE Start
  BY <1>2 DEF Start, Goto, SelectionInvariant, Stages
<1>3. CASE Route
  <2>1. CASE \E error \in Errors : Raise(error)
    BY <1>3, <2>1, SelectionRaise DEF Route
  <2>2. CASE Goto("direct") \/ Goto(IF agent.rewrite THEN "rewrite" ELSE "retrieve")
    BY <1>3, <2>2 DEF Route, Goto, SelectionInvariant, Stages
  <2> QED BY <1>3, <2>1, <2>2 DEF Route
<1>4. CASE Rewrite
  <2>1. CASE Raise("open")
    BY <1>4, <2>1, SelectionRaise DEF Rewrite
  <2>2. CASE Goto("retrieve")
    BY <1>4, <2>2 DEF Rewrite, Goto, SelectionInvariant, Stages
  <2> QED BY <1>4, <2>1, <2>2 DEF Rewrite
<1>5. CASE Retrieve
  <2>1. /\ lists' \in Seq(RankedList) /\ retrieved' \in RankedList
        /\ RespectsDominance(lists', retrieved')
        /\ agent.mode = "dense" => Ids(retrieved') \subseteq ask.allowed
    BY <1>5, RetrieveFinds DEF SelectionInvariant
  <2>2. /\ stage = "retrieve" /\ stage' = "rerank"
        /\ UNCHANGED <<agent, ask, ranking, results, answer, events, outcome>>
    BY <1>5 DEF Retrieve
  <2>3. Ids(results) \subseteq Ids(retrieved')
    <3>1. Ids(retrieved) = {}
      BY <2>2 DEF SelectionInvariant, Ids
    <3> QED BY <3>1 DEF SelectionInvariant
  <2> QED BY <2>1, <2>2, <2>3 DEF SelectionInvariant, Stages
<1>6. CASE Rerank
  BY <1>6, SelectionRerank
<1>7. CASE Generate
  <2>1. /\ stage \in {"generate", "direct"} /\ stage' \in {"check", "respond"}
        /\ answer' \in {answer, "text"}
        /\ (stage = "generate" /\ results = <<>>) \/ answer' = "text"
        /\ UNCHANGED <<agent, ask, retrieved, lists, ranking, results, outcome>>
    BY <1>7 DEF Generate
  <2> QED BY <2>1 DEF SelectionInvariant, Stages
<1>8. CASE GenerateFails
  <2>1. CASE \E error \in Errors : Raise(error)
    BY <1>8, <2>1, SelectionRaise DEF GenerateFails
  <2>2. CASE /\ stage' = "end" /\ outcome' = "error"
             /\ UNCHANGED <<agent, ask, retrieved, lists, ranking, results, answer>>
    BY <2>2 DEF SelectionInvariant, Stages
  <2> QED BY <1>8, <2>1, <2>2 DEF GenerateFails
<1>9. CASE CheckHallucination
  BY <1>9 DEF CheckHallucination, Goto, SelectionInvariant, Stages
<1>10. CASE Respond
  BY <1>10 DEF Respond, SelectionInvariant, Stages
<1>11. CASE UNCHANGED pipelineVars
  BY <1>11 DEF pipelineVars, SelectionInvariant
<1> QED
  BY <1>1, <1>2, <1>3, <1>4, <1>5, <1>6, <1>7, <1>8, <1>9, <1>10, <1>11
  DEF Next, PipelineStep, vars

\* Every stage of the query pipeline leaves what SelectionInvariant says.
THEOREM SelectionInvariantHolds == Spec => []SelectionInvariant
<1>1. Init => SelectionInvariant
  BY SelectionInit
<1>2. SelectionInvariant /\ [Next]_vars => SelectionInvariant'
  BY SelectionPreserved
<1> QED BY <1>1, <1>2, PTL DEF Spec

\* _rrf_merge, _execute_rerank and _mmr_filter (pipeline.py): the results are different
\* chunks, at most top_k, that retrieval found, in dense mode within the filters.
THEOREM SelectionIsSound == Spec => []SelectionSound
<1>1. SelectionInvariant => SelectionSound
  BY SelectionInvariantImplies
<1> QED BY <1>1, SelectionInvariantHolds, PTL

\* reciprocal_rank_fusion and _rrf_merge never put a chunk behind one that it dominates in
\* the lists they fuse.
THEOREM FusionIsMonotone == Spec => []FusionRespectsDominance
<1>1. SelectionInvariant => FusionRespectsDominance
  BY SelectionInvariantImplies
<1> QED BY <1>1, SelectionInvariantHolds, PTL

\* run_query_pipeline answers with nothing only if retrieval found nothing, and never for
\* an agent whose documents have another provider's embeddings.
THEOREM EmptyMeansNothingFound == Spec => []EmptyOnlyIfNothingFound
<1>1. SelectionInvariant => EmptyOnlyIfNothingFound
  BY SelectionInvariantImplies
<1> QED BY <1>1, SelectionInvariantHolds, PTL

\* Texts tell the chunks apart.
DistinctTexts == \A a, b \in Chunks : TextOf[a] = TextOf[b] => a = b

\* _execute_rerank matches by text: where texts tell the chunks apart, the results are the
\* reranker's first top_k.
THEOREM RerankerDecidesAlways ==
    ASSUME DistinctTexts
    PROVE  Spec => []RerankerDecides
<1>1. Init => RerankerDecides
  BY DEF Init, PipelineInit, QueryUnused, RerankerDecides
<1>2. SelectionInvariant /\ RerankerDecides /\ [Next]_vars => RerankerDecides'
  <2> SUFFICES ASSUME SelectionInvariant, RerankerDecides, [Next]_vars
               PROVE  RerankerDecides'
    OBVIOUS
  <2>1. CASE Rerank
    <3>1. PICK order \in Orders(retrieved) :
             LET top == Reranked(retrieved, order, ask.top_k) IN
             /\ ranking' = order
             /\ results' = IF agent.mmr THEN Mmr(top, ask.top_k) ELSE top
      BY <2>1 DEF Rerank
    <3>2. ask.top_k \in Nat \ {0} /\ retrieved \in RankedList
      BY DEF SelectionInvariant, Ask
    <3>3. Ids(Reranked(retrieved, order, ask.top_k)) = ToSet(Cut(order, ask.top_k))
      BY <3>2, RerankedProperties DEF DistinctTexts
    <3>4. ask' = ask /\ agent' = agent
      BY <2>1 DEF Rerank
    <3>5. ~agent.mmr => results' = Reranked(retrieved, order, ask.top_k)
      BY <3>1
    <3> QED BY <3>1, <3>3, <3>4, <3>5 DEF RerankerDecides
  <2>2. CASE UNCHANGED pipelineVars
    BY <2>2 DEF pipelineVars, RerankerDecides
  <2>3. CASE PipelineStep /\ ~Rerank
    <3>1. stage' # "generate"
      BY <2>3 DEF PipelineStep, RefuseMismatch, Start, Route, Rewrite, Retrieve, RetrieveFails,
                  RerankFails, Generate, GenerateFails, CheckHallucination, Respond, Raise, Goto
    <3> QED BY <3>1 DEF RerankerDecides
  <2> QED BY <2>1, <2>2, <2>3 DEF Next, vars
<1> QED BY <1>1, <1>2, SelectionInvariantHolds, PTL DEF Spec

-----------------------------------------------------------------------------
(* Tokens and lines. *)

\* f starts with base, and step takes it from number to number up to a bound.
RecursiveTo(bound, f, S, base, step) ==
    f \in [0..bound -> S] /\ f[0] = base /\ \A n \in 1..bound : f[n] = step[n][f[n - 1]]

\* Such a function exists, too.
LEMMA BoundedFunction ==
    ASSUME NEW S, NEW base \in S, NEW bound \in Nat, NEW step,
           \A n \in 1..bound : \A x \in S : step[n][x] \in S
    PROVE  \E f : RecursiveTo(bound, f, S, base, step)
<1> DEFINE safe == [n \in Nat |-> [x \in S |-> IF n \in 1..bound THEN step[n][x] ELSE x]]
<1>1. \A n \in Nat : \A x \in S : safe[n][x] = IF n \in 1..bound THEN step[n][x] ELSE x
  OBVIOUS
<1> HIDE DEF safe
<1>2. Steps(safe, S)
  BY <1>1 DEF Steps
<1>3. PICK g : Recursive(g, S, base, safe)
  BY <1>2, NatFunction
<1> DEFINE f == [n \in 0..bound |-> g[n]]
<1>4. f \in [0..bound -> S] /\ f[0] = base
  BY <1>3 DEF Recursive
<1>5. ASSUME NEW n \in 1..bound PROVE f[n] = step[n][f[n - 1]]
  <2>1. n \in Nat \ {0} /\ n - 1 \in 0..bound /\ n \in 0..bound
    OBVIOUS
  <2>2. g[n] = safe[n][g[n - 1]] /\ g[n - 1] \in S
    BY <1>3, <2>1 DEF Recursive
  <2>3. f[n] = g[n] /\ f[n - 1] = g[n - 1]
    BY <2>1
  <2> HIDE DEF f
  <2> QED BY <1>1, <2>1, <2>2, <2>3
<1> HIDE DEF f
<1> QED BY <1>4, <1>5 DEF RecursiveTo

\* The tokens before a line are a number, and each line adds its own.
LEMMA TokensBeforeStep ==
    ASSUME NEW lines \in Seq(Line)
    PROVE  /\ TokensBefore(lines, 1) = 0
           /\ \A i \in 1..(Len(lines) + 1) : TokensBefore(lines, i) \in Nat
           /\ \A i \in DOMAIN lines :
                 TokensBefore(lines, i + 1) = TokensBefore(lines, i) + lines[i].tokens
<1> DEFINE N == Len(lines)
           step == [n \in 1..N |-> [x \in Nat |-> x + lines[n].tokens]]
           Sum(f) == f = [n \in 0..N |-> IF n = 0 THEN 0 ELSE f[n - 1] + lines[n].tokens]
           sum == CHOOSE f : Sum(f)
<1>1. N \in Nat /\ DOMAIN lines = 1..N
  OBVIOUS
<1>2. \A n \in 1..N : lines[n].tokens \in Nat
  <2>1. \A n \in 1..N : lines[n] \in Line
    OBVIOUS
  <2> QED BY <2>1 DEF Line
<1>3. \A i : TokensBefore(lines, i) = sum[i - 1]
  BY DEF TokensBefore
<1> HIDE DEF N
<1>4. \A n \in 1..N : \A x \in Nat : step[n][x] = x + lines[n].tokens
  OBVIOUS
<1> HIDE DEF step
<1>5. \A n \in 1..N : \A x \in Nat : step[n][x] \in Nat
  <2> SUFFICES ASSUME NEW n \in 1..N, NEW x \in Nat PROVE step[n][x] \in Nat
    OBVIOUS
  <2>1. step[n][x] = x + lines[n].tokens /\ lines[n].tokens \in Nat
    BY <1>2, <1>4
  <2> QED BY <2>1
<1>6. PICK f : RecursiveTo(N, f, Nat, 0, step)
  BY <1>1, <1>5, BoundedFunction
<1>7. Sum(f)
  <2>1. ASSUME NEW n \in 0..N PROVE f[n] = IF n = 0 THEN 0 ELSE f[n - 1] + lines[n].tokens
    <3>1. CASE n = 0
      BY <1>6, <3>1 DEF RecursiveTo
    <3>2. CASE n # 0
      <4>1. n \in 1..N /\ n - 1 \in 0..N
        BY <1>1, <3>2
      <4>2. f[n - 1] \in Nat /\ f[n] = step[n][f[n - 1]]
        BY <1>6, <4>1 DEF RecursiveTo
      <4>3. f[n] = f[n - 1] + lines[n].tokens
        BY <1>4, <4>1, <4>2
      <4> QED BY <3>2, <4>3
    <3> QED BY <3>1, <3>2
  <2>2. f \in [0..N -> Nat]
    BY <1>6 DEF RecursiveTo
  <2> QED BY <2>1, <2>2
<1>8. Sum(sum)
  <2> HIDE DEF Sum
  <2> QED BY <1>7
<1>9. \A n \in 0..N : sum[n] = IF n = 0 THEN 0 ELSE sum[n - 1] + lines[n].tokens
  <2> HIDE DEF sum
  <2> QED BY <1>8
<1> HIDE DEF sum
<1>10. sum[0] = 0
  BY <1>1, <1>9
<1>11. \A n \in 1..N : sum[n] = sum[n - 1] + lines[n].tokens
  <2> SUFFICES ASSUME NEW n \in 1..N PROVE sum[n] = sum[n - 1] + lines[n].tokens
    OBVIOUS
  <2>1. n \in 0..N /\ n # 0
    BY <1>1
  <2> QED BY <1>9, <2>1
<1> DEFINE T == {n \in Nat : n <= N => sum[n] \in Nat}
<1>12. T = Nat
  <2>1. 0 \in T
    BY <1>10
  <2>2. ASSUME NEW n \in T PROVE n + 1 \in T
    <3> SUFFICES ASSUME n + 1 <= N PROVE sum[n + 1] \in Nat
      OBVIOUS
    <3>1. n \in Nat /\ n <= N /\ n + 1 \in 1..N /\ (n + 1) - 1 = n
      BY <1>1
    <3>2. sum[n + 1] = sum[n] + lines[n + 1].tokens
      BY <1>11, <3>1
    <3> QED BY <1>2, <3>1, <3>2
  <2>3. T \in SUBSET Nat
    OBVIOUS
  <2> HIDE DEF T
  <2> QED BY <2>1, <2>2, <2>3, NumbersAll
<1>13. TokensBefore(lines, 1) = 0
  BY <1>3, <1>10
<1>14. ASSUME NEW i \in 1..(N + 1) PROVE TokensBefore(lines, i) \in Nat
  <2>1. i - 1 \in Nat /\ i - 1 <= N
    BY <1>1
  <2>2. sum[i - 1] \in Nat
    BY <1>12, <2>1
  <2> QED BY <1>3, <2>2
<1>15. ASSUME NEW i \in 1..N
       PROVE  TokensBefore(lines, i + 1) = TokensBefore(lines, i) + lines[i].tokens
  <2>1. (i + 1) - 1 = i
    BY <1>1
  <2>2. TokensBefore(lines, i + 1) = sum[i]
    BY <1>3, <2>1
  <2> QED BY <1>3, <1>11, <2>2
<1> QED BY <1>1, <1>13, <1>14, <1>15 DEF N

\* Later lines have no fewer tokens before them; a line that is not blank adds some.
LEMMA TokensBeforeProperties ==
    ASSUME NEW lines \in Seq(Line)
    PROVE  /\ TokensBefore(lines, 1) = 0 /\ TokenCount(lines) \in Nat
           /\ \A i \in 1..(Len(lines) + 1) :
                 TokensBefore(lines, i) \in Nat /\ TokensBefore(lines, i) <= TokenCount(lines)
           /\ \A i, j \in 1..(Len(lines) + 1) :
                 i <= j => TokensBefore(lines, i) <= TokensBefore(lines, j)
           /\ \A i \in Filled(lines) : TokensBefore(lines, i) < TokensBefore(lines, i + 1)
           /\ \A i \in DOMAIN lines :
                 TokensBefore(lines, i) < TokensBefore(lines, i + 1) => i \in Filled(lines)
<1> DEFINE N == Len(lines)
           tb(i) == TokensBefore(lines, i)
<1>1. N \in Nat /\ DOMAIN lines = 1..N
  OBVIOUS
<1>2. tb(1) = 0 /\ (\A i \in 1..(N + 1) : tb(i) \in Nat)
      /\ \A i \in 1..N : tb(i + 1) = tb(i) + lines[i].tokens
  BY <1>1, TokensBeforeStep
<1>3. \A i \in 1..N : lines[i].tokens \in Nat
  <2>1. \A i \in 1..N : lines[i] \in Line
    OBVIOUS
  <2> QED BY <2>1 DEF Line
<1>4. \A i \in 1..N : i \in Filled(lines) <=> lines[i].tokens # 0
  BY <1>1 DEF Filled, Blank
<1>5. Filled(lines) \subseteq 1..N
  BY <1>1 DEF Filled
<1>6. TokenCount(lines) = tb(N + 1)
  BY DEF TokenCount
<1> HIDE DEF tb, N
<1>7. ASSUME NEW i \in 1..(N + 1), NEW j \in 1..(N + 1), i <= j PROVE tb(i) <= tb(j)
  <2> DEFINE T == {d \in Nat : i + d <= N + 1 => tb(i) <= tb(i + d)}
  <2>1. 0 \in T
    BY <1>1, <1>2
  <2>2. ASSUME NEW d \in T PROVE d + 1 \in T
    <3> SUFFICES ASSUME i + (d + 1) <= N + 1 PROVE tb(i) <= tb(i + (d + 1))
      OBVIOUS
    <3>1. d \in Nat /\ i + d <= N + 1 /\ i + d \in 1..N /\ i + d \in 1..(N + 1)
          /\ i + (d + 1) = (i + d) + 1
      BY <1>1
    <3>2. tb(i) <= tb(i + d)
      BY <3>1
    <3>3. tb((i + d) + 1) = tb(i + d) + lines[i + d].tokens
      BY <1>2, <3>1
    <3> QED BY <1>2, <1>3, <3>1, <3>2, <3>3
  <2>3. T \in SUBSET Nat
    OBVIOUS
  <2> HIDE DEF T
  <2>4. T = Nat
    BY <2>1, <2>2, <2>3, NumbersAll
  <2>5. j - i \in Nat /\ i + (j - i) = j /\ j <= N + 1
    BY <1>1, <1>7
  <2> QED BY <2>4, <2>5 DEF T
<1>8. N + 1 \in 1..(N + 1) /\ \A i \in 1..(N + 1) : i <= N + 1
  BY <1>1
<1>9. \A i \in 1..N : tb(i) < tb(i + 1) <=> lines[i].tokens # 0
  <2> SUFFICES ASSUME NEW i \in 1..N PROVE tb(i) < tb(i + 1) <=> lines[i].tokens # 0
    OBVIOUS
  <2>1. i \in 1..(N + 1)
    BY <1>1
  <2> QED BY <1>2, <1>3, <2>1
<1> QED BY <1>1, <1>2, <1>4, <1>5, <1>6, <1>7, <1>8, <1>9 DEF tb, N

\* Every token is in a line.
LEMMA LineOfToken ==
    ASSUME NEW lines \in Seq(Line), NEW t \in 1..TokenCount(lines)
    PROVE  \E l \in Filled(lines) :
              TokensBefore(lines, l) < t /\ t <= TokensBefore(lines, l + 1)
<1> DEFINE N == Len(lines)
           tb(i) == TokensBefore(lines, i)
           T == {l \in 1..N : t <= tb(l + 1)}
<1>1. N \in Nat /\ DOMAIN lines = 1..N
  OBVIOUS
<1>2. /\ tb(1) = 0 /\ tb(N + 1) \in Nat /\ t \in 1..tb(N + 1)
      /\ \A i \in 1..(N + 1) : tb(i) \in Nat
      /\ \A i \in 1..N : tb(i) < tb(i + 1) => i \in Filled(lines)
  BY <1>1, TokensBeforeProperties DEF TokenCount
<1> HIDE DEF tb, N
<1>3. N # 0
  BY <1>2
<1>4. N \in T
  BY <1>1, <1>2, <1>3
<1>5. T \in SUBSET Nat /\ T # {}
  BY <1>4
<1>6. PICK l \in T : \A m \in T : l <= m
  <2> HIDE DEF T
  <2> QED BY <1>5, LeastNumber
<1>7. l \in 1..N /\ l \in 1..(N + 1) /\ l + 1 \in 1..(N + 1) /\ t <= tb(l + 1)
  BY <1>1
<1>8. tb(l) < t
  <2>1. CASE l = 1
    BY <1>2, <2>1
  <2>2. CASE l # 1
    <3>1. l - 1 \in 1..N /\ (l - 1) + 1 = l /\ l - 1 < l
      BY <1>1, <1>7, <2>2
    <3>2. ~(t <= tb((l - 1) + 1))
      BY <1>6, <3>1
    <3> QED BY <1>2, <1>7, <3>1, <3>2
  <2> QED BY <2>1, <2>2
<1>9. tb(l) < tb(l + 1)
  BY <1>2, <1>7, <1>8
<1> QED BY <1>2, <1>7, <1>8, <1>9 DEF tb

-----------------------------------------------------------------------------
(* Chains of pieces. *)

\* Pieces that hold all tokens from first to last and nothing else, in their order, none of
\* them empty; neighbours share at most overlap tokens.
Chain(cs, first, last, overlap) ==
    /\ cs \in Seq(Nat \X Nat) /\ Len(cs) > 0
    /\ cs[1][1] = first /\ cs[Len(cs)][2] = last
    /\ \A k \in 1..Len(cs) : first <= cs[k][1] /\ cs[k][1] <= cs[k][2] /\ cs[k][2] <= last
    /\ \A k \in 1..(Len(cs) - 1) :
          0 <= cs[k][2] - cs[k + 1][1] + 1 /\ cs[k][2] - cs[k + 1][1] + 1 <= overlap

\* The bounds of a piece are numbers.
LEMMA PieceBounds ==
    ASSUME NEW cs \in Seq(Nat \X Nat)
    PROVE  /\ Len(cs) \in Nat /\ DOMAIN cs = 1..Len(cs)
           /\ \A k \in 1..Len(cs) : cs[k] \in Nat \X Nat /\ cs[k][1] \in Nat /\ cs[k][2] \in Nat
<1>1. Len(cs) \in Nat /\ DOMAIN cs = 1..Len(cs) /\ \A k \in 1..Len(cs) : cs[k] \in Nat \X Nat
  OBVIOUS
<1>2. \A p \in Nat \X Nat : p[1] \in Nat /\ p[2] \in Nat
  OBVIOUS
<1> QED BY <1>1, <1>2

\* A chain holds every token.
LEMMA ChainHolds ==
    ASSUME NEW cs, NEW first \in Nat, NEW last \in Nat, NEW overlap \in Nat,
           Chain(cs, first, last, overlap), NEW t \in first..last
    PROVE  \E k \in DOMAIN cs : Holds(cs[k], t)
<1> DEFINE N == Len(cs)
           T == {k \in 1..N : t <= cs[k][2]}
<1>1. /\ N \in Nat /\ N > 0 /\ DOMAIN cs = 1..N
      /\ \A k \in 1..N : cs[k][1] \in Nat /\ cs[k][2] \in Nat
  BY PieceBounds DEF Chain
<1>2. N \in T
  BY <1>1 DEF Chain
<1>3. T \in SUBSET Nat /\ T # {}
  BY <1>2
<1>4. PICK k \in T : \A m \in T : k <= m
  <2> HIDE DEF T
  <2> QED BY <1>3, LeastNumber
<1>5. k \in 1..N /\ t <= cs[k][2]
  OBVIOUS
<1>6. cs[k][1] <= t
  <2>1. CASE k = 1
    BY <2>1 DEF Chain
  <2>2. CASE k # 1
    <3>1. k - 1 \in 1..N /\ k - 1 \in 1..(N - 1) /\ (k - 1) + 1 = k /\ k - 1 < k
      BY <1>1, <1>5, <2>2
    <3>2. ~(t <= cs[k - 1][2])
      BY <1>4, <3>1
    <3>3. 0 <= cs[k - 1][2] - cs[k][1] + 1
      <4>1. 0 <= cs[k - 1][2] - cs[(k - 1) + 1][1] + 1
        BY <3>1 DEF Chain
      <4> QED BY <3>1, <4>1
    <3> QED BY <1>1, <1>5, <3>1, <3>2, <3>3
  <2> QED BY <2>1, <2>2
<1> QED BY <1>1, <1>5, <1>6 DEF Holds

\* Pieces in order and apart that hold every token.
Partition(cs, last) ==
    /\ cs \in Seq(Nat \X Nat)
    /\ \A k \in 1..Len(cs) : 1 <= cs[k][1] /\ cs[k][1] <= cs[k][2] /\ cs[k][2] <= last
    /\ \A k, m \in 1..Len(cs) : k < m => cs[k][2] < cs[m][1]
    /\ \A t \in 1..last : \E k \in 1..Len(cs) : Holds(cs[k], t)

\* They are a chain without overlap.
LEMMA PartitionIsChain ==
    ASSUME NEW cs, NEW last \in Nat \ {0}, Partition(cs, last)
    PROVE  Chain(cs, 1, last, 0)
<1> DEFINE N == Len(cs)
           from == [k \in 1..N |-> cs[k][1]]
           to == [k \in 1..N |-> cs[k][2]]
<1>1. N \in Nat /\ from \in [1..N -> Nat] /\ to \in [1..N -> Nat]
  BY PieceBounds DEF Partition
<1>2. /\ \A k \in 1..N : 1 <= from[k] /\ from[k] <= to[k] /\ to[k] <= last
      /\ \A k, m \in 1..N : k < m => to[k] < from[m]
      /\ \A t \in 1..last : \E k \in 1..N : from[k] <= t /\ t <= to[k]
  BY DEF Partition, Holds
<1>3. \A k \in 1..N : from[k] = cs[k][1] /\ to[k] = cs[k][2]
  OBVIOUS
<1> HIDE DEF N, from, to
<1>4. N > 0 /\ 1 \in 1..N /\ N \in 1..N
  <2>1. 1 \in 1..last
    OBVIOUS
  <2>2. \E k \in 1..N : TRUE
    BY <1>2, <2>1
  <2> QED BY <1>1, <2>2
<1>5. from[1] = 1
  <2>1. PICK p \in 1..N : from[p] <= 1 /\ 1 <= to[p]
    <3>1. 1 \in 1..last
      OBVIOUS
    <3> QED BY <1>2, <3>1
  <2>2. p = 1 \/ to[1] < from[p]
    BY <1>1, <1>2, <1>4
  <2>3. 1 <= from[1] /\ from[1] <= to[1] /\ from[1] \in Nat /\ to[1] \in Nat /\ from[p] \in Nat
    BY <1>1, <1>2, <1>4
  <2> QED BY <2>1, <2>2, <2>3
<1>6. to[N] = last
  <2>1. PICK q \in 1..N : from[q] <= last /\ last <= to[q]
    <3>1. last \in 1..last
      OBVIOUS
    <3> QED BY <1>2, <3>1
  <2>2. q = N \/ to[q] < from[N]
    BY <1>1, <1>2, <1>4
  <2>3. from[N] <= to[N] /\ to[N] <= last /\ from[N] \in Nat /\ to[N] \in Nat /\ to[q] \in Nat
    BY <1>1, <1>2, <1>4
  <2> QED BY <2>1, <2>2, <2>3
<1>7. ASSUME NEW k \in 1..(N - 1) PROVE to[k] + 1 = from[k + 1]
  <2>1. k \in 1..N /\ k + 1 \in 1..N /\ k < k + 1 /\ k \in Nat
    BY <1>1
  <2>2. /\ to[k] < from[k + 1] /\ from[k + 1] <= to[k + 1] /\ to[k + 1] <= last
        /\ 1 <= from[k] /\ from[k] <= to[k]
    BY <1>2, <2>1
  <2>3. from[k] \in Nat /\ to[k] \in Nat /\ from[k + 1] \in Nat /\ to[k + 1] \in Nat
    BY <1>1, <2>1
  <2>4. ASSUME to[k] + 1 < from[k + 1] PROVE FALSE
    <3>1. to[k] + 1 \in 1..last
      BY <2>2, <2>3, <2>4
    <3>2. PICK q \in 1..N : from[q] <= to[k] + 1 /\ to[k] + 1 <= to[q]
      BY <1>2, <3>1
    <3>3. from[q] \in Nat /\ to[q] \in Nat /\ q \in Nat
      BY <1>1
    <3>4. q < k => to[q] < from[k]
      BY <1>2, <2>1
    <3>5. k + 1 < q => to[k + 1] < from[q]
      BY <1>2, <2>1
    <3>6. q < k \/ q = k \/ q = k + 1 \/ k + 1 < q
      BY <2>1, <3>3
    <3>7. ~(q < k)
      BY <2>2, <2>3, <3>2, <3>3, <3>4
    <3>8. q # k
      BY <2>3, <3>2
    <3>9. q # k + 1
      BY <2>3, <2>4, <3>2
    <3>10. ~(k + 1 < q)
      BY <2>2, <2>3, <2>4, <3>2, <3>3, <3>5
    <3> QED BY <3>6, <3>7, <3>8, <3>9, <3>10
  <2> QED BY <2>2, <2>3, <2>4
<1>8. ASSUME NEW k \in 1..(N - 1)
      PROVE  0 <= cs[k][2] - cs[k + 1][1] + 1 /\ cs[k][2] - cs[k + 1][1] + 1 <= 0
  <2>1. k \in 1..N /\ k + 1 \in 1..N
    BY <1>1
  <2>2. to[k] \in Nat /\ to[k] - from[k + 1] + 1 = 0
    BY <1>1, <1>7, <2>1
  <2>3. cs[k][2] - cs[k + 1][1] + 1 = 0
    BY <1>3, <2>1, <2>2
  <2> QED BY <2>3
<1>9. /\ cs[1][1] = 1 /\ cs[N][2] = last
      /\ \A k \in 1..N : 1 <= cs[k][1] /\ cs[k][1] <= cs[k][2] /\ cs[k][2] <= last
  BY <1>2, <1>3, <1>4, <1>5, <1>6
<1>10. cs \in Seq(Nat \X Nat)
  BY DEF Partition
<1> QED BY <1>4, <1>8, <1>9, <1>10 DEF Chain, N

\* Two chains, the second where the first ends, are one.
LEMMA ChainsConcatenate ==
    ASSUME NEW first \in Nat, NEW middle \in Nat, NEW last \in Nat, NEW overlap \in Nat,
           NEW a, NEW b, Chain(a, first, middle, overlap), Chain(b, middle + 1, last, overlap)
    PROVE  Chain(a \o b, first, last, overlap)
<1> DEFINE S == Nat \X Nat
           cs == a \o b
           M == Len(a)
           N == Len(b)
<1>1. a \in Seq(S) /\ b \in Seq(S) /\ M > 0 /\ N > 0
  BY DEF Chain
<1>2. M \in Nat /\ N \in Nat
  BY <1>1
<1>3. cs \in Seq(S) /\ Len(cs) = M + N
      /\ \A i \in 1..(M + N) : cs[i] = IF i <= M THEN a[i] ELSE b[i - M]
  BY <1>1, ConcatProperties
<1>4. /\ \A k \in 1..M : a[k][1] \in Nat /\ a[k][2] \in Nat
      /\ \A k \in 1..N : b[k][1] \in Nat /\ b[k][2] \in Nat
  BY <1>1, PieceBounds
<1>5. /\ a[1][1] = first /\ a[M][2] = middle
      /\ \A k \in 1..M : first <= a[k][1] /\ a[k][1] <= a[k][2] /\ a[k][2] <= middle
      /\ \A k \in 1..(M - 1) :
            0 <= a[k][2] - a[k + 1][1] + 1 /\ a[k][2] - a[k + 1][1] + 1 <= overlap
      /\ b[1][1] = middle + 1 /\ b[N][2] = last
      /\ \A k \in 1..N : middle + 1 <= b[k][1] /\ b[k][1] <= b[k][2] /\ b[k][2] <= last
      /\ \A k \in 1..(N - 1) :
            0 <= b[k][2] - b[k + 1][1] + 1 /\ b[k][2] - b[k + 1][1] + 1 <= overlap
  BY DEF Chain
<1> HIDE DEF cs, S, M, N
<1>6. /\ \A k \in 1..M : cs[k] = a[k]
      /\ \A k \in 1..N : cs[M + k] = b[k]
  <2>1. \A k \in 1..M : cs[k] = a[k]
    BY <1>2, <1>3
  <2>2. ASSUME NEW k \in 1..N PROVE cs[M + k] = b[k]
    <3>1. M + k \in 1..(M + N) /\ ~(M + k <= M) /\ (M + k) - M = k
      BY <1>2
    <3> QED BY <1>3, <3>1
  <2> QED BY <2>1, <2>2
<1>7. first <= middle /\ middle < last
  <2>1. 1 \in 1..M /\ 1 \in 1..N
    BY <1>1, <1>2
  <2> QED BY <1>4, <1>5, <2>1
<1>8. cs[1][1] = first /\ cs[M + N][2] = last
  <2>1. 1 \in 1..M /\ N \in 1..N
    BY <1>1, <1>2
  <2> QED BY <1>5, <1>6, <2>1
<1>9. ASSUME NEW k \in 1..(M + N)
      PROVE  first <= cs[k][1] /\ cs[k][1] <= cs[k][2] /\ cs[k][2] <= last
  <2>1. CASE k \in 1..M
    <3>1. cs[k] = a[k] /\ first <= a[k][1] /\ a[k][1] <= a[k][2] /\ a[k][2] <= middle
      BY <1>5, <1>6, <2>1
    <3> QED BY <1>4, <1>7, <2>1, <3>1
  <2>2. CASE k \notin 1..M
    <3>1. k - M \in 1..N /\ M + (k - M) = k
      BY <1>2, <2>2
    <3>2. cs[k] = b[k - M] /\ middle + 1 <= b[k - M][1] /\ b[k - M][1] <= b[k - M][2]
          /\ b[k - M][2] <= last
      BY <1>5, <1>6, <3>1
    <3> QED BY <1>4, <1>7, <3>1, <3>2
  <2> QED BY <2>1, <2>2
<1>10. ASSUME NEW k \in 1..(M + N - 1)
       PROVE  0 <= cs[k][2] - cs[k + 1][1] + 1 /\ cs[k][2] - cs[k + 1][1] + 1 <= overlap
  <2>1. CASE k < M
    <3>1. k \in 1..M /\ k + 1 \in 1..M /\ k \in 1..(M - 1)
      BY <1>2, <2>1
    <3> QED BY <1>5, <1>6, <3>1
  <2>2. CASE k = M
    <3>1. M \in 1..M /\ 1 \in 1..N
      BY <1>1, <1>2
    <3>2. cs[k][2] = middle /\ cs[k + 1][1] = middle + 1
      BY <1>5, <1>6, <2>2, <3>1
    <3> QED BY <3>2
  <2>3. CASE k > M
    <3>1. k - M \in 1..(N - 1) /\ k - M \in 1..N /\ (k - M) + 1 \in 1..N
          /\ M + (k - M) = k /\ M + ((k - M) + 1) = k + 1
      BY <1>2, <2>3
    <3>2. cs[k] = b[k - M] /\ cs[k + 1] = b[(k - M) + 1]
      BY <1>6, <3>1
    <3> QED BY <1>5, <3>1, <3>2
  <2> QED BY <1>2, <2>1, <2>2, <2>3
<1> DEFINE L == M + N
<1>11. /\ L > 0 /\ cs[1][1] = first /\ cs[L][2] = last
       /\ \A k \in 1..L : first <= cs[k][1] /\ cs[k][1] <= cs[k][2] /\ cs[k][2] <= last
       /\ \A k \in 1..(L - 1) :
             0 <= cs[k][2] - cs[k + 1][1] + 1 /\ cs[k][2] - cs[k + 1][1] + 1 <= overlap
  <2>1. L > 0
    BY <1>1, <1>2
  <2>2. \A k \in 1..L : first <= cs[k][1] /\ cs[k][1] <= cs[k][2] /\ cs[k][2] <= last
    BY <1>9
  <2>3. L - 1 = M + N - 1
    BY <1>2
  <2>4. cs[1][1] = first /\ cs[L][2] = last
    BY <1>8
  <2> HIDE DEF L
  <2> QED BY <1>10, <2>1, <2>2, <2>3, <2>4
<1> HIDE DEF L
<1>12. Chain(cs, first, last, overlap)
  <2>1. Len(cs) = L /\ cs \in Seq(Nat \X Nat)
    BY <1>3 DEF L, S
  <2> QED BY <1>11, <2>1 DEF Chain
<1> QED BY <1>12 DEF cs

\* f concatenates the lists of ss one by one.
Flattening(f, ss, S) ==
    /\ f \in [1..Len(ss) -> Seq(S)] /\ f[1] = ss[1]
    /\ \A n \in 2..Len(ss) : f[n] = f[n - 1] \o ss[n]
    /\ FlattenSeq(ss) = f[Len(ss)]

\* What FlattenSeq computes.
LEMMA FlattenSteps ==
    ASSUME NEW S, NEW ss \in Seq(Seq(S)), Len(ss) > 0
    PROVE  \E f : Flattening(f, ss, S)
<1> DEFINE N == Len(ss)
           Q == Seq(S)
           step == [n \in 1..N |-> [x \in Q |-> x \o ss[n]]]
           Flat(f) == f = [i \in 1..N |-> IF i = 1 THEN ss[i] ELSE f[i - 1] \o ss[i]]
           flatten == CHOOSE f : Flat(f)
<1>1. N \in Nat \ {0} /\ \A n \in 1..N : ss[n] \in Seq(S)
  OBVIOUS
<1>2. FlattenSeq(ss) = flatten[N]
  BY <1>1 DEF FlattenSeq
<1>3. <<>> \in Q /\ \A n \in 1..N : \A x \in Q : step[n][x] \in Q /\ step[n][x] = x \o ss[n]
  <2>1. \A x \in Seq(S) : \A y \in Seq(S) : x \o y \in Seq(S)
    BY ConcatProperties
  <2> HIDE DEF N
  <2>2. ASSUME NEW n \in 1..N, NEW x \in Q PROVE step[n][x] \in Q /\ step[n][x] = x \o ss[n]
    <3>1. step[n][x] = x \o ss[n]
      OBVIOUS
    <3>2. x \o ss[n] \in Q
      BY <1>1, <2>1
    <3> QED BY <3>1, <3>2
  <2>3. <<>> \in Q
    OBVIOUS
  <2> QED BY <2>2, <2>3
<1> HIDE DEF N, step, Q
<1>4. PICK g : RecursiveTo(N, g, Q, <<>>, step)
  BY <1>1, <1>3, BoundedFunction
<1> DEFINE f == [i \in 1..N |-> g[i]]
<1>5. f \in [1..N -> Q] /\ \A i \in 1..N : f[i] = g[i]
  <2>1. \A i \in 1..N : i \in 0..N
    BY <1>1
  <2> QED BY <1>4, <2>1 DEF RecursiveTo
<1> HIDE DEF f
<1>6. ASSUME NEW i \in 1..N PROVE f[i] = IF i = 1 THEN ss[i] ELSE f[i - 1] \o ss[i]
  <2>1. g[i] = step[i][g[i - 1]] /\ g[0] = <<>>
    BY <1>4 DEF RecursiveTo
  <2>2. CASE i = 1
    <3>1. f[i] = step[i][<<>>]
      BY <1>5, <2>1, <2>2
    <3>2. f[i] = <<>> \o ss[i]
      BY <1>3, <3>1
    <3>3. <<>> \o ss[i] = ss[i]
      BY <1>1, ConcatEmptySeq
    <3> QED BY <2>2, <3>2, <3>3
  <2>3. CASE i # 1
    <3>1. i - 1 \in 1..N
      BY <1>1, <2>3
    <3>2. f[i - 1] \in Q /\ f[i] = step[i][f[i - 1]]
      BY <1>5, <2>1, <3>1
    <3>3. f[i] = f[i - 1] \o ss[i]
      BY <1>3, <3>2
    <3> QED BY <2>3, <3>3
  <2> QED BY <2>2, <2>3
<1>7. Flat(f)
  BY <1>5, <1>6
<1>8. Flat(flatten)
  <2> HIDE DEF Flat
  <2> QED BY <1>7
<1>9. \A i \in 1..N : flatten[i] = IF i = 1 THEN ss[i] ELSE flatten[i - 1] \o ss[i]
  <2> HIDE DEF flatten
  <2> QED BY <1>8
<1>10. flatten = [i \in 1..N |-> flatten[i]]
  <2> HIDE DEF flatten
  <2> QED BY <1>8
<1> HIDE DEF flatten
<1>11. 1 \in 1..N /\ flatten[1] = ss[1]
  BY <1>1, <1>9
<1>12. \A n \in 2..N : n \in 1..N /\ n - 1 \in 1..N /\ flatten[n] = flatten[n - 1] \o ss[n]
  <2> SUFFICES ASSUME NEW n \in 2..N
               PROVE  n \in 1..N /\ n - 1 \in 1..N /\ flatten[n] = flatten[n - 1] \o ss[n]
    OBVIOUS
  <2>1. n \in 1..N /\ n - 1 \in 1..N /\ n # 1
    BY <1>1
  <2> QED BY <1>9, <2>1
<1> DEFINE T == {n \in Nat : n + 1 <= N => flatten[n + 1] \in Q}
<1>13. T = Nat
  <2>1. 0 \in T
    <3>1. flatten[0 + 1] \in Q
      BY <1>1, <1>11 DEF Q
    <3> QED BY <3>1
  <2>2. ASSUME NEW n \in T PROVE n + 1 \in T
    <3> SUFFICES ASSUME (n + 1) + 1 <= N PROVE flatten[(n + 1) + 1] \in Q
      OBVIOUS
    <3>1. n + 1 <= N /\ (n + 1) + 1 \in 2..N /\ ((n + 1) + 1) - 1 = n + 1 /\ (n + 1) + 1 \in 1..N
      BY <1>1
    <3>2. flatten[n + 1] \in Q /\ flatten[(n + 1) + 1] = flatten[n + 1] \o ss[(n + 1) + 1]
      BY <1>12, <3>1
    <3>3. ss[(n + 1) + 1] \in Q
      BY <1>1, <3>1 DEF Q
    <3> QED BY <3>2, <3>3, ConcatProperties DEF Q
  <2>3. T \in SUBSET Nat
    OBVIOUS
  <2> HIDE DEF T
  <2> QED BY <2>1, <2>2, <2>3, NumbersAll
<1>14. \A i \in 1..N : flatten[i] \in Q
  <2> SUFFICES ASSUME NEW i \in 1..N PROVE flatten[i] \in Q
    OBVIOUS
  <2>1. i - 1 \in Nat /\ (i - 1) + 1 = i /\ i <= N
    BY <1>1
  <2>2. i - 1 \in T
    <3> HIDE DEF T
    <3> QED BY <1>13, <2>1
  <2> QED BY <2>1, <2>2
<1>15. flatten \in [1..N -> Q]
  BY <1>10, <1>14
<1>16. Flattening(flatten, ss, S)
  BY <1>2, <1>11, <1>12, <1>15 DEF Flattening, N, Q
<1> QED BY <1>16

\* Its elements are elements of the lists.
LEMMA FlattenElements ==
    ASSUME NEW S, NEW ss \in Seq(Seq(S)), NEW k \in DOMAIN FlattenSeq(ss)
    PROVE  \E m \in DOMAIN ss : \E p \in DOMAIN ss[m] : FlattenSeq(ss)[k] = ss[m][p]
<1> DEFINE N == Len(ss)
           In(list) == \A i \in 1..Len(list) :
                          \E m \in 1..N : \E p \in 1..Len(ss[m]) : list[i] = ss[m][p]
<1>1. N \in Nat /\ DOMAIN ss = 1..N /\ \A n \in 1..N : ss[n] \in Seq(S)
  OBVIOUS
<1>2. CASE N = 0
  <2>1. FlattenSeq(ss) = ss
    BY <1>2 DEF FlattenSeq
  <2> QED BY <1>1, <1>2, <2>1
<1>3. CASE N > 0
  <2>1. PICK f : Flattening(f, ss, S)
    BY <1>3, FlattenSteps
  <2>2. f \in [1..N -> Seq(S)] /\ f[1] = ss[1] /\ FlattenSeq(ss) = f[N]
        /\ \A n \in 2..N : f[n] = f[n - 1] \o ss[n]
    BY <2>1 DEF Flattening
  <2> HIDE DEF N
  <2> DEFINE T == {n \in Nat : n + 1 <= N => In(f[n + 1])}
  <2>3. T = Nat
    <3>1. 0 \in T
      <4>1. 1 \in 1..N
        BY <1>1, <1>3
      <4>2. In(ss[1])
        BY <4>1
      <4>3. In(f[0 + 1])
        <5> HIDE DEF In
        <5> QED BY <2>2, <4>2
      <4> HIDE DEF In
      <4> QED BY <4>3
    <3>2. ASSUME NEW n \in T PROVE n + 1 \in T
      <4> SUFFICES ASSUME (n + 1) + 1 <= N PROVE In(f[(n + 1) + 1])
        OBVIOUS
      <4>1. n + 1 <= N /\ (n + 1) + 1 \in 2..N /\ ((n + 1) + 1) - 1 = n + 1
            /\ (n + 1) + 1 \in 1..N /\ n + 1 \in 1..N
        BY <1>1
      <4> DEFINE a == f[n + 1]
                 b == ss[(n + 1) + 1]
      <4>2. In(a)
        <5> HIDE DEF In
        <5> QED BY <4>1
      <4>3. f[(n + 1) + 1] = a \o b /\ a \in Seq(S) /\ b \in Seq(S)
        BY <1>1, <2>2, <4>1
      <4>4. \A i \in 1..Len(b) : b[i] = ss[(n + 1) + 1][i]
        OBVIOUS
      <4>5. Len(b) = Len(ss[(n + 1) + 1])
        OBVIOUS
      <4> HIDE DEF a, b, T
      <4>6. Len(a) \in Nat /\ Len(b) \in Nat /\ Len(a \o b) = Len(a) + Len(b)
            /\ \A i \in 1..(Len(a) + Len(b)) :
                  (a \o b)[i] = IF i <= Len(a) THEN a[i] ELSE b[i - Len(a)]
        BY <4>3, ConcatProperties, LenProperties
      <4>7. ASSUME NEW i \in 1..Len(a \o b)
            PROVE  \E m \in 1..N : \E p \in 1..Len(ss[m]) : (a \o b)[i] = ss[m][p]
        <5>1. i \in 1..(Len(a) + Len(b))
          BY <4>6
        <5>2. CASE i <= Len(a)
          <6>1. i \in 1..Len(a) /\ (a \o b)[i] = a[i]
            BY <4>6, <5>1, <5>2
          <6> QED BY <4>2, <6>1
        <5>3. CASE ~(i <= Len(a))
          <6>1. i - Len(a) \in 1..Len(b) /\ (a \o b)[i] = b[i - Len(a)]
            BY <4>6, <5>1, <5>3
          <6>2. i - Len(a) \in 1..Len(ss[(n + 1) + 1])
                /\ (a \o b)[i] = ss[(n + 1) + 1][i - Len(a)]
            BY <4>4, <4>5, <6>1
          <6> QED BY <4>1, <6>2
        <5> QED BY <5>2, <5>3
      <4>8. In(a \o b)
        BY <4>7
      <4> HIDE DEF In
      <4> QED BY <4>3, <4>8
    <3>3. T \in SUBSET Nat
      OBVIOUS
    <3> HIDE DEF T
    <3> QED BY <3>1, <3>2, <3>3, NumbersAll
  <2>4. N - 1 \in Nat /\ (N - 1) + 1 = N /\ N <= N /\ N \in 1..N
    BY <1>1, <1>3
  <2>5. In(f[N])
    <3>1. N - 1 \in T
      <4> HIDE DEF T
      <4> QED BY <2>3, <2>4
    <3> HIDE DEF In
    <3> QED BY <2>4, <3>1
  <2>6. f[N] \in Seq(S)
    BY <2>2, <2>4
  <2>7. k \in 1..Len(f[N])
    BY <2>2, <2>6
  <2>8. PICK m \in 1..N : \E p \in 1..Len(ss[m]) : f[N][k] = ss[m][p]
    BY <2>5, <2>7
  <2>9. DOMAIN ss[m] = 1..Len(ss[m])
    BY <1>1
  <2> QED BY <1>1, <2>2, <2>8, <2>9
<1> QED BY <1>1, <1>2, <1>3

\* Chains of the pieces of a chain are a chain.
LEMMA FlattenChains ==
    ASSUME NEW spans, NEW last \in Nat, Chain(spans, 1, last, 0), NEW overlap \in Nat,
           NEW ss, ss \in Seq(Seq(Nat \X Nat)), Len(ss) = Len(spans),
           \A m \in 1..Len(spans) : Chain(ss[m], spans[m][1], spans[m][2], overlap)
    PROVE  Chain(FlattenSeq(ss), 1, last, overlap)
<1> DEFINE N == Len(spans)
           S == Nat \X Nat
<1>1. /\ spans \in Seq(S) /\ N \in Nat /\ N > 0
      /\ spans[1][1] = 1 /\ spans[N][2] = last
      /\ \A k \in 1..(N - 1) :
            0 <= spans[k][2] - spans[k + 1][1] + 1 /\ spans[k][2] - spans[k + 1][1] + 1 <= 0
  BY PieceBounds DEF Chain
<1>2. \A k \in 1..N : spans[k][1] \in Nat /\ spans[k][2] \in Nat
  BY <1>1, PieceBounds
<1>3. ss \in Seq(Seq(S)) /\ Len(ss) = N
  OBVIOUS
<1>4. \A m \in 1..N : Chain(ss[m], spans[m][1], spans[m][2], overlap)
  OBVIOUS
<1> HIDE DEF N, S
<1>5. PICK f : Flattening(f, ss, S)
  BY <1>1, <1>3, FlattenSteps
<1>6. /\ f[1] = ss[1] /\ FlattenSeq(ss) = f[N]
      /\ \A n \in 2..N : f[n] = f[n - 1] \o ss[n]
  BY <1>3, <1>5 DEF Flattening
<1>7. ASSUME NEW k \in 1..(N - 1)
      PROVE  k \in 1..N /\ k + 1 \in 1..N /\ spans[k + 1][1] = spans[k][2] + 1
  <2>1. k \in 1..N /\ k + 1 \in 1..N
    BY <1>1
  <2>2. spans[k][2] \in Nat /\ spans[k + 1][1] \in Nat
    BY <1>2, <2>1
  <2>3. 0 <= spans[k][2] - spans[k + 1][1] + 1 /\ spans[k][2] - spans[k + 1][1] + 1 <= 0
    BY <1>1
  <2>4. spans[k + 1][1] = spans[k][2] + 1
    BY <2>2, <2>3
  <2> QED BY <2>1, <2>4
<1> DEFINE T == {n \in Nat : n + 1 <= N => Chain(f[n + 1], 1, spans[n + 1][2], overlap)}
<1>8. T = Nat
  <2>1. 0 \in T
    <3>1. 1 \in 1..N
      BY <1>1
    <3>2. Chain(f[1], 1, spans[1][2], overlap)
      BY <1>1, <1>4, <1>6, <3>1
    <3> QED BY <3>2
  <2>2. ASSUME NEW n \in T PROVE n + 1 \in T
    <3> SUFFICES ASSUME (n + 1) + 1 <= N
                 PROVE  Chain(f[(n + 1) + 1], 1, spans[(n + 1) + 1][2], overlap)
      OBVIOUS
    <3> DEFINE i == n + 1
               j == (n + 1) + 1
    <3>1. /\ i <= N /\ i \in 1..(N - 1) /\ i \in 1..N
          /\ j \in 2..N /\ j - 1 = i /\ j = i + 1 /\ j \in 1..N
      BY <1>1
    <3>2. Chain(f[i], 1, spans[i][2], overlap)
      BY <3>1
    <3> HIDE DEF i, j, T
    <3>3. Chain(ss[j], spans[i][2] + 1, spans[j][2], overlap)
      <4>1. spans[j][1] = spans[i][2] + 1
        BY <1>7, <3>1
      <4>2. Chain(ss[j], spans[j][1], spans[j][2], overlap)
        BY <1>4, <3>1
      <4> QED BY <4>1, <4>2
    <3>4. f[j] = f[i] \o ss[j]
      BY <1>6, <3>1
    <3>5. spans[i][2] \in Nat /\ spans[j][2] \in Nat /\ 1 \in Nat
      BY <1>2, <3>1
    <3>6. Chain(f[i] \o ss[j], 1, spans[j][2], overlap)
      BY <3>2, <3>3, <3>5, ChainsConcatenate
    <3>7. Chain(f[j], 1, spans[j][2], overlap)
      BY <3>4, <3>6
    <3> QED BY <3>7 DEF j
  <2>3. T \in SUBSET Nat
    OBVIOUS
  <2> HIDE DEF T
  <2> QED BY <2>1, <2>2, <2>3, NumbersAll
<1>9. N - 1 \in Nat /\ (N - 1) + 1 = N /\ N <= N
  BY <1>1
<1>10. N - 1 \in T
  <2> HIDE DEF T
  <2> QED BY <1>8, <1>9
<1>11. Chain(f[N], 1, spans[N][2], overlap)
  BY <1>9, <1>10
<1> QED BY <1>1, <1>6, <1>11

-----------------------------------------------------------------------------
(* The strategies. *)

\* Neighbours share overlap tokens, or all of the second.
Sharing(cs, overlap) ==
    \A k \in 1..(Len(cs) - 1) :
       cs[k][2] - cs[k + 1][1] + 1 =
          IF overlap <= SpanLength(cs[k + 1]) THEN overlap ELSE SpanLength(cs[k + 1])

\* Windows are a chain; neighbours share what stride leaves of size, or all that is left of
\* the span.
LEMMA WindowsChain ==
    ASSUME NEW first \in Nat, NEW last \in Nat, first <= last,
           NEW size \in Nat \ {0}, NEW overlap \in Nat, overlap < size
    PROVE  LET w == Windows(<<first, last>>, size, size - overlap) IN
           /\ Chain(w, first, last, overlap)
           /\ \A k \in 1..Len(w) : SpanLength(w[k]) <= size
           /\ Sharing(w, overlap)
<1> DEFINE stride == size - overlap
           n == last - first + 1
           c == WindowCount(n, size, stride)
           w == Windows(<<first, last>>, size, stride)
<1>1. n \in Nat \ {0} /\ stride \in Nat \ {0} /\ stride <= size
  OBVIOUS
<1>2. c \in Nat \ {0} /\ \A i \in Nat : i < c <=> stride * i < n
  BY <1>1, WindowStarts DEF WindowCount
<1>3. w = [k \in 1..c |-> <<first + (k - 1) * stride,
                           IF first + (k - 1) * stride + size - 1 <= last
                           THEN first + (k - 1) * stride + size - 1 ELSE last>>]
  BY DEF Windows, SpanLength
<1>4. /\ Len(w) \in Nat \ {0} /\ DOMAIN w = 1..Len(w)
      /\ \A k \in DOMAIN w : /\ first <= w[k][1] /\ w[k][1] <= w[k][2] /\ w[k][2] <= last
                             /\ SpanLength(w[k]) <= size
  BY <1>1, WindowsCover
<1>5. \A k \in DOMAIN w : k + 1 \in DOMAIN w =>
         w[k][2] - w[k + 1][1] + 1 =
            IF overlap <= SpanLength(w[k + 1]) THEN overlap ELSE SpanLength(w[k + 1])
  BY WindowsOverlap
<1> HIDE DEF w, c, n, stride
<1>6. DOMAIN w = 1..c /\ Len(w) = c
  BY <1>2, <1>3, <1>4
<1>7. ASSUME NEW k \in 1..c PROVE w[k] \in Nat \X Nat
  <2> DEFINE x == (k - 1) * stride
  <2>1. k - 1 \in Nat
    BY <1>2
  <2>2. x \in Nat
    BY <1>1, <2>1
  <2>3. w[k] = <<first + x, IF first + x + size - 1 <= last THEN first + x + size - 1 ELSE last>>
    BY <1>3
  <2> HIDE DEF x
  <2>4. first + x \in Nat /\ first + x + size - 1 \in Nat
    BY <2>2
  <2> QED BY <2>3, <2>4
<1>8. w \in Seq(Nat \X Nat)
  <2>1. w = [k \in 1..c |-> w[k]]
    <3>1. w = [k \in DOMAIN w |-> w[k]]
      BY <1>3
    <3> QED BY <1>6, <3>1
  <2> QED BY <1>2, <1>7, <2>1
<1>9. w[1][1] = first
  <2>1. 1 \in 1..c /\ (1 - 1) * stride = 0
    BY <1>1, <1>2
  <2> QED BY <1>3, <2>1
<1>10. w[c][2] = last
  <2> DEFINE x == stride * (c - 1)
  <2>1. c - 1 \in Nat /\ c \in 1..c /\ (c - 1) * stride = x /\ x \in Nat
    BY <1>1, <1>2
  <2>2. stride * c = x + stride
    BY <1>1, <1>2
  <2>3. ~(stride * c < n)
    BY <1>2
  <2>4. w[c][2] = IF first + x + size - 1 <= last THEN first + x + size - 1 ELSE last
    BY <1>3, <2>1
  <2> HIDE DEF x
  <2>5. x + stride >= n
    BY <1>1, <2>1, <2>2, <2>3
  <2>6. first + x + size - 1 >= last
    BY <1>1, <2>1, <2>5 DEF n
  <2> QED BY <2>1, <2>4, <2>6
<1>11. ASSUME NEW k \in 1..(c - 1)
       PROVE  /\ w[k][2] - w[k + 1][1] + 1 =
                     IF overlap <= SpanLength(w[k + 1]) THEN overlap ELSE SpanLength(w[k + 1])
              /\ 0 <= w[k][2] - w[k + 1][1] + 1 /\ w[k][2] - w[k + 1][1] + 1 <= overlap
  <2>1. k \in 1..c /\ k + 1 \in 1..c
    BY <1>2
  <2>2. w[k][2] - w[k + 1][1] + 1 =
           IF overlap <= SpanLength(w[k + 1]) THEN overlap ELSE SpanLength(w[k + 1])
    BY <1>5, <1>6, <2>1
  <2>3. w[k + 1][1] <= w[k + 1][2] /\ w[k + 1][1] \in Nat /\ w[k + 1][2] \in Nat
    <3>1. w[k + 1][1] \in Nat /\ w[k + 1][2] \in Nat
      BY <1>6, <1>8, <2>1, PieceBounds
    <3> QED BY <1>4, <1>6, <2>1, <3>1
  <2>4. SpanLength(w[k + 1]) \in Nat
    BY <2>3 DEF SpanLength
  <2> QED BY <2>2, <2>4
<1>12. \A k \in 1..c : first <= w[k][1] /\ w[k][1] <= w[k][2] /\ w[k][2] <= last
  BY <1>4, <1>6
<1>13. \A k \in 1..(c - 1) :
          0 <= w[k][2] - w[k + 1][1] + 1 /\ w[k][2] - w[k + 1][1] + 1 <= overlap
  BY <1>11
<1>14. Chain(w, first, last, overlap)
  BY <1>2, <1>6, <1>8, <1>9, <1>10, <1>12, <1>13 DEF Chain
<1>15. \A k \in 1..c : SpanLength(w[k]) <= size
  BY <1>4, <1>6
<1>16. Sharing(w, overlap)
  BY <1>6, <1>11 DEF Sharing
<1> QED BY <1>6, <1>14, <1>15, <1>16 DEF w, stride

\* _token_limit: a piece that fits stays whole, a longer one is cut into windows.
LEMMA TokenLimitedChain ==
    ASSUME NEW first \in Nat, NEW last \in Nat, first <= last, NEW size \in Nat \ {0}
    PROVE  LET cs == TokenLimited(<<first, last>>, size) IN
           /\ Chain(cs, first, last, 0)
           /\ \A k \in 1..Len(cs) : SpanLength(cs[k]) <= size
           /\ SpanLength(<<first, last>>) <= size => cs = <<<<first, last>>>>
<1>1. CASE SpanLength(<<first, last>>) <= size
  <2> DEFINE cs == <<<<first, last>>>>
  <2>1. cs \in Seq(Nat \X Nat) /\ Len(cs) = 1 /\ cs[1] = <<first, last>>
    OBVIOUS
  <2>2. TokenLimited(<<first, last>>, size) = cs
    BY <1>1 DEF TokenLimited
  <2> HIDE DEF cs
  <2>3. Chain(cs, first, last, 0)
    BY <2>1 DEF Chain
  <2>4. \A k \in 1..Len(cs) : SpanLength(cs[k]) <= size
    BY <1>1, <2>1
  <2> QED BY <2>2, <2>3, <2>4 DEF cs
<1>2. CASE ~(SpanLength(<<first, last>>) <= size)
  <2>1. size - 0 = size /\ 0 < size /\ 0 \in Nat
    OBVIOUS
  <2>2. TokenLimited(<<first, last>>, size) = Windows(<<first, last>>, size, size)
    BY <1>2 DEF TokenLimited
  <2>3. LET w == Windows(<<first, last>>, size, size - 0) IN
        Chain(w, first, last, 0) /\ \A k \in 1..Len(w) : SpanLength(w[k]) <= size
    BY <2>1, WindowsChain
  <2> QED BY <1>2, <2>1, <2>2, <2>3
<1> QED BY <1>1, <1>2

\* Pieces of a chain, limited: a chain, none too long, each from one of the pieces.
LEMMA LimitedChain ==
    ASSUME NEW spans, NEW last \in Nat, Chain(spans, 1, last, 0), NEW size \in Nat \ {0}
    PROVE  /\ Chain(Limited(spans, size), 1, last, 0)
           /\ \A k \in DOMAIN Limited(spans, size) :
                 /\ SpanLength(Limited(spans, size)[k]) <= size
                 /\ \E m \in DOMAIN spans :
                       /\ spans[m][1] <= Limited(spans, size)[k][1]
                       /\ Limited(spans, size)[k][2] <= spans[m][2]
                       /\ SpanLength(spans[m]) <= size => Limited(spans, size)[k] = spans[m]
<1> DEFINE N == Len(spans)
           S == Nat \X Nat
           ss == [k \in DOMAIN spans |-> TokenLimited(spans[k], size)]
           cs == Limited(spans, size)
<1>1. /\ spans \in Seq(S) /\ N \in Nat /\ DOMAIN spans = 1..N
      /\ \A k \in 1..N : /\ spans[k][1] \in Nat /\ spans[k][2] \in Nat
                         /\ spans[k] = <<spans[k][1], spans[k][2]>>
                         /\ spans[k][1] <= spans[k][2]
  <2>1. spans \in Seq(S)
    BY DEF Chain
  <2>2. N \in Nat /\ DOMAIN spans = 1..N /\ \A k \in 1..N : spans[k] \in Nat \X Nat
    BY <2>1, PieceBounds
  <2>3. \A k \in 1..N : /\ spans[k][1] \in Nat /\ spans[k][2] \in Nat
                        /\ spans[k] = <<spans[k][1], spans[k][2]>>
    BY <2>2
  <2>4. \A k \in 1..N : spans[k][1] <= spans[k][2]
    BY DEF Chain
  <2> QED BY <2>1, <2>2, <2>3, <2>4
<1>2. cs = FlattenSeq(ss)
  BY DEF Limited
<1> HIDE DEF N, cs
<1>3. ASSUME NEW m \in 1..N
      PROVE  /\ ss[m] \in Seq(S) /\ DOMAIN ss[m] = 1..Len(ss[m])
             /\ Chain(ss[m], spans[m][1], spans[m][2], 0)
             /\ \A p \in 1..Len(ss[m]) :
                   /\ spans[m][1] <= ss[m][p][1] /\ ss[m][p][2] <= spans[m][2]
                   /\ SpanLength(ss[m][p]) <= size
                   /\ SpanLength(spans[m]) <= size => ss[m][p] = spans[m]
  <2> DEFINE first == spans[m][1]
             end == spans[m][2]
             piece == TokenLimited(<<first, end>>, size)
  <2>1. first \in Nat /\ end \in Nat /\ first <= end /\ spans[m] = <<first, end>>
    BY <1>1
  <2>2. ss[m] = piece
    BY <1>1, <2>1
  <2> HIDE DEF first, end, ss
  <2>3. /\ Chain(piece, first, end, 0)
        /\ \A p \in 1..Len(piece) : SpanLength(piece[p]) <= size
        /\ SpanLength(<<first, end>>) <= size => piece = <<<<first, end>>>>
    BY <2>1, TokenLimitedChain
  <2> HIDE DEF piece
  <2>4. piece \in Seq(S) /\ \A p \in 1..Len(piece) : first <= piece[p][1] /\ piece[p][2] <= end
    BY <2>3 DEF Chain
  <2>5. ASSUME SpanLength(spans[m]) <= size, NEW p \in 1..Len(piece) PROVE piece[p] = spans[m]
    <3>1. piece = <<<<first, end>>>>
      BY <2>1, <2>3, <2>5
    <3>2. Len(piece) = 1 /\ piece[1] = <<first, end>>
      BY <3>1
    <3>3. p = 1
      BY <3>2
    <3> QED BY <2>1, <3>2, <3>3
  <2>6. DOMAIN piece = 1..Len(piece)
    BY <2>4
  <2> QED BY <2>2, <2>3, <2>4, <2>5, <2>6 DEF first, end
<1>4. ss \in Seq(Seq(S)) /\ Len(ss) = N /\ DOMAIN ss = 1..N
  BY <1>1, <1>3
<1> HIDE DEF ss
<1>5. Chain(cs, 1, last, 0)
  <2>1. 0 \in Nat /\ Len(ss) = Len(spans)
    BY <1>4 DEF N
  <2>2. \A m \in 1..Len(spans) : Chain(ss[m], spans[m][1], spans[m][2], 0)
    BY <1>3 DEF N
  <2>3. ss \in Seq(Seq(Nat \X Nat))
    BY <1>4
  <2>4. Chain(FlattenSeq(ss), 1, last, 0)
    BY <2>1, <2>2, <2>3, FlattenChains
  <2> QED BY <1>2, <2>4
<1>6. ASSUME NEW k \in DOMAIN cs
      PROVE  /\ SpanLength(cs[k]) <= size
             /\ \E m \in DOMAIN spans :
                   /\ spans[m][1] <= cs[k][1] /\ cs[k][2] <= spans[m][2]
                   /\ SpanLength(spans[m]) <= size => cs[k] = spans[m]
  <2>1. \E m \in DOMAIN ss : \E p \in DOMAIN ss[m] : cs[k] = ss[m][p]
    BY <1>2, <1>4, FlattenElements
  <2>2. PICK m \in 1..N : \E p \in 1..Len(ss[m]) : cs[k] = ss[m][p]
    BY <1>3, <1>4, <2>1
  <2> QED BY <1>1, <1>3, <2>2
<1> QED BY <1>5, <1>6 DEF cs

-----------------------------------------------------------------------------
(* Runs of lines. *)

\* A run ends before the next start, or with the text.
LEMMA RunEndProperties ==
    ASSUME NEW lines \in Seq(Line), NEW starts \in SUBSET (DOMAIN lines), NEW i \in DOMAIN lines
    PROVE  /\ RunEnd(lines, starts, i) \in Nat
           /\ i <= RunEnd(lines, starts, i) /\ RunEnd(lines, starts, i) <= Len(lines)
           /\ \A j \in starts : i < j => RunEnd(lines, starts, i) < j
           /\ \/ RunEnd(lines, starts, i) = Len(lines)
              \/ RunEnd(lines, starts, i) + 1 \in starts
<1> DEFINE N == Len(lines)
           T == {j \in starts : j > i} \cup {N + 1}
<1>1. N \in Nat /\ DOMAIN lines = 1..N /\ i \in 1..N
  OBVIOUS
<1>2. T \subseteq 1..(N + 1)
  BY <1>1
<1>3. IsFiniteSet(T)
  <2>1. IsFiniteSet(1..(N + 1))
    BY <1>1, FirstNumbers
  <2> HIDE DEF T
  <2> QED BY <1>2, <2>1, FS_Subset
<1>4. T \in SUBSET Int /\ N + 1 \in T
  BY <1>1
<1>5. RunEnd(lines, starts, i) = Min(T) - 1
  BY DEF RunEnd
<1>6. Min(T) \in T /\ \A x \in T : Min(T) <= x
  <2>1. T # {}
    BY <1>4
  <2> HIDE DEF T
  <2> QED BY <1>3, <1>4, <2>1, Extremes
<1> DEFINE m == Min(T)
<1>7. m \in T /\ \A x \in T : m <= x
  BY <1>6
<1> HIDE DEF m
<1>8. m \in 1..(N + 1) /\ i < m /\ (m = N + 1 \/ m \in starts)
  BY <1>1, <1>7
<1>9. \A j \in starts : i < j => m <= j
  BY <1>7
<1>10. \A j \in starts : j \in Nat
  BY <1>1
<1>11. RunEnd(lines, starts, i) = m - 1
  BY <1>5 DEF m
<1>12. m - 1 \in Nat /\ i <= m - 1 /\ m - 1 <= N /\ (m - 1 = N \/ (m - 1) + 1 \in starts)
  BY <1>1, <1>8
<1>13. \A j \in starts : i < j => m - 1 < j
  BY <1>8, <1>9, <1>10
<1> QED BY <1>11, <1>12, <1>13

\* A line of a run is after its start and not after its end.
LEMMA RunOfLine ==
    ASSUME NEW lines \in Seq(Line), NEW starts \in SUBSET (DOMAIN lines),
           NEW l \in DOMAIN lines, NEW b \in starts, b <= l
    PROVE  \E s \in starts : s <= l /\ b <= s /\ l <= RunEnd(lines, starts, s)
<1> DEFINE N == Len(lines)
           T == {j \in starts : j <= l}
<1>1. N \in Nat /\ DOMAIN lines = 1..N /\ l \in 1..N /\ starts \in SUBSET (1..N)
  OBVIOUS
<1>2. T \subseteq 1..N /\ b \in T
  BY <1>1
<1>3. IsFiniteSet(T)
  <2>1. IsFiniteSet(1..N)
    BY <1>1, FirstNumbers
  <2> HIDE DEF T
  <2> QED BY <1>2, <2>1, FS_Subset
<1>4. T \in SUBSET Int /\ T # {}
  BY <1>1, <1>2
<1>5. Max(T) \in T /\ \A x \in T : Max(T) >= x
  <2> HIDE DEF T
  <2> QED BY <1>3, <1>4, Extremes
<1>6. PICK s \in starts : s <= l /\ \A j \in starts : j <= l => j <= s
  <2>1. Max(T) \in starts /\ Max(T) <= l
    BY <1>5
  <2>2. \A j \in starts : j <= l => Max(T) \in Int /\ Max(T) >= j
    BY <1>4, <1>5
  <2> DEFINE m == Max(T)
  <2>3. m \in starts /\ m <= l /\ \A j \in starts : j <= l => m >= j
    BY <2>1, <2>2
  <2> HIDE DEF m
  <2>4. \A j \in starts : j \in Nat
    BY <1>1
  <2>5. \A j \in starts : j <= l => j <= m
    BY <2>3, <2>4
  <2> QED BY <2>3, <2>5
<1>7. /\ RunEnd(lines, starts, s) \in Nat /\ s <= RunEnd(lines, starts, s)
      /\ RunEnd(lines, starts, s) = N \/ RunEnd(lines, starts, s) + 1 \in starts
  BY RunEndProperties
<1>8. l <= RunEnd(lines, starts, s)
  <2>1. s \in Nat /\ l \in Nat /\ l <= N
    BY <1>1
  <2> QED BY <1>1, <1>6, <1>7, <2>1
<1> QED BY <1>2, <1>6, <1>8

\* The pieces of Runs: each of a start, in the order of the starts, none left out but those
\* without a token.
RunPieces(lines, starts, at) ==
    /\ at \in [1..Len(Runs(lines, starts)) -> starts]
    /\ \A p \in 1..Len(Runs(lines, starts)) :
          /\ Runs(lines, starts)[p] = Span(lines, at[p], RunEnd(lines, starts, at[p]))
          /\ SpanLength(Runs(lines, starts)[p]) > 0
    /\ \A p, q \in 1..Len(Runs(lines, starts)) : p < q => at[p] < at[q]
    /\ \A s \in starts : SpanLength(Span(lines, s, RunEnd(lines, starts, s))) > 0 =>
          \E p \in 1..Len(Runs(lines, starts)) : at[p] = s

\* The bounds of a span of lines.
LEMMA SpanBounds ==
    ASSUME NEW lines \in Seq(Line), NEW i \in DOMAIN lines, NEW j \in DOMAIN lines, i <= j
    PROVE  /\ Span(lines, i, j) \in Nat \X Nat
           /\ TokensBefore(lines, i) \in Nat /\ TokensBefore(lines, j + 1) \in Nat
           /\ TokensBefore(lines, i) <= TokensBefore(lines, j + 1)
           /\ TokensBefore(lines, j + 1) <= TokenCount(lines)
           /\ SpanLength(Span(lines, i, j)) = TokensBefore(lines, j + 1) - TokensBefore(lines, i)
<1> DEFINE a == TokensBefore(lines, i)
           b == TokensBefore(lines, j + 1)
<1>1. i \in 1..(Len(lines) + 1) /\ j + 1 \in 1..(Len(lines) + 1) /\ i <= j + 1
  OBVIOUS
<1>2. a \in Nat /\ b \in Nat /\ a <= b /\ b <= TokenCount(lines)
  BY <1>1, TokensBeforeProperties
<1>3. Span(lines, i, j) = <<a + 1, b>>
  BY DEF Span
<1> HIDE DEF a, b
<1>4. <<a + 1, b>> \in Nat \X Nat /\ b - (a + 1) + 1 = b - a
  BY <1>2
<1> QED BY <1>2, <1>3, <1>4 DEF SpanLength, a, b

\* Runs has such pieces.
LEMMA RunsPieces ==
    ASSUME NEW lines \in Seq(Line), NEW starts \in SUBSET (DOMAIN lines)
    PROVE  Runs(lines, starts) \in Seq(Nat \X Nat) /\ \E at : RunPieces(lines, starts, at)
<1> DEFINE N == Len(lines)
           S == Nat \X Nat
           piece(i) == Span(lines, i, RunEnd(lines, starts, i))
           run == [i \in DOMAIN lines |-> piece(i)]
           I == {i \in starts : SpanLength(run[i]) > 0}
           cs == Runs(lines, starts)
<1>1. N \in Nat /\ DOMAIN lines = 1..N
  OBVIOUS
<1>2. cs = Keep(run, I)
  BY DEF Runs
<1>3. ASSUME NEW i \in DOMAIN lines PROVE piece(i) \in S
  <2>1. RunEnd(lines, starts, i) \in DOMAIN lines /\ i <= RunEnd(lines, starts, i)
    <3>1. RunEnd(lines, starts, i) \in Nat /\ i <= RunEnd(lines, starts, i)
          /\ RunEnd(lines, starts, i) <= N
      BY RunEndProperties
    <3> QED BY <1>1, <3>1
  <2> QED BY <2>1, SpanBounds
<1> HIDE DEF cs, S, piece, N
<1>4. run \in Seq(S) /\ Len(run) = N /\ DOMAIN run = DOMAIN lines
  BY <1>1, <1>3
<1>5. \A i \in DOMAIN lines : run[i] = piece(i)
  OBVIOUS
<1> HIDE DEF run
<1>6. I \in SUBSET (DOMAIN run) /\ I \in SUBSET starts
  BY <1>4
<1>7. \A i \in I : SpanLength(run[i]) > 0
  OBVIOUS
<1>8. \A i \in starts : SpanLength(run[i]) > 0 => i \in I
  OBVIOUS
<1> HIDE DEF I
<1> DEFINE kept == Keep(run, I)
           n == Cardinality(I)
<1>9. kept \in Seq(S) /\ Len(kept) = n
  BY <1>4, <1>6, KeepProperties
<1>10. PICK at : Keeping(at, run, I)
  BY <1>4, <1>6, KeepProperties
<1>11. /\ at \in [1..n -> I]
       /\ \A p \in 1..n : kept[p] = run[at[p]]
       /\ \A p, q \in 1..n : p < q => at[p] < at[q]
       /\ \A i \in I : \E p \in 1..n : at[p] = i
  BY <1>10 DEF Keeping
<1>12. cs = kept
  BY <1>2
<1> HIDE DEF kept, n
<1> DEFINE L == Len(cs)
<1>13. L = n
  BY <1>9, <1>12
<1> HIDE DEF L
<1>14. at \in [1..L -> starts]
  BY <1>6, <1>11, <1>13
<1>15. ASSUME NEW p \in 1..L PROVE cs[p] = piece(at[p]) /\ SpanLength(cs[p]) > 0
  <2>1. at[p] \in I /\ at[p] \in DOMAIN lines /\ cs[p] = run[at[p]]
    BY <1>4, <1>6, <1>11, <1>12, <1>13
  <2> QED BY <1>5, <1>7, <2>1
<1>16. ASSUME NEW s \in starts, SpanLength(piece(s)) > 0 PROVE \E p \in 1..L : at[p] = s
  <2>1. s \in I
    BY <1>5, <1>8, <1>16
  <2> QED BY <1>11, <1>13, <2>1
<1>17. \A p, q \in 1..L : p < q => at[p] < at[q]
  BY <1>11, <1>13
<1>18. RunPieces(lines, starts, at)
  BY <1>14, <1>15, <1>16, <1>17 DEF RunPieces, piece, cs, L
<1> QED BY <1>9, <1>18, <1>12 DEF cs, S

\* Every line with a token is in a run.
Begun(lines, starts) ==
    starts \in SUBSET (DOMAIN lines) /\ \A l \in Filled(lines) : \E s \in starts : s <= l

\* The pieces of the runs are in order, apart, and hold every token.
LEMMA RunsPartition ==
    ASSUME NEW lines \in Seq(Line), NEW starts, Begun(lines, starts)
    PROVE  Partition(Runs(lines, starts), TokenCount(lines))
<1> DEFINE cs == Runs(lines, starts)
           N == Len(lines)
           end(i) == RunEnd(lines, starts, i)
           tb(i) == TokensBefore(lines, i)
           L == Len(cs)
<1>1. starts \in SUBSET (DOMAIN lines) /\ \A l \in Filled(lines) : \E s \in starts : s <= l
  BY DEF Begun
<1>2. N \in Nat /\ DOMAIN lines = 1..N /\ Filled(lines) \subseteq 1..N
  BY DEF Filled
<1>3. PICK at : RunPieces(lines, starts, at)
  BY <1>1, RunsPieces
<1>4. cs \in Seq(Nat \X Nat)
  BY <1>1, RunsPieces
<1>5. /\ at \in [1..L -> starts]
      /\ \A p \in 1..L : cs[p] = Span(lines, at[p], end(at[p])) /\ SpanLength(cs[p]) > 0
      /\ \A p, q \in 1..L : p < q => at[p] < at[q]
      /\ \A s \in starts : SpanLength(Span(lines, s, end(s))) > 0 => \E p \in 1..L : at[p] = s
  BY <1>3 DEF RunPieces
<1>6. \A s \in starts : s \in 1..N /\ end(s) \in 1..N /\ s <= end(s)
                        /\ \A j \in starts : s < j => end(s) < j
  <2> SUFFICES ASSUME NEW s \in starts
               PROVE  s \in 1..N /\ end(s) \in 1..N /\ s <= end(s)
                      /\ \A j \in starts : s < j => end(s) < j
    OBVIOUS
  <2>1. s \in DOMAIN lines /\ s \in 1..N
    BY <1>1, <1>2
  <2>2. end(s) \in Nat /\ s <= end(s) /\ end(s) <= N /\ \A j \in starts : s < j => end(s) < j
    BY <1>1, <2>1, RunEndProperties
  <2> HIDE DEF end
  <2> QED BY <1>2, <2>1, <2>2
<1> HIDE DEF cs, end, L, N
<1>7. \A s \in starts :
         /\ Span(lines, s, end(s)) = <<tb(s) + 1, tb(end(s) + 1)>>
         /\ tb(s) \in Nat /\ tb(end(s) + 1) \in Nat
         /\ tb(end(s) + 1) <= TokenCount(lines)
         /\ SpanLength(Span(lines, s, end(s))) = tb(end(s) + 1) - tb(s)
  <2> SUFFICES ASSUME NEW s \in starts
               PROVE  /\ Span(lines, s, end(s)) = <<tb(s) + 1, tb(end(s) + 1)>>
                      /\ tb(s) \in Nat /\ tb(end(s) + 1) \in Nat
                      /\ tb(end(s) + 1) <= TokenCount(lines)
                      /\ SpanLength(Span(lines, s, end(s))) = tb(end(s) + 1) - tb(s)
    OBVIOUS
  <2>1. s \in DOMAIN lines /\ end(s) \in DOMAIN lines /\ s <= end(s)
    BY <1>2, <1>6
  <2> QED BY <2>1, SpanBounds DEF Span
<1>8. /\ \A i, j \in 1..(N + 1) : i <= j => tb(i) <= tb(j)
      /\ \A i \in 1..(N + 1) : tb(i) \in Nat
  BY TokensBeforeProperties DEF N
<1> HIDE DEF tb
<1>9. ASSUME NEW p \in 1..L
      PROVE  1 <= cs[p][1] /\ cs[p][1] <= cs[p][2] /\ cs[p][2] <= TokenCount(lines)
  <2>1. at[p] \in starts
    BY <1>5
  <2>2. /\ cs[p] = <<tb(at[p]) + 1, tb(end(at[p]) + 1)>>
        /\ tb(end(at[p]) + 1) - tb(at[p]) > 0
        /\ tb(at[p]) \in Nat /\ tb(end(at[p]) + 1) \in Nat
        /\ tb(end(at[p]) + 1) <= TokenCount(lines)
    BY <1>5, <1>7, <2>1
  <2> QED BY <2>2
<1>10. ASSUME NEW p \in 1..L, NEW q \in 1..L, p < q PROVE cs[p][2] < cs[q][1]
  <2>1. at[p] \in starts /\ at[q] \in starts /\ at[p] < at[q]
    BY <1>5, <1>10
  <2>2. end(at[p]) < at[q] /\ end(at[p]) \in 1..N /\ at[q] \in 1..N
    BY <1>6, <2>1
  <2>3. end(at[p]) + 1 \in 1..(N + 1) /\ at[q] \in 1..(N + 1) /\ end(at[p]) + 1 <= at[q]
    BY <1>2, <2>2
  <2>4. tb(end(at[p]) + 1) <= tb(at[q]) /\ tb(end(at[p]) + 1) \in Nat /\ tb(at[q]) \in Nat
    BY <1>8, <2>3
  <2>5. cs[p][2] = tb(end(at[p]) + 1) /\ cs[q][1] = tb(at[q]) + 1
    BY <1>5, <1>7, <2>1
  <2> QED BY <2>4, <2>5
<1>11. ASSUME NEW t \in 1..TokenCount(lines) PROVE \E p \in 1..L : Holds(cs[p], t)
  <2>1. PICK l \in Filled(lines) : tb(l) < t /\ t <= tb(l + 1)
    BY LineOfToken DEF tb
  <2>2. PICK b \in starts : b <= l
    BY <1>1
  <2>3. l \in DOMAIN lines
    BY <1>2
  <2>4. PICK s \in starts : s <= l /\ l <= end(s)
    BY <1>1, <2>2, <2>3, RunOfLine DEF end
  <2>5. s \in 1..(N + 1) /\ l \in 1..(N + 1) /\ l + 1 \in 1..(N + 1)
        /\ end(s) + 1 \in 1..(N + 1) /\ l + 1 <= end(s) + 1
    BY <1>2, <1>6, <2>3, <2>4
  <2>6. tb(s) <= tb(l) /\ tb(l + 1) <= tb(end(s) + 1)
    BY <1>8, <2>4, <2>5
  <2>7. tb(s) \in Nat /\ tb(l) \in Nat /\ tb(l + 1) \in Nat /\ tb(end(s) + 1) \in Nat /\ t \in Int
    <3>1. TokenCount(lines) \in Nat
      BY TokensBeforeProperties
    <3> QED BY <1>8, <2>5, <3>1
  <2>8. tb(s) + 1 <= t /\ t <= tb(end(s) + 1) /\ tb(end(s) + 1) - tb(s) > 0
    BY <2>1, <2>6, <2>7
  <2>9. PICK p \in 1..L : at[p] = s
    BY <1>5, <1>7, <2>8
  <2>10. cs[p] = <<tb(s) + 1, tb(end(s) + 1)>>
    BY <1>5, <1>7, <2>9
  <2>11. Holds(cs[p], t)
    BY <2>8, <2>10 DEF Holds
  <2> QED BY <2>11
<1> QED BY <1>4, <1>9, <1>10, <1>11 DEF Partition, cs, L

\* Hence a chain.
LEMMA RunsChain ==
    ASSUME NEW lines \in Seq(Line), TokenCount(lines) > 0, NEW starts, Begun(lines, starts)
    PROVE  Chain(Runs(lines, starts), 1, TokenCount(lines), 0)
<1>1. TokenCount(lines) \in Nat \ {0}
  BY TokensBeforeProperties
<1> QED BY <1>1, RunsPartition, PartitionIsChain

\* The paragraphs of a text begin its lines.
LEMMA ParagraphsBegin ==
    ASSUME NEW lines \in Seq(Line)
    PROVE  Begun(lines, ParagraphStarts(lines))
<1> DEFINE N == Len(lines)
<1>1. N \in Nat /\ DOMAIN lines = 1..N
  OBVIOUS
<1> HIDE DEF N
<1>2. ParagraphStarts(lines) \in SUBSET (DOMAIN lines)
  BY DEF ParagraphStarts, Filled
<1>3. ASSUME NEW l \in Filled(lines) PROVE \E s \in ParagraphStarts(lines) : s <= l
  <2> DEFINE T == {j \in 1..l : \A i \in j..l : i \in Filled(lines)}
  <2>1. l \in 1..N
    BY <1>1 DEF Filled
  <2>2. \A i \in l..l : i = l
    BY <1>1, <2>1
  <2>3. l \in T
    BY <1>1, <2>1, <2>2
  <2>4. T \in SUBSET Nat /\ T # {}
    BY <2>3
  <2>5. PICK j \in T : \A y \in T : j <= y
    <3> HIDE DEF T
    <3> QED BY <2>4, LeastNumber
  <2>6. j \in 1..l /\ \A i \in j..l : i \in Filled(lines)
    BY <2>5
  <2>7. j \in Filled(lines)
    BY <1>1, <2>1, <2>6
  <2>8. ASSUME j # 1, ~Blank(lines[j - 1]) PROVE FALSE
    <3>1. j - 1 \in 1..N /\ j - 1 \in 1..l /\ j - 1 < j
      BY <1>1, <2>1, <2>6, <2>8
    <3>2. j - 1 \in Filled(lines)
      BY <1>1, <2>8, <3>1 DEF Filled
    <3>3. \A i \in (j - 1)..l : i = j - 1 \/ i \in j..l
      BY <1>1, <2>1, <2>6
    <3>4. j - 1 \in T
      BY <2>6, <3>1, <3>2, <3>3
    <3>5. j <= j - 1
      <4> HIDE DEF T
      <4> QED BY <2>5, <3>4
    <3> QED BY <3>1, <3>5
  <2>9. j \in ParagraphStarts(lines)
    BY <2>7, <2>8 DEF ParagraphStarts
  <2> QED BY <2>6, <2>9
<1> QED BY <1>2, <1>3 DEF Begun

\* So do its groups of sentences.
LEMMA GroupsBegin ==
    ASSUME NEW lines \in Seq(Line)
    PROVE  Begun(lines, GroupStarts(lines))
<1>1. DOMAIN lines = 1..Len(lines) /\ Len(lines) \in Nat
  OBVIOUS
<1>2. Filled(lines) \in SUBSET (1..Len(lines))
  BY <1>1 DEF Filled
<1>3. GroupStarts(lines) \in SUBSET (DOMAIN lines)
  BY <1>1, <1>2 DEF GroupStarts
<1>4. ASSUME NEW l \in Filled(lines) PROVE \E s \in GroupStarts(lines) : s <= l
  <2>1. IsFiniteSet(Filled(lines))
    <3>1. IsFiniteSet(1..Len(lines))
      BY <1>1, FirstNumbers
    <3> QED BY <1>2, <3>1, FS_Subset
  <2>2. Filled(lines) \in SUBSET Int /\ Filled(lines) # {}
    BY <1>1, <1>2
  <2>3. Min(Filled(lines)) \in Filled(lines) /\ Min(Filled(lines)) <= l
    BY <2>1, <2>2, Extremes
  <2>4. Min(Filled(lines)) \in GroupStarts(lines)
    BY <2>3 DEF GroupStarts
  <2> QED BY <2>3, <2>4
<1> QED BY <1>3, <1>4 DEF Begun

\* And its sections.
LEMMA SectionsBegin ==
    ASSUME NEW lines \in Seq(Line)
    PROVE  Begun(lines, SectionStarts(lines))
<1>1. DOMAIN lines = 1..Len(lines) /\ Len(lines) \in Nat
  OBVIOUS
<1>2. SectionStarts(lines) \in SUBSET (DOMAIN lines)
  BY DEF SectionStarts
<1>3. ASSUME NEW l \in Filled(lines) PROVE \E s \in SectionStarts(lines) : s <= l
  <2>1. l \in 1..Len(lines)
    BY <1>1 DEF Filled
  <2>2. 1 \in DOMAIN lines /\ 1 <= l
    BY <1>1, <2>1
  <2>3. 1 \in SectionStarts(lines)
    BY <2>2 DEF SectionStarts
  <2> QED BY <2>2, <2>3
<1> QED BY <1>2, <1>3 DEF Begun

-----------------------------------------------------------------------------
(* What every strategy promises. *)

\* The chunks of a text: a chain from its first to its last token, none longer than the
\* strategy's limit but a single sentence, neighbours sharing what the strategy lets them.
Promised(cs, strategy, size, overlap, lines) ==
    /\ Chain(cs, 1, TokenCount(lines),
             IF strategy \in {"fixed_size", "hierarchical"} THEN overlap ELSE 0)
    /\ \A k \in 1..Len(cs) :
          \/ SpanLength(cs[k]) <= (IF strategy = "hierarchical" THEN ChildTokens ELSE size)
          \/ strategy = "semantic" /\ Len(cs) = 1 /\ Cardinality(Filled(lines)) = 1
    /\ strategy = "fixed_size" => Sharing(cs, overlap)

\* The fixed-size strategy.
LEMMA FixedSizePromise ==
    ASSUME NEW lines \in Seq(Line), TokenCount(lines) > 0,
           NEW size \in Nat \ {0}, NEW overlap \in Nat, overlap < size
    PROVE  Promised(FixedSize(lines, size, overlap), "fixed_size", size, overlap, lines)
<1> DEFINE n == TokenCount(lines)
           cs == Windows(<<1, n>>, size, size - overlap)
<1>1. n \in Nat /\ 1 <= n /\ 1 \in Nat
  BY TokensBeforeProperties
<1>2. FixedSize(lines, size, overlap) = cs
  BY DEF FixedSize, Whole
<1> HIDE DEF n
<1>3. /\ Chain(cs, 1, n, overlap) /\ Sharing(cs, overlap)
      /\ \A k \in 1..Len(cs) : SpanLength(cs[k]) <= size
  BY <1>1, WindowsChain
<1> HIDE DEF cs
<1> QED BY <1>2, <1>3 DEF Promised, n

\* The hierarchical strategy: the children of the parents.
LEMMA HierarchicalPromise ==
    ASSUME NEW lines \in Seq(Line), TokenCount(lines) > 0,
           NEW size \in Nat \ {0}, NEW overlap \in Nat, overlap < ChildTokens
    PROVE  Promised(Hierarchical(lines, size, overlap), "hierarchical", size, overlap, lines)
<1> DEFINE n == TokenCount(lines)
           parents == Windows(<<1, n>>, size, size)
           stride == ChildTokens - overlap
           ss == [k \in DOMAIN parents |-> Windows(parents[k], ChildTokens, stride)]
           cs == FlattenSeq(ss)
           S == Nat \X Nat
<1>1. n \in Nat /\ 1 <= n /\ 1 \in Nat
  BY TokensBeforeProperties
<1>2. Hierarchical(lines, size, overlap) = cs
  BY DEF Hierarchical, Parents, Whole
<1>3. ChildTokens \in Nat \ {0}
  BY ChunkAssumption
<1> HIDE DEF n
<1>4. Chain(parents, 1, n, 0)
  <2>1. size - 0 = size /\ 0 < size /\ 0 \in Nat
    OBVIOUS
  <2>2. Chain(Windows(<<1, n>>, size, size - 0), 1, n, 0)
    BY <1>1, <2>1, WindowsChain
  <2> QED BY <2>1, <2>2
<1> HIDE DEF parents
<1> DEFINE L == Len(parents)
<1>5. /\ L \in Nat /\ DOMAIN parents = 1..L
      /\ \A k \in 1..L : /\ parents[k][1] \in Nat /\ parents[k][2] \in Nat
                         /\ parents[k] = <<parents[k][1], parents[k][2]>>
                         /\ parents[k][1] <= parents[k][2]
  <2>1. parents \in Seq(S)
    BY <1>4 DEF Chain
  <2>2. L \in Nat /\ DOMAIN parents = 1..L /\ \A k \in 1..L : parents[k] \in Nat \X Nat
    BY <2>1, PieceBounds
  <2>3. \A k \in 1..L : /\ parents[k][1] \in Nat /\ parents[k][2] \in Nat
                        /\ parents[k] = <<parents[k][1], parents[k][2]>>
    BY <2>2
  <2>4. \A k \in 1..L : parents[k][1] <= parents[k][2]
    BY <1>4 DEF Chain
  <2> QED BY <2>2, <2>3, <2>4
<1> HIDE DEF L, cs
<1>6. ASSUME NEW m \in 1..L
      PROVE  /\ ss[m] \in Seq(S) /\ DOMAIN ss[m] = 1..Len(ss[m])
             /\ Chain(ss[m], parents[m][1], parents[m][2], overlap)
             /\ \A p \in 1..Len(ss[m]) : SpanLength(ss[m][p]) <= ChildTokens
  <2> DEFINE first == parents[m][1]
             end == parents[m][2]
             w == Windows(<<first, end>>, ChildTokens, stride)
  <2>1. first \in Nat /\ end \in Nat /\ first <= end /\ parents[m] = <<first, end>>
    BY <1>5
  <2>2. ss[m] = w
    BY <1>5, <2>1
  <2> HIDE DEF first, end, ss
  <2>3. Chain(w, first, end, overlap) /\ \A p \in 1..Len(w) : SpanLength(w[p]) <= ChildTokens
    BY <1>3, <2>1, WindowsChain
  <2> HIDE DEF w
  <2>4. w \in Seq(S) /\ DOMAIN w = 1..Len(w)
    BY <2>3 DEF Chain
  <2> QED BY <2>2, <2>3, <2>4 DEF first, end
<1>7. ss \in Seq(Seq(S)) /\ Len(ss) = L /\ DOMAIN ss = 1..L
  BY <1>5, <1>6
<1> HIDE DEF ss
<1>8. Chain(cs, 1, n, overlap)
  <2>1. Len(ss) = Len(parents) /\ ss \in Seq(Seq(Nat \X Nat))
    BY <1>7 DEF L
  <2>2. \A m \in 1..Len(parents) : Chain(ss[m], parents[m][1], parents[m][2], overlap)
    BY <1>6 DEF L
  <2>3. Chain(FlattenSeq(ss), 1, n, overlap)
    BY <1>1, <1>4, <2>1, <2>2, FlattenChains
  <2> QED BY <2>3 DEF cs
<1>9. ASSUME NEW k \in 1..Len(cs) PROVE SpanLength(cs[k]) <= ChildTokens
  <2>1. k \in DOMAIN cs
    BY <1>8 DEF Chain
  <2>2. \E m \in DOMAIN ss : \E p \in DOMAIN ss[m] : cs[k] = ss[m][p]
    BY <1>7, <2>1, FlattenElements DEF cs
  <2>3. PICK m \in 1..L : \E p \in 1..Len(ss[m]) : cs[k] = ss[m][p]
    BY <1>6, <1>7, <2>2
  <2> QED BY <1>6, <2>3
<1> QED BY <1>2, <1>8, <1>9 DEF Promised, n

\* The strategies that cut a text into runs of lines.
LEMMA RunsPromise ==
    ASSUME NEW lines \in Seq(Line), TokenCount(lines) > 0, NEW size \in Nat \ {0}, NEW overlap,
           NEW starts, Begun(lines, starts),
           NEW strategy \in Strategies \ {"fixed_size", "hierarchical"}
    PROVE  Promised(Limited(Runs(lines, starts), size), strategy, size, overlap, lines)
<1> DEFINE cs == Limited(Runs(lines, starts), size)
           n == TokenCount(lines)
           spans == Runs(lines, starts)
<1>1. Chain(spans, 1, n, 0)
  BY RunsChain
<1>2. n \in Nat
  BY TokensBeforeProperties
<1> HIDE DEF n, spans
<1>3. Chain(cs, 1, n, 0) /\ \A k \in DOMAIN cs : SpanLength(cs[k]) <= size
  BY <1>1, <1>2, LimitedChain DEF spans
<1>4. DOMAIN cs = 1..Len(cs)
  BY <1>3 DEF Chain
<1> HIDE DEF cs
<1>5. strategy \notin {"fixed_size", "hierarchical"}
  OBVIOUS
<1> QED BY <1>3, <1>4, <1>5 DEF Promised, cs, n

\* A single sentence is a chunk.
LEMMA SentencePromise ==
    ASSUME NEW lines \in Seq(Line), TokenCount(lines) > 0, NEW size \in Nat \ {0}, NEW overlap,
           Cardinality(Filled(lines)) = 1
    PROVE  Promised(<<Whole(lines)>>, "semantic", size, overlap, lines)
<1> DEFINE n == TokenCount(lines)
           cs == <<Whole(lines)>>
<1>1. n \in Nat /\ 1 <= n
  BY TokensBeforeProperties
<1>2. cs = <<<<1, n>>>>
  BY DEF Whole
<1> HIDE DEF n
<1>3. Len(cs) = 1 /\ cs[1] = <<1, n>> /\ cs \in Seq(Nat \X Nat)
  BY <1>1, <1>2
<1> HIDE DEF cs
<1>4. Chain(cs, 1, n, 0)
  BY <1>1, <1>3 DEF Chain
<1> QED BY <1>3, <1>4 DEF Promised, cs, n

\* _chunk_text (ingestion/pipeline.py) on any text, for every strategy and configuration an agent may
\* have: a chain of chunks, within the strategy's limit, with its overlap.
THEOREM EveryStrategyKeepsItsPromise ==
    ASSUME NEW lines \in Seq(Line), TokenCount(lines) > 0, NEW size \in Nat \ {0},
           NEW overlap \in Nat, ValidOverlap(size, overlap),
           NEW strategy \in Strategies, Constructible(strategy, overlap)
    PROVE  Promised(ChunksOf(strategy, size, overlap, lines), strategy, size, overlap, lines)
<1>1. TokenCount(lines) # 0 /\ overlap < size
  <2>1. overlap <= size \div 2
    BY DEF ValidOverlap
  <2>2. size \div 2 < size
    BY SMT
  <2> QED BY <2>1, <2>2
<1>2. CASE strategy = "fixed_size"
  <2>1. ChunksOf(strategy, size, overlap, lines) = FixedSize(lines, size, overlap)
    BY <1>1, <1>2 DEF ChunksOf
  <2> QED BY <1>1, <1>2, <2>1, FixedSizePromise
<1>3. CASE strategy = "hierarchical"
  <2>1. ChunksOf(strategy, size, overlap, lines) = Hierarchical(lines, size, overlap)
    BY <1>1, <1>3 DEF ChunksOf
  <2>2. overlap < ChildTokens
    BY <1>3 DEF Constructible
  <2> QED BY <1>3, <2>1, <2>2, HierarchicalPromise
<1>4. CASE strategy = "keyword"
  <2>1. ChunksOf(strategy, size, overlap, lines) =
           Limited(Runs(lines, ParagraphStarts(lines)), size)
    BY <1>1, <1>4 DEF ChunksOf, Keyword
  <2>2. /\ Begun(lines, ParagraphStarts(lines))
        /\ strategy \in Strategies \ {"fixed_size", "hierarchical"}
    BY <1>4, ParagraphsBegin
  <2> QED BY <2>1, <2>2, RunsPromise
<1>5. CASE strategy = "document_aware"
  <2>1. ChunksOf(strategy, size, overlap, lines) =
           Limited(Runs(lines, SectionStarts(lines)), size)
    BY <1>1, <1>5 DEF ChunksOf, DocumentAware
  <2>2. /\ Begun(lines, SectionStarts(lines))
        /\ strategy \in Strategies \ {"fixed_size", "hierarchical"}
    BY <1>5, SectionsBegin
  <2> QED BY <2>1, <2>2, RunsPromise
<1>6. CASE strategy = "semantic"
  <2>1. ChunksOf(strategy, size, overlap, lines) = Semantic(lines, size)
    BY <1>1, <1>6 DEF ChunksOf
  <2>2. CASE Cardinality(Filled(lines)) = 1
    <3>1. Semantic(lines, size) = <<Whole(lines)>>
      BY <2>2 DEF Semantic
    <3> QED BY <1>6, <2>1, <2>2, <3>1, SentencePromise
  <2>3. CASE Cardinality(Filled(lines)) # 1
    <3>1. Semantic(lines, size) = Limited(Runs(lines, GroupStarts(lines)), size)
      BY <2>3 DEF Semantic
    <3>2. /\ Begun(lines, GroupStarts(lines))
          /\ strategy \in Strategies \ {"fixed_size", "hierarchical"}
      BY <1>6, GroupsBegin
    <3> QED BY <2>1, <3>1, <3>2, RunsPromise
  <2> QED BY <2>2, <2>3
<1> QED BY <1>2, <1>3, <1>4, <1>5, <1>6 DEF Strategies

\* FixedSizeChunker (fixed_size.py), whatever the text: every token can be found, no chunk
\* is empty or longer than chunk_size, and neighbours share chunk_overlap tokens or all
\* that is left.
THEOREM FixedSizeIsSound ==
    ASSUME NEW lines \in Seq(Line), TokenCount(lines) > 0,
           NEW size \in Nat \ {0}, NEW overlap \in Nat, ValidOverlap(size, overlap)
    PROVE  LET cs == FixedSize(lines, size, overlap) IN
           /\ Len(cs) > 0
           /\ \A t \in 1..TokenCount(lines) : \E k \in DOMAIN cs : Holds(cs[k], t)
           /\ \A k \in DOMAIN cs : /\ 1 <= cs[k][1] /\ cs[k][1] <= cs[k][2]
                                   /\ cs[k][2] <= TokenCount(lines)
                                   /\ SpanLength(cs[k]) <= size
           /\ \A k \in 1..(Len(cs) - 1) :
                 cs[k][2] - cs[k + 1][1] + 1 =
                    IF overlap <= SpanLength(cs[k + 1]) THEN overlap ELSE SpanLength(cs[k + 1])
<1> DEFINE n == TokenCount(lines)
           cs == Windows(<<1, n>>, size, size - overlap)
<1>1. overlap < size
  <2>1. size \in Nat /\ 2 \in Nat \ {0}
    OBVIOUS
  <2>2. 2 * (size \div 2) <= size
    BY <2>1, Quotient
  <2>3. overlap <= size \div 2 /\ size \div 2 \in Nat
    BY <2>1, Quotient DEF ValidOverlap
  <2> QED BY <2>2, <2>3
<1>2. size - overlap \in Nat \ {0} /\ size - overlap <= size
  BY <1>1
<1>3. FixedSize(lines, size, overlap) = cs
  BY DEF FixedSize, Whole
<1>4. n \in Nat /\ 1 <= n
  BY TokensBeforeProperties
<1> HIDE DEF n
<1>5. /\ Len(cs) \in Nat \ {0} /\ DOMAIN cs = 1..Len(cs)
      /\ \A t \in 1..n : \E k \in DOMAIN cs : Holds(cs[k], t)
      /\ \A k \in DOMAIN cs : /\ 1 <= cs[k][1] /\ cs[k][1] <= cs[k][2] /\ cs[k][2] <= n
                              /\ SpanLength(cs[k]) <= size
  BY <1>2, <1>4, WindowsCover
<1>6. \A k \in DOMAIN cs : k + 1 \in DOMAIN cs =>
         cs[k][2] - cs[k + 1][1] + 1 =
            IF overlap <= SpanLength(cs[k + 1]) THEN overlap ELSE SpanLength(cs[k + 1])
  BY <1>1, <1>4, WindowsOverlap
<1>7. n = TokenCount(lines) /\ Len(cs) > 0
  BY <1>5 DEF n
<1> HIDE DEF cs
<1>8. ASSUME NEW k \in 1..(Len(cs) - 1) PROVE k \in DOMAIN cs /\ k + 1 \in DOMAIN cs
  BY <1>5
<1> QED BY <1>3, <1>5, <1>6, <1>7, <1>8

-----------------------------------------------------------------------------
(* Tables. *)

\* A line whose first token is in the piece of a run is a line of the run.
LEMMA LineInRun ==
    ASSUME NEW lines \in Seq(Line), NEW starts \in SUBSET (DOMAIN lines), NEW s \in starts,
           NEW l \in Filled(lines),
           Holds(Span(lines, s, RunEnd(lines, starts, s)), TokensBefore(lines, l) + 1)
    PROVE  s <= l /\ l <= RunEnd(lines, starts, s)
<1> DEFINE N == Len(lines)
           e == RunEnd(lines, starts, s)
           tb(i) == TokensBefore(lines, i)
<1>1. N \in Nat /\ s \in 1..N /\ l \in 1..N
  BY DEF Filled
<1>2. e \in Nat /\ s <= e /\ e <= N
  BY RunEndProperties
<1>3. tb(s) + 1 <= tb(l) + 1 /\ tb(l) + 1 <= tb(e + 1)
  BY DEF Holds, Span
<1>4. /\ \A i, j \in 1..(N + 1) : i <= j => tb(i) <= tb(j)
      /\ \A i \in 1..(N + 1) : tb(i) \in Nat
      /\ tb(l) < tb(l + 1)
  BY TokensBeforeProperties
<1> HIDE DEF N, e, tb
<1>5. /\ s \in 1..(N + 1) /\ l \in 1..(N + 1) /\ l + 1 \in 1..(N + 1) /\ e + 1 \in 1..(N + 1)
  BY <1>1, <1>2
<1>6. tb(s) \in Nat /\ tb(l) \in Nat /\ tb(l + 1) \in Nat /\ tb(e + 1) \in Nat
  BY <1>4, <1>5
<1>7. s <= l
  <2> SUFFICES ASSUME l + 1 <= s PROVE FALSE
    BY <1>1
  <2>1. tb(l + 1) <= tb(s)
    BY <1>4, <1>5
  <2> QED BY <1>3, <1>4, <1>6, <2>1
<1>8. l <= e
  <2> SUFFICES ASSUME e + 1 <= l PROVE FALSE
    BY <1>1, <1>2
  <2>1. tb(e + 1) <= tb(l)
    BY <1>4, <1>5
  <2> QED BY <1>3, <1>6, <2>1
<1> QED BY <1>7, <1>8 DEF e

\* A section is a table or has none.
LEMMA SectionsUniform ==
    ASSUME NEW lines \in Seq(Line), NEW s \in SectionStarts(lines),
           NEW l \in s..RunEnd(lines, SectionStarts(lines), s)
    PROVE  IsTable(lines, l) <=> IsTable(lines, s)
<1> DEFINE N == Len(lines)
           starts == SectionStarts(lines)
           e == RunEnd(lines, starts, s)
           T == {i \in s..e : ~(IsTable(lines, i) <=> IsTable(lines, s))}
<1>1. N \in Nat /\ DOMAIN lines = 1..N
  OBVIOUS
<1>2. starts \in SUBSET (DOMAIN lines)
  BY DEF SectionStarts
<1>3. s \in 1..N /\ e \in Nat /\ e <= N /\ \A j \in starts : s < j => e < j
  <2>1. s \in DOMAIN lines
    BY <1>2
  <2> QED BY <1>1, <1>2, <2>1, RunEndProperties
<1> HIDE DEF N, e
<1>4. SUFFICES ASSUME T # {} PROVE FALSE
  BY DEF e
<1>5. T \in SUBSET Nat
  BY <1>1, <1>3
<1>6. PICK i \in T : \A y \in T : i <= y
  <2> HIDE DEF T
  <2> QED BY <1>4, <1>5, LeastNumber
<1>7. i \in s..e /\ ~(IsTable(lines, i) <=> IsTable(lines, s))
  BY <1>6
<1>8. i # s /\ i - 1 \in s..e /\ i - 1 < i /\ i \in 1..N
  BY <1>1, <1>3, <1>7
<1>9. IsTable(lines, i - 1) <=> IsTable(lines, s)
  <2>1. i - 1 \notin T
    <3>1. ~(i <= i - 1)
      BY <1>8
    <3> HIDE DEF T
    <3> QED BY <1>6, <3>1
  <2> QED BY <1>8, <2>1
<1>10. i \in starts
  <2>1. IsTable(lines, i) # IsTable(lines, i - 1)
    BY <1>7, <1>9 DEF IsTable
  <2> QED BY <1>1, <1>8, <2>1 DEF SectionStarts
<1>11. s < i /\ ~(e < i)
  BY <1>1, <1>3, <1>7, <1>8
<1> QED BY <1>3, <1>10, <1>11

\* A table between other lines, as TablesStayWhole has it.
TableAt(lines, i, j) ==
    /\ i <= j /\ \A l \in i..j : IsTable(lines, l) /\ ~Blank(lines[l])
    /\ \A l \in {i - 1, j + 1} \cap DOMAIN lines : ~IsTable(lines, l)

\* It is a section of its own.
LEMMA TableIsSection ==
    ASSUME NEW lines \in Seq(Line), NEW i \in DOMAIN lines, NEW j \in DOMAIN lines,
           TableAt(lines, i, j),
           NEW s \in SectionStarts(lines), NEW l \in i..j,
           s <= l, l <= RunEnd(lines, SectionStarts(lines), s)
    PROVE  s = i /\ RunEnd(lines, SectionStarts(lines), s) = j
<1> DEFINE N == Len(lines)
           starts == SectionStarts(lines)
           e == RunEnd(lines, starts, s)
<1>1. N \in Nat /\ DOMAIN lines = 1..N /\ i \in 1..N /\ j \in 1..N
  OBVIOUS
<1>2. starts \in SUBSET (1..N)
  BY <1>1 DEF SectionStarts
<1>3. s \in 1..N /\ e \in Nat /\ e <= N /\ (\A k \in starts : s < k => e < k)
      /\ (e = N \/ e + 1 \in starts)
  BY <1>1, <1>2, RunEndProperties
<1>4. s <= l /\ l <= e /\ l \in Nat /\ i <= l /\ l <= j
  BY <1>1
<1>5. i <= j /\ \A k \in i..j : IsTable(lines, k)
  BY DEF TableAt
<1>6. i \in starts
  <2>1. CASE i = 1
    BY <1>1, <2>1 DEF SectionStarts
  <2>2. CASE i # 1
    <3>1. i - 1 \in 1..N
      BY <1>1, <2>2
    <3>2. ~IsTable(lines, i - 1)
      BY <1>1, <3>1 DEF TableAt
    <3>3. IsTable(lines, i)
      BY <1>1, <1>5
    <3>4. IsTable(lines, i) # IsTable(lines, i - 1)
      BY <3>2, <3>3 DEF IsTable
    <3> QED BY <1>1, <3>4 DEF SectionStarts
  <2> QED BY <2>1, <2>2
<1>7. ASSUME NEW k \in (i + 1)..j PROVE k \notin starts
  <2>1. k \in i..j /\ k - 1 \in i..j /\ k # 1
    BY <1>1
  <2>2. IsTable(lines, k) /\ IsTable(lines, k - 1)
    BY <1>5, <2>1
  <2>3. IsTable(lines, k) = IsTable(lines, k - 1) /\ lines[k].kind # "heading"
    BY <2>2 DEF IsTable
  <2> QED BY <2>1, <2>3 DEF SectionStarts
<1>8. j + 1 \in 1..N => j + 1 \in starts
  <2> SUFFICES ASSUME j + 1 \in 1..N PROVE j + 1 \in starts
    OBVIOUS
  <2>1. ~IsTable(lines, j + 1)
    BY <1>1 DEF TableAt
  <2>2. (j + 1) - 1 = j /\ IsTable(lines, j)
    BY <1>1, <1>5
  <2>3. IsTable(lines, j + 1) # IsTable(lines, (j + 1) - 1)
    BY <2>1, <2>2 DEF IsTable
  <2> QED BY <1>1, <2>3 DEF SectionStarts
<1> HIDE DEF N, e, starts
<1>9. s = i
  <2>1. ~(s < i)
    BY <1>1, <1>3, <1>4, <1>6
  <2>2. s \in starts
    BY DEF starts
  <2>3. s \notin (i + 1)..j
    BY <1>7, <2>2
  <2> QED BY <1>1, <1>3, <1>4, <2>1, <2>3
<1>10. e = j
  <2>1. j <= e
    <3> SUFFICES ASSUME e < j PROVE FALSE
      BY <1>1, <1>3
    <3>1. e + 1 \in (i + 1)..j
      BY <1>1, <1>3, <1>4
    <3> QED BY <1>1, <1>3, <1>7, <3>1
  <2>2. e <= j
    <3> SUFFICES ASSUME j < e PROVE FALSE
      BY <1>1, <1>3
    <3>1. j + 1 \in 1..N /\ s < j + 1 /\ ~(e < j + 1)
      BY <1>1, <1>3, <1>4
    <3> QED BY <1>3, <1>8, <3>1
  <2> QED BY <1>1, <1>3, <2>1, <2>2
<1> QED BY <1>9, <1>10 DEF e, starts

\* Where a chunk of DocumentAwareChunker is from.
LEMMA ChunkOfSection ==
    ASSUME NEW lines \in Seq(Line), TokenCount(lines) > 0, NEW size \in Nat \ {0},
           NEW k \in DOMAIN DocumentAware(lines, size)
    PROVE  LET c == DocumentAware(lines, size)[k]
               piece(s) == Span(lines, s, RunEnd(lines, SectionStarts(lines), s))
           IN  \E s \in SectionStarts(lines) :
                  /\ piece(s)[1] <= c[1] /\ c[2] <= piece(s)[2]
                  /\ SpanLength(piece(s)) <= size => c = piece(s)
<1> DEFINE starts == SectionStarts(lines)
           spans == Runs(lines, starts)
           n == TokenCount(lines)
           c == DocumentAware(lines, size)[k]
           piece(s) == Span(lines, s, RunEnd(lines, starts, s))
<1>1. starts \in SUBSET (DOMAIN lines)
  BY DEF SectionStarts
<1>2. n \in Nat /\ Chain(spans, 1, n, 0)
  BY SectionsBegin, RunsChain, TokensBeforeProperties
<1>3. PICK at : RunPieces(lines, starts, at)
  BY <1>1, RunsPieces
<1>4. at \in [1..Len(spans) -> starts] /\ \A p \in 1..Len(spans) : spans[p] = piece(at[p])
  BY <1>3 DEF RunPieces
<1>5. DOMAIN spans = 1..Len(spans)
  BY <1>2 DEF Chain
<1>6. DocumentAware(lines, size) = Limited(spans, size)
  BY DEF DocumentAware
<1> HIDE DEF spans, n, piece, starts, c
<1>7. c = Limited(spans, size)[k] /\ k \in DOMAIN Limited(spans, size)
  BY <1>6 DEF c
<1>8. PICK m \in DOMAIN spans :
         /\ spans[m][1] <= c[1] /\ c[2] <= spans[m][2]
         /\ SpanLength(spans[m]) <= size => c = spans[m]
  BY <1>2, <1>7, LimitedChain
<1>9. at[m] \in starts /\ spans[m] = piece(at[m])
  BY <1>4, <1>5
<1> DEFINE s == at[m]
<1>10. s \in starts /\ piece(s)[1] <= c[1] /\ c[2] <= piece(s)[2]
       /\ (SpanLength(piece(s)) <= size => c = piece(s))
  BY <1>8, <1>9
<1> HIDE DEF s
<1> QED BY <1>10 DEF piece, starts, c

\* DocumentAwareChunker never mixes a table with other text, and keeps one that fits.
LEMMA TablesKept ==
    ASSUME NEW lines \in Seq(Line), TokenCount(lines) > 0, NEW size \in Nat \ {0},
           NEW k \in DOMAIN DocumentAware(lines, size),
           NEW i \in Filled(lines), NEW j \in Filled(lines)
    PROVE  LET in(l) == Holds(DocumentAware(lines, size)[k], TokensBefore(lines, l) + 1) IN
           /\ in(i) /\ in(j) => (IsTable(lines, i) <=> IsTable(lines, j))
           /\ TableAt(lines, i, j) /\ SpanLength(Span(lines, i, j)) <= size => (in(i) <=> in(j))
<1> DEFINE starts == SectionStarts(lines)
           e(s) == RunEnd(lines, starts, s)
           piece(s) == Span(lines, s, e(s))
           c == DocumentAware(lines, size)[k]
           tb(l) == TokensBefore(lines, l)
           in(l) == Holds(c, tb(l) + 1)
<1>1. starts \in SUBSET (DOMAIN lines)
  BY DEF SectionStarts
<1>2. c[1] \in Nat /\ c[2] \in Nat
  <2> DEFINE cs == DocumentAware(lines, size)
  <2>1. Chain(cs, 1, TokenCount(lines), 0)
    <3>1. cs = Limited(Runs(lines, starts), size)
      BY DEF DocumentAware
    <3>2. Chain(Runs(lines, starts), 1, TokenCount(lines), 0) /\ TokenCount(lines) \in Nat
      BY SectionsBegin, RunsChain, TokensBeforeProperties
    <3> HIDE DEF cs
    <3> QED BY <3>1, <3>2, LimitedChain
  <2>2. cs \in Seq(Nat \X Nat)
    BY <2>1 DEF Chain
  <2>3. k \in DOMAIN cs
    OBVIOUS
  <2> HIDE DEF cs
  <2>4. cs[k][1] \in Nat /\ cs[k][2] \in Nat
    BY <2>2, <2>3, PieceBounds
  <2> QED BY <2>4 DEF cs
<1>3. PICK s \in starts : /\ piece(s)[1] <= c[1] /\ c[2] <= piece(s)[2]
                          /\ SpanLength(piece(s)) <= size => c = piece(s)
  BY ChunkOfSection
<1>4. piece(s)[1] \in Nat /\ piece(s)[2] \in Nat
  <2>1. s \in DOMAIN lines /\ e(s) \in Nat /\ s <= e(s) /\ e(s) <= Len(lines)
    BY <1>1, RunEndProperties
  <2>2. e(s) \in DOMAIN lines
    BY <2>1
  <2>3. piece(s) \in Nat \X Nat
    <3> HIDE DEF e
    <3> QED BY <2>1, <2>2, SpanBounds
  <2> HIDE DEF piece
  <2> QED BY <2>3
<1> HIDE DEF c
<1>5. \A l \in Filled(lines) : tb(l) \in Nat /\ tb(l + 1) \in Nat /\ tb(l) < tb(l + 1)
  <2> SUFFICES ASSUME NEW l \in Filled(lines)
               PROVE  tb(l) \in Nat /\ tb(l + 1) \in Nat /\ tb(l) < tb(l + 1)
    OBVIOUS
  <2>1. l \in 1..(Len(lines) + 1) /\ l + 1 \in 1..(Len(lines) + 1)
    BY DEF Filled
  <2> QED BY <2>1, TokensBeforeProperties
<1>6. ASSUME NEW l \in Filled(lines), in(l) PROVE s <= l /\ l <= e(s)
  <2>1. c[1] <= tb(l) + 1 /\ tb(l) + 1 <= c[2] /\ tb(l) \in Nat
    BY <1>5, <1>6 DEF Holds
  <2> DEFINE p == piece(s)
  <2>2. p[1] \in Nat /\ p[2] \in Nat /\ p[1] <= c[1] /\ c[2] <= p[2]
    BY <1>3, <1>4
  <2> HIDE DEF p
  <2>3. p[1] <= tb(l) + 1 /\ tb(l) + 1 <= p[2]
    BY <1>2, <2>1, <2>2
  <2>4. Holds(p, tb(l) + 1)
    BY <2>3 DEF Holds
  <2>5. Holds(Span(lines, s, RunEnd(lines, starts, s)), TokensBefore(lines, l) + 1)
    BY <2>4 DEF p
  <2> QED BY <1>1, <2>5, LineInRun
<1>7. /\ e(s) \in Nat /\ s \in Nat
      /\ Filled(lines) \subseteq Nat /\ Filled(lines) \subseteq DOMAIN lines
  <2>1. s \in DOMAIN lines
    BY <1>1
  <2>2. e(s) \in Nat
    BY <1>1, <2>1, RunEndProperties
  <2> QED BY <2>1, <2>2 DEF Filled
<1>8. ASSUME in(i), in(j) PROVE IsTable(lines, i) <=> IsTable(lines, j)
  <2>1. i \in s..e(s) /\ j \in s..e(s)
    <3>1. s <= i /\ i <= e(s)
      BY <1>6, <1>8
    <3>2. s <= j /\ j <= e(s)
      BY <1>6, <1>8
    <3>3. i \in Nat /\ j \in Nat
      BY <1>7
    <3> HIDE DEF e
    <3> QED BY <1>7, <3>1, <3>2, <3>3
  <2>2. (IsTable(lines, i) <=> IsTable(lines, s)) /\ (IsTable(lines, j) <=> IsTable(lines, s))
    BY <2>1, SectionsUniform
  <2> QED BY <2>2
<1>9. ASSUME TableAt(lines, i, j), SpanLength(Span(lines, i, j)) <= size PROVE in(i) <=> in(j)
  <2>1. i \in DOMAIN lines /\ j \in DOMAIN lines /\ i \in Nat /\ j \in Nat /\ i <= j
    BY <1>7, <1>9 DEF TableAt
  <2>2. i \in i..j /\ j \in i..j
    BY <2>1
  <2>3. ASSUME in(i) \/ in(j) PROVE s = i /\ e(s) = j
    <3>1. PICK l \in {i, j} : in(l)
      BY <2>3
    <3>2. s <= l /\ l <= e(s) /\ l \in i..j
      <4>1. l \in Filled(lines)
        OBVIOUS
      <4> QED BY <1>6, <2>2, <3>1, <4>1
    <3> QED BY <1>9, <2>1, <3>2, TableIsSection
  <2>4. ASSUME in(i) \/ in(j) PROVE in(i) /\ in(j)
    <3>1. s = i /\ e(s) = j
      BY <2>3, <2>4
    <3>2. piece(s) = Span(lines, i, j)
      BY <3>1
    <3>3. c = Span(lines, i, j)
      <4> HIDE DEF piece
      <4> QED BY <1>3, <1>9, <3>2
    <3>4. c = <<tb(i) + 1, tb(j + 1)>>
      BY <3>3 DEF Span
    <3>5. tb(i) < tb(j + 1) /\ tb(i) <= tb(j) /\ tb(j) < tb(j + 1)
          /\ tb(i) \in Nat /\ tb(j) \in Nat /\ tb(j + 1) \in Nat
      <4>1. i \in 1..(Len(lines) + 1) /\ j \in 1..(Len(lines) + 1)
        BY <2>1
      <4>2. tb(i) <= tb(j)
        BY <2>1, <4>1, TokensBeforeProperties
      <4> HIDE DEF tb
      <4> QED BY <1>5, <4>2
    <3> HIDE DEF tb, piece
    <3> QED BY <3>4, <3>5 DEF Holds
  <2> QED BY <2>4
<1> QED BY <1>8, <1>9 DEF c

-----------------------------------------------------------------------------
(* From a file to its chunks. *)

\* An agent's chunking configuration.
Chunker == [strategy : Strategies, size : Nat \ {0}, overlap : Nat]

\* What holds at every moment: a file is one its extractors can read until it is parsed, and
\* the chunks are those of the strategy.
ChunkInvariant ==
    /\ progress \in {"parse", "chunk", "chunked", "rejected", "unused"}
    /\ chunker \in Chunker /\ ValidOverlap(chunker.size, chunker.overlap)
    /\ progress = "parse" => source \in Source
    /\ text \in Seq(Line)
    /\ progress # "chunked" => chunks = <<>>
    /\ progress = "chunked" =>
          /\ chunks = ChunksOf(chunker.strategy, chunker.size, chunker.overlap, text)
          /\ chunks # <<>> /\ Constructible(chunker.strategy, chunker.overlap)

\* What extractors read is a sequence of lines.
LEMMA RawTextIsText ==
    ASSUME source \in Source
    PROVE  RawText \in Seq(Line)
<1>1. CASE source.type = "pdf"
  <2>1. /\ source.pymupdf \in Seq(Line) /\ source.pypdf \in Seq(Line)
        /\ source.ocr \in Seq(Line) /\ source.tables \in Seq(Line)
    BY <1>1, TextAssumption DEF Source
  <2> DEFINE tables == IF TokenCount(source.tables) > 0 THEN source.tables ELSE <<>>
  <2>2. tables \in Seq(Line)
    BY <2>1
  <2>3. RawText \in {source.ocr, source.pymupdf \o tables, source.pypdf}
    BY <1>1 DEF RawText, ParsePdf
  <2> HIDE DEF tables
  <2>4. source.pymupdf \o tables \in Seq(Line)
    BY <2>1, <2>2, ConcatProperties
  <2> QED BY <2>1, <2>3, <2>4
<1>2. CASE source.type # "pdf"
  <2>1. source.text \in Seq(Line)
    BY <1>2, TextAssumption DEF Source
  <2> QED BY <1>2, <2>1 DEF RawText
<1> QED BY <1>1, <1>2

\* Without its surrogates, too.
LEMMA SanitizedIsText ==
    ASSUME NEW t \in Seq(Line)
    PROVE  Sanitized(t) \in Seq(Line)
<1>1. ASSUME NEW i \in DOMAIN t
      PROVE  (IF t[i].kind = "surrogate" THEN [t[i] EXCEPT !.tokens = 0] ELSE t[i]) \in Line
  <2>1. t[i] \in Line
    OBVIOUS
  <2> QED BY <2>1 DEF Line
<1>2. DOMAIN t = 1..Len(t) /\ Len(t) \in Nat
  OBVIOUS
<1> QED BY <1>1, <1>2 DEF Sanitized

\* A behaviour starts with a file and an agent, or with neither.
LEMMA ChunkInvariantInit == Init => ChunkInvariant
<1> SUFFICES ASSUME Init PROVE ChunkInvariant
  OBVIOUS
<1>1. <<>> \in Seq(Line)
  OBVIOUS
<1>2. CASE ChunkInit
  <2>1. chunker \in Chunker /\ ValidOverlap(chunker.size, chunker.overlap)
    <3>1. PICK c \in ChunkConfigs, s \in Strategies :
             chunker = [strategy |-> s, size |-> c[1], overlap |-> c[2]]
      BY <1>2 DEF ChunkInit
    <3>2. c \in (Nat \ {0}) \X Nat /\ ValidOverlap(c[1], c[2])
      BY ConfigAssumption
    <3>3. c[1] \in Nat \ {0} /\ c[2] \in Nat
      BY <3>2
    <3> QED BY <3>1, <3>2, <3>3 DEF Chunker
  <2> QED BY <1>1, <1>2, <2>1 DEF ChunkInit, ChunkInvariant
<1>3. CASE ChunkingUnused
  <2>1. chunker \in Chunker
    BY <1>3 DEF ChunkingUnused, Chunker, Strategies
  <2>2. ValidOverlap(chunker.size, chunker.overlap)
    <3>1. 0 <= 1 \div 2
      OBVIOUS
    <3> QED BY <1>3, <3>1 DEF ChunkingUnused, ValidOverlap
  <2> QED BY <1>1, <1>3, <2>1, <2>2 DEF ChunkingUnused, ChunkInvariant
<1> QED BY <1>2, <1>3 DEF Init

\* Parsing and chunking keep it.
LEMMA ChunkPreserved == ChunkInvariant /\ [Next]_vars => ChunkInvariant'
<1> SUFFICES ASSUME ChunkInvariant, [Next]_vars PROVE ChunkInvariant'
  OBVIOUS
<1>1. CASE Parse
  <2>1. progress = "parse" /\ source \in Source /\ UNCHANGED <<source, chunker, chunks>>
        /\ chunks = <<>>
    BY <1>1 DEF Parse, ChunkInvariant
  <2>2. progress' \in {"rejected", "chunk"} /\ text' \in {text, Sanitized(RawText)}
    BY <1>1 DEF Parse
  <2>3. Sanitized(RawText) \in Seq(Line)
    BY <2>1, RawTextIsText, SanitizedIsText
  <2> QED BY <2>1, <2>2, <2>3 DEF ChunkInvariant
<1>2. CASE Chunk
  <2> DEFINE cs == ChunksOf(chunker.strategy, chunker.size, chunker.overlap, text)
  <2>1. progress = "chunk" /\ UNCHANGED <<source, chunker, text>> /\ chunks = <<>>
    BY <1>2 DEF Chunk, ChunkInvariant
  <2>2. \/ /\ Constructible(chunker.strategy, chunker.overlap) /\ cs # <<>>
           /\ progress' = "chunked" /\ chunks' = cs
        \/ progress' = "rejected" /\ UNCHANGED chunks
    BY <1>2 DEF Chunk
  <2>3. cs' = cs
    BY <2>1
  <2> HIDE DEF cs
  <2>4. CASE progress' = "rejected" /\ UNCHANGED chunks
    BY <2>1, <2>4 DEF ChunkInvariant
  <2>5. CASE /\ Constructible(chunker.strategy, chunker.overlap) /\ cs # <<>>
             /\ progress' = "chunked" /\ chunks' = cs
    <3>1. chunks' = cs' /\ chunks' # <<>>
      BY <2>3, <2>5
    <3>2. Constructible(chunker.strategy, chunker.overlap)'
      BY <2>1, <2>5 DEF Constructible
    <3> QED BY <2>1, <2>5, <3>1, <3>2 DEF ChunkInvariant, cs
  <2> QED BY <2>2, <2>4, <2>5
<1>3. CASE UNCHANGED chunkVars
  <2>1. UNCHANGED <<source, chunker, text, chunks, progress>>
    BY <1>3 DEF chunkVars
  <2> QED BY <2>1 DEF ChunkInvariant
<1> QED BY <1>1, <1>2, <1>3 DEF Next, ChunkStep, vars

\* parse_document, _sanitize and _chunk_text leave what ChunkInvariant says.
THEOREM ChunkInvariantHolds ==
    Spec => []ChunkInvariant
<1>1. Init => ChunkInvariant
  BY ChunkInvariantInit
<1>2. ChunkInvariant /\ [Next]_vars => ChunkInvariant'
  BY ChunkPreserved
<1> QED BY <1>1, <1>2, PTL DEF Spec

\* The chunks of a document are what its strategy promises.
LEMMA ChunksKeepPromise ==
    ASSUME ChunkInvariant, progress = "chunked"
    PROVE  /\ TokenCount(text) > 0 /\ TokenCount(text) \in Nat
           /\ Promised(chunks, chunker.strategy, chunker.size, chunker.overlap, text)
<1>1. /\ chunker.strategy \in Strategies /\ chunker.size \in Nat \ {0}
      /\ chunker.overlap \in Nat /\ ValidOverlap(chunker.size, chunker.overlap)
      /\ Constructible(chunker.strategy, chunker.overlap) /\ text \in Seq(Line)
      /\ chunks = ChunksOf(chunker.strategy, chunker.size, chunker.overlap, text)
      /\ chunks # <<>>
  BY DEF ChunkInvariant, Chunker
<1>2. TokenCount(text) \in Nat
  BY <1>1, TokensBeforeProperties
<1>3. TokenCount(text) # 0
  BY <1>1 DEF ChunksOf
<1>4. TokenCount(text) > 0
  BY <1>2, <1>3
<1> QED BY <1>1, <1>2, <1>4, EveryStrategyKeepsItsPromise

\* _chunk_text, whatever the strategy: every token of the text is in a chunk, and none is
\* empty.
THEOREM ChunksHoldEveryToken ==
    Spec => []EveryTokenInAChunk
<1>1. ChunkInvariant => EveryTokenInAChunk
  <2> SUFFICES ASSUME ChunkInvariant, progress = "chunked"
               PROVE  /\ Len(chunks) > 0
                      /\ \A t \in 1..TokenCount(text) : \E k \in DOMAIN chunks : Holds(chunks[k], t)
                      /\ \A k \in DOMAIN chunks :
                            /\ 1 <= chunks[k][1] /\ chunks[k][1] <= chunks[k][2]
                            /\ chunks[k][2] <= TokenCount(text)
    BY DEF EveryTokenInAChunk
  <2> DEFINE n == TokenCount(text)
             overlap == IF chunker.strategy \in {"fixed_size", "hierarchical"}
                        THEN chunker.overlap ELSE 0
  <2>1. n \in Nat /\ overlap \in Nat
    BY ChunksKeepPromise DEF ChunkInvariant, Chunker
  <2>2. Chain(chunks, 1, n, overlap)
    BY ChunksKeepPromise DEF Promised
  <2> HIDE DEF n, overlap
  <2>3. \A t \in 1..n : \E k \in DOMAIN chunks : Holds(chunks[k], t)
    BY <2>1, <2>2, ChainHolds
  <2>4. DOMAIN chunks = 1..Len(chunks)
    BY <2>2 DEF Chain
  <2> QED BY <2>2, <2>3, <2>4 DEF Chain, n
<1> QED BY <1>1, ChunkInvariantHolds, PTL

\* _token_limit, _subchunk_if_needed, _append_chunk_with_max_tokens and the windows: no
\* chunk is longer than its strategy's limit, but the single sentence of SemanticChunker.
THEOREM ChunksAreWithinLimit ==
    Spec => []ChunksWithinLimit
<1>1. ChunkInvariant => ChunksWithinLimit
  <2> SUFFICES ASSUME ChunkInvariant PROVE ChunksWithinLimit
    OBVIOUS
  <2>1. CASE progress = "chunked"
    <3>1. Promised(chunks, chunker.strategy, chunker.size, chunker.overlap, text)
      BY <2>1, ChunksKeepPromise
    <3>2. DOMAIN chunks = 1..Len(chunks)
      BY <3>1 DEF Promised, Chain
    <3> QED BY <3>1, <3>2 DEF Promised, ChunksWithinLimit
  <2>2. CASE progress # "chunked"
    <3>1. chunks = <<>>
      BY <2>2 DEF ChunkInvariant
    <3> QED BY <3>1 DEF ChunksWithinLimit
  <2> QED BY <2>1, <2>2
<1> QED BY <1>1, ChunkInvariantHolds, PTL

\* The smaller of two numbers.
LEMMA SmallerOfTwo ==
    ASSUME NEW a \in Int, NEW b \in Int
    PROVE  Min({a, b}) = IF a <= b THEN a ELSE b
<1> DEFINE T == {a, b}
           m == Min(T)
<1>1. T \in SUBSET Int /\ T # {}
  OBVIOUS
<1>2. IsFiniteSet(T)
  <2>1. IsFiniteSet({a}) /\ IsFiniteSet({b})
    BY FS_Singleton
  <2>2. T = {a} \cup {b}
    OBVIOUS
  <2> QED BY <2>1, <2>2, FS_Union
<1>3. Min(T) \in T /\ \A x \in T : Min(T) <= x
  <2> HIDE DEF T
  <2> QED BY <1>1, <1>2, Extremes
<1>4. m \in {a, b} /\ m <= a /\ m <= b
  BY <1>3
<1> HIDE DEF m
<1>5. m = IF a <= b THEN a ELSE b
  BY <1>4
<1> QED BY <1>5 DEF m

\* FixedSizeChunker's windows share chunk_overlap tokens or all that is left, those of
\* HierarchicalChunker at most as many, and the pieces of the other strategies none.
THEOREM OverlapIsExact ==
    Spec => []OverlapExact
<1>1. ChunkInvariant => OverlapExact
  <2> SUFFICES ASSUME ChunkInvariant, NEW k \in 1..(Len(chunks) - 1)
               PROVE  LET shared == chunks[k][2] - chunks[k + 1][1] + 1 IN
                      CASE chunker.strategy = "fixed_size" ->
                               shared = Min({chunker.overlap, SpanLength(chunks[k + 1])})
                        [] chunker.strategy = "hierarchical" -> shared <= chunker.overlap
                        [] OTHER -> shared = 0
    BY DEF OverlapExact
  <2>1. progress = "chunked"
    <3> SUFFICES ASSUME progress # "chunked" PROVE FALSE
      OBVIOUS
    <3>1. chunks = <<>>
      BY DEF ChunkInvariant
    <3>2. Len(chunks) = 0
      BY <3>1
    <3> QED BY <3>2
  <2> DEFINE shared == chunks[k][2] - chunks[k + 1][1] + 1
             n == TokenCount(text)
             overlap == IF chunker.strategy \in {"fixed_size", "hierarchical"}
                        THEN chunker.overlap ELSE 0
  <2>2. /\ Chain(chunks, 1, n, overlap) /\ chunker.overlap \in Nat
        /\ chunker.strategy = "fixed_size" => Sharing(chunks, chunker.overlap)
    BY <2>1, ChunksKeepPromise DEF Promised, ChunkInvariant, Chunker
  <2>3. chunks \in Seq(Nat \X Nat)
    BY <2>2 DEF Chain
  <2>4. k \in 1..Len(chunks) /\ k + 1 \in 1..Len(chunks)
    BY <2>3
  <2>5. chunks[k][2] \in Nat /\ chunks[k + 1][1] \in Nat /\ chunks[k + 1][2] \in Nat
    BY <2>3, <2>4, PieceBounds
  <2>6. 0 <= shared /\ shared <= overlap
    BY <2>2 DEF Chain
  <2>7. shared \in Int /\ SpanLength(chunks[k + 1]) \in Int
    BY <2>5 DEF SpanLength
  <2>8. CASE chunker.strategy = "fixed_size"
    <3>1. shared = IF chunker.overlap <= SpanLength(chunks[k + 1])
                   THEN chunker.overlap ELSE SpanLength(chunks[k + 1])
      BY <2>2, <2>8 DEF Sharing
    <3>2. shared = Min({chunker.overlap, SpanLength(chunks[k + 1])})
      <4>1. chunker.overlap \in Int
        BY <2>2
      <4> HIDE DEF shared
      <4> QED BY <2>7, <3>1, <4>1, SmallerOfTwo
    <3> QED BY <2>8, <3>2
  <2>9. CASE chunker.strategy = "hierarchical"
    BY <2>6, <2>9
  <2>10. CASE chunker.strategy \notin {"fixed_size", "hierarchical"}
    <3>1. overlap = 0
      BY <2>10
    <3>2. shared = 0
      <4> HIDE DEF shared, overlap
      <4> QED BY <2>6, <2>7, <3>1
    <3> QED BY <2>10, <3>2
  <2> QED BY <2>8, <2>9, <2>10
<1> QED BY <1>1, ChunkInvariantHolds, PTL

\* DocumentAwareChunker never mixes a table with other text, and keeps each table that fits
\* in one chunk.
THEOREM TablesAreKeptWhole ==
    Spec => []TablesStayWhole
<1>1. ChunkInvariant => TablesStayWhole
  <2> SUFFICES ASSUME ChunkInvariant, chunker.strategy = "document_aware",
                      NEW i \in DOMAIN text, NEW j \in DOMAIN text, NEW k \in DOMAIN chunks
               PROVE  LET in(l) == Holds(chunks[k], Span(text, l, l)[1])
                          table == \A l \in i..j : IsTable(text, l) /\ ~Blank(text[l])
                      IN  /\ (~Blank(text[i]) /\ ~Blank(text[j]) /\ in(i) /\ in(j))
                                => IsTable(text, i) = IsTable(text, j)
                          /\ (i <= j /\ table /\ SpanLength(Span(text, i, j)) <= chunker.size
                                /\ \A l \in {i - 1, j + 1} \cap DOMAIN text : ~IsTable(text, l))
                                => in(i) = in(j)
    BY DEF TablesStayWhole
  <2>1. progress = "chunked"
    BY DEF ChunkInvariant
  <2>2. /\ TokenCount(text) > 0 /\ text \in Seq(Line) /\ chunker.size \in Nat \ {0}
        /\ chunks = ChunksOf(chunker.strategy, chunker.size, chunker.overlap, text)
    BY <2>1, ChunksKeepPromise DEF ChunkInvariant, Chunker
  <2>3. chunks = DocumentAware(text, chunker.size)
    <3>1. TokenCount(text) # 0
      BY <2>2
    <3> QED BY <2>2, <3>1 DEF ChunksOf
  <2> DEFINE in(l) == Holds(chunks[k], TokensBefore(text, l) + 1)
  <2>4. \A l : Span(text, l, l)[1] = TokensBefore(text, l) + 1
    BY DEF Span
  <2>5. ASSUME i \in Filled(text), j \in Filled(text)
        PROVE  /\ in(i) /\ in(j) => (IsTable(text, i) <=> IsTable(text, j))
               /\ TableAt(text, i, j) /\ SpanLength(Span(text, i, j)) <= chunker.size
                     => (in(i) <=> in(j))
    BY <2>2, <2>3, <2>5, TablesKept
  <2>6. ASSUME ~Blank(text[i]), ~Blank(text[j]), in(i), in(j)
        PROVE  IsTable(text, i) = IsTable(text, j)
    <3>1. i \in Filled(text) /\ j \in Filled(text)
      BY <2>6 DEF Filled
    <3> HIDE DEF in
    <3>2. IsTable(text, i) <=> IsTable(text, j)
      BY <2>5, <2>6, <3>1
    <3> QED BY <3>2 DEF IsTable
  <2>7. ASSUME i <= j, \A l \in i..j : IsTable(text, l) /\ ~Blank(text[l]),
               SpanLength(Span(text, i, j)) <= chunker.size,
               \A l \in {i - 1, j + 1} \cap DOMAIN text : ~IsTable(text, l)
        PROVE  in(i) = in(j)
    <3>1. i \in i..j /\ j \in i..j
      BY <2>2, <2>7
    <3>2. i \in Filled(text) /\ j \in Filled(text)
      BY <2>7, <3>1 DEF Filled
    <3>3. TableAt(text, i, j)
      BY <2>7 DEF TableAt
    <3>4. in(i) <=> in(j)
      <4> HIDE DEF in
      <4> QED BY <2>5, <2>7, <3>2, <3>3
    <3> QED BY <3>4 DEF Holds
  <2> QED BY <2>4, <2>6, <2>7
<1> QED BY <1>1, ChunkInvariantHolds, PTL

-----------------------------------------------------------------------------
(* Types. *)

\* What a stream has sent is a list of events.
EventsTyped == events \in Seq(Event)

\* Every stage emits events or nothing.
LEMMA EventsPreserved == EventsTyped /\ [Next]_vars => EventsTyped'
<1> SUFFICES ASSUME EventsTyped, [Next]_vars PROVE EventsTyped'
  OBVIOUS
<1>e. ASSUME NEW es \in Seq(Event), Emit(es) PROVE EventsTyped'
  <2>1. events \in Seq(Event)
    BY DEF EventsTyped
  <2>2. events \o es \in Seq(Event)
    BY <2>1, ConcatProperties
  <2>3. events' = events \o es \/ events' = events
    BY <1>e DEF Emit
  <2> QED BY <2>1, <2>2, <2>3 DEF EventsTyped
<1>l. /\ <<>> \in Seq(Event) /\ <<"token">> \in Seq(Event)
      /\ <<"error", "[DONE]">> \in Seq(Event) /\ <<"done", "[DONE]">> \in Seq(Event)
      /\ <<"token", "error", "[DONE]">> \in Seq(Event)
  <2> DEFINE E == {"token", "error", "done", "[DONE]"}
  <2>1. /\ <<>> \in Seq(E) /\ <<"token">> \in Seq(E)
        /\ <<"error", "[DONE]">> \in Seq(E) /\ <<"done", "[DONE]">> \in Seq(E)
    OBVIOUS
  <2>2. <<"token", "error", "[DONE]">> \in Seq(E)
    OBVIOUS
  <2> QED BY <2>1, <2>2 DEF Event
<1>g. ASSUME UNCHANGED events PROVE EventsTyped'
  BY <1>g DEF EventsTyped
<1>r. ASSUME NEW error, Raise(error) PROVE EventsTyped'
  BY <1>e, <1>l, <1>r DEF Raise
<1>1. CASE RefuseMismatch \/ RetrieveFails \/ RerankFails
  BY <1>1, <1>r DEF RefuseMismatch, RetrieveFails, RerankFails
<1>2. CASE Start \/ Route \/ Rewrite \/ CheckHallucination
  <2>1. (\E error : Raise(error)) \/ UNCHANGED events
    BY <1>2 DEF Start, Route, Rewrite, CheckHallucination, Goto
  <2> QED BY <2>1, <1>g, <1>r
<1>3. CASE Retrieve \/ Rerank
  BY <1>3, <1>g DEF Retrieve, Rerank
<1>4. CASE Generate
  BY <1>4, <1>e, <1>l DEF Generate
<1>5. CASE GenerateFails
  BY <1>5, <1>e, <1>l, <1>r DEF GenerateFails
<1>6. CASE Respond
  BY <1>6, <1>e, <1>l DEF Respond
<1>7. CASE UNCHANGED pipelineVars
  BY <1>7, <1>g DEF pipelineVars
<1> QED
  BY <1>1, <1>2, <1>3, <1>4, <1>5, <1>6, <1>7 DEF Next, PipelineStep, vars

\* Every variable of the two pipelines keeps its type, whatever the corpus, the agents and
\* the texts.
THEOREM TypesHold ==
    Spec => []TypeOK
<1>1. Init => EventsTyped
  <2>1. Init => events = <<>>
    BY DEF Init, PipelineInit, QueryUnused
  <2>2. <<>> \in Seq(Event)
    OBVIOUS
  <2> QED BY <2>1, <2>2 DEF EventsTyped
<1>2. Spec => []EventsTyped
  BY <1>1, EventsPreserved, PTL DEF Spec
<1>3. SelectionInvariant /\ EventsTyped => PipelineTypeOK
  <2> SUFFICES ASSUME SelectionInvariant, EventsTyped PROVE PipelineTypeOK
    OBVIOUS
  <2>1. retrieved \in Seq(Result) /\ results \in Seq(Result)
    BY DEF SelectionInvariant, RankedList
  <2>2. lists \in Seq(Seq(Result))
    <3>1. lists \in Seq(RankedList)
      BY DEF SelectionInvariant
    <3>2. \A l \in 1..Len(lists) : lists[l] \in Seq(Result)
      BY <3>1 DEF RankedList
    <3> QED BY <3>1, <3>2
  <2> QED BY <2>1, <2>2 DEF SelectionInvariant, EventsTyped, PipelineTypeOK, Ask, Event
<1>4. ChunkInvariant => ChunkTypeOK
  <2> SUFFICES ASSUME ChunkInvariant PROVE chunks \in Seq(Nat \X Nat)
    BY DEF ChunkInvariant, ChunkTypeOK
  <2>1. CASE progress = "chunked"
    BY <2>1, ChunksKeepPromise DEF Promised, Chain
  <2>2. CASE progress # "chunked"
    BY <2>2 DEF ChunkInvariant
  <2> QED BY <2>1, <2>2
<1>5. SelectionInvariant /\ EventsTyped /\ ChunkInvariant => TypeOK
  BY <1>3, <1>4 DEF TypeOK
<1> QED BY <1>2, <1>5, SelectionInvariantHolds, ChunkInvariantHolds, PTL

=============================================================================
