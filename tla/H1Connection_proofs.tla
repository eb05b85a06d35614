------------------------ MODULE H1Connection_proofs ------------------------
(***************************************************************************)
(* Proofs about H1Connection, for any peer and any size of the buffers:    *)
(* the types, 100 Continue, the responses before a shutdown, that a body's *)
(* reader is never handed more than the body has, and that nothing the     *)
(* peer sends is lost or handed out twice.                                 *)
(***************************************************************************)
EXTENDS H1Connection, TLAPS, SequenceTheorems, FiniteSetTheorems

Bodies == [holder : {"handler", "drain", "response", "gone"}, size : Nat,
           at : {"here", "asked", "answered", "failed"},
           buf : Seq(Units), got : Seq(Units)]

States == {"peeking", "found", "handling", "continuing", "awaiting",
           "writing", "spinning", "closed"}

ReadReq == [of : Nat, amount : Nat]

\* Types, and what they rest on: a handler and a body for every request, a request at
\* hand where the connection task works on one, and a unit where it has found one.
TypeInv ==
    /\ TypeOK
    /\ Len(handler) = Current /\ Len(body) = Current
    /\ state \in {"handling", "continuing", "awaiting", "writing"} => Current # 0
    /\ state = "found" => buffer # << >>

-----------------------------------------------------------------------------
(* Parts of sequences. *)

\* The first units of a sequence, and the others.
LEMMA Parts ==
    ASSUME NEW S, NEW s \in Seq(S), NEW n \in Nat
    PROVE  /\ Front(s, n) \in Seq(S) /\ Rest(s, n) \in Seq(S)
           /\ Len(Front(s, n)) <= n /\ Len(Front(s, n)) <= Len(s)
           /\ n <= Len(s) => Len(Front(s, n)) = n
           /\ Len(Rest(s, n)) = IF n <= Len(s) THEN Len(s) - n ELSE 0
BY DEF Front, Rest, Smaller

\* A unit is a head or data.
LEMMA UnitFields ==
    ASSUME NEW unit \in Units
    PROVE  /\ unit.head \in BOOLEAN /\ unit.of \in Nat
           /\ unit.head => unit.size \in Nat /\ unit.expects_continue \in BOOLEAN
BY DEF Units, Heads, Data

LEMMA StaleUnit == Stale \in Units
BY DEF Stale, Units, Data

\* The body of one request changes.
LEMMA BodyChanged ==
    ASSUME body \in Seq(Bodies), NEW k, NEW b, k \in DOMAIN body => b \in Bodies,
           body' = [body EXCEPT ![k] = b]
    PROVE  body' \in Seq(Bodies) /\ Len(body') = Len(body)
<1>1. CASE k \in DOMAIN body
  BY <1>1, ExceptSeq
<1>2. CASE k \notin DOMAIN body
  <2>1. body' = body
    BY <1>2
  <2> QED
    BY <2>1
<1> QED
  BY <1>1, <1>2

\* A buffer is handed back.
LEMMA AnswerBody ==
    ASSUME body \in Seq(Bodies), NEW k, NEW units \in Seq(Units), Answer(k, units)
    PROVE  /\ body' \in Seq(Bodies) /\ Len(body') = Len(body)
           /\ \A i \in DOMAIN body : body'[i].got = body[i].got /\ body'[i].size = body[i].size
<1>1. /\ body' = [i \in DOMAIN body |->
                     IF i = k THEN [body[k] EXCEPT !.at = "answered", !.buf = units] ELSE body[i]]
  BY DEF Answer
<1>2. ASSUME NEW i \in DOMAIN body
      PROVE  body'[i] \in Bodies /\ body'[i].got = body[i].got /\ body'[i].size = body[i].size
  <2>1. body[i] \in Bodies
    OBVIOUS
  <2> QED
    BY <1>1, <2>1 DEF Bodies
<1>3. DOMAIN body' = 1..Len(body) /\ DOMAIN body = 1..Len(body) /\ Len(body) \in Nat
  BY <1>1
<1>4. body' \in Seq(Bodies) /\ Len(body') = Len(body)
  BY <1>1, <1>2, <1>3
<1> QED
  BY <1>2, <1>4

-----------------------------------------------------------------------------
(* Types. *)

\* The initial state has its types.
LEMMA InitType == Init => TypeInv
<1> SUFFICES ASSUME Init PROVE TypeInv
  OBVIOUS
<1>1. stream \in Seq(Units)
  BY H1Assumption DEF Init, H1Assumption, Units
<1>2. serving \in [of : Nat, amount : Nat, part : Seq(Units)]
  BY DEF Init, NotServing
<1>3. /\ inbound \in Seq(Units) /\ buffer \in Seq(Units) /\ requests \in Seq(Units)
      /\ req_body_rx \in Seq([of : Nat, amount : Nat]) /\ body \in Seq(Bodies)
      /\ handler \in Seq({"running", "whole", "long", "short", "echo", "leftover", "failed"})
      /\ out \in Seq([kind : {"continue", "response", "surplus"}, of : Nat])
  BY <1>1 DEF Init
<1>4. TypeOK
  BY <1>1, <1>2, <1>3 DEF Init, TypeOK, Bodies
<1> QED
  BY <1>4 DEF Init, TypeInv, Current

\* Leaving lets go of all bodies.
LEMMA CloseType ==
    ASSUME TypeInv, NEW how \in {"none", "failed", "shutdown"}, Close(how) PROVE TypeInv'
<1>1. body \in Seq(Bodies)
  BY DEF TypeInv, TypeOK, Bodies
<1>2. body' \in Seq(Bodies) /\ Len(body') = Len(body)
  <2> DEFINE at(k) == IF body[k].at = "asked" THEN "failed" ELSE body[k].at
             holder(k) == IF body[k].holder # "response" THEN body[k].holder
                          ELSE IF state = "writing" THEN "gone" ELSE "drain"
             released(k) == [body[k] EXCEPT !.at = at(k), !.holder = holder(k)]
  <2>1. body' = [k \in DOMAIN body |-> released(k)]
    BY Zenon DEF Close, Released
  <2>2. ASSUME NEW k \in DOMAIN body PROVE released(k) \in Bodies
    <3>1. body[k] \in Bodies
      BY <1>1
    <3>2. /\ at(k) \in {"here", "asked", "answered", "failed"}
          /\ holder(k) \in {"handler", "drain", "response", "gone"}
      BY <3>1 DEF Bodies
    <3> HIDE DEF at, holder
    <3> QED
      BY <3>1, <3>2 DEF Bodies
  <2> HIDE DEF released
  <2>3. DOMAIN body = 1..Len(body) /\ Len(body) \in Nat
    BY <1>1
  <2> QED
    BY <2>1, <2>2, <2>3
<1>3. serving' \in [of : Nat, amount : Nat, part : Seq(Units)]
  BY DEF Close, NotServing
<1> QED
  BY <1>2, <1>3 DEF Close, TypeInv, TypeOK, Bodies, Current

\* A part of a body is handed back, or waited for.
LEMMA ServeType ==
    ASSUME TypeInv, NEW k \in Nat, NEW amount \in Nat, ServeFrom(k, amount)
    PROVE  /\ state' \in {"handling", "awaiting"} /\ buffer' \in Seq(Units)
           /\ serving' \in [of : Nat, amount : Nat, part : Seq(Units)]
           /\ body' \in Seq(Bodies) /\ Len(body') = Len(body)
<1>1. buffer \in Seq(Units) /\ body \in Seq(Bodies) /\ Len(buffer) \in Nat
  BY DEF TypeInv, TypeOK, Bodies
<1>2. CASE buffer # << >> /\ Len(buffer) >= amount
  <2>1. Answer(k, Front(buffer, amount)) /\ buffer' = Rest(buffer, amount)
        /\ state' = "handling" /\ serving' = NotServing
    BY <1>2 DEF ServeFrom
  <2>2. Front(buffer, amount) \in Seq(Units) /\ Rest(buffer, amount) \in Seq(Units)
    BY <1>1, Parts
  <2>3. body' \in Seq(Bodies) /\ Len(body') = Len(body)
    BY <1>1, <2>1, <2>2, AnswerBody
  <2> QED
    BY <2>1, <2>2, <2>3 DEF NotServing
<1>3. CASE ~(buffer # << >> /\ Len(buffer) >= amount)
  <2>1. /\ serving' = [of |-> k, amount |-> amount - Len(buffer), part |-> buffer]
        /\ buffer' = << >> /\ state' = "awaiting" /\ body' = body
    BY <1>3 DEF ServeFrom
  <2>2. amount - Len(buffer) \in Nat
    BY <1>1, <1>3
  <2> QED
    BY <1>1, <2>1, <2>2
<1> QED
  BY <1>2, <1>3

\* Reading from the socket: what has been read is gone from what comes in.
LEMMA ReadType ==
    ASSUME inbound \in Seq(Units), NEW n \in Nat \ {0}, n <= Len(inbound), NEW m \in Nat
    PROVE  /\ Front(inbound, n) \in Seq(Units) /\ Front(inbound, n) # << >>
           /\ Rest(inbound, n) \in Seq(Units) /\ Rest(Front(inbound, n), m) \in Seq(Units)
<1>1. /\ Front(inbound, n) \in Seq(Units) /\ Len(Front(inbound, n)) = n
      /\ Rest(inbound, n) \in Seq(Units)
  BY Parts
<1>2. Front(inbound, n) # << >>
  BY <1>1
<1> QED
  BY <1>1, <1>2, Parts

\* The steps that read from the socket.
LEMMA SocketType ==
    ASSUME TypeInv, PeekRequest \/ ReadRequest \/ ReadChunk PROVE TypeInv'
<1> USE DEF TypeInv, TypeOK, Current
<1>1. CASE PeekRequest
  <2>1. /\ buffer' \in Seq(Units) /\ buffer' # << >> /\ inbound' \in Seq(Units)
    <3>1. CASE buffer # << >>
      BY <1>1, <3>1 DEF PeekRequest
    <3>2. CASE buffer = << >>
      <4>1. PICK n \in 1..BufferSize : ReadIntoBuffer(n)
        BY <1>1, <3>2 DEF PeekRequest
      <4>2. n \in Nat \ {0}
        BY H1Assumption DEF H1Assumption
      <4> QED
        BY <4>1, <4>2, ReadType DEF ReadIntoBuffer
    <3> QED
      BY <3>1, <3>2
  <2> QED
    BY <1>1, <2>1 DEF PeekRequest
<1>2. CASE ReadRequest
  <2> DEFINE size == IF buffer[1].head THEN buffer[1].size ELSE 0
             expects == IF buffer[1].head THEN buffer[1].expects_continue ELSE FALSE
             new == IF size = 0 THEN NoBody ELSE NewBody(size)
  <2>1. /\ buffer' = Tail(buffer) /\ requests' = Append(requests, buffer[1])
        /\ expects_continue' = expects /\ body' = Append(body, new)
        /\ handler' = Append(handler, "running") /\ state' = "handling"
        /\ UNCHANGED <<stream, inbound, shutdown, exit, req_body_rx, serving, response, out>>
    BY <1>2 DEF ReadRequest
  <2>2. buffer # << >> /\ buffer[1] \in Units
    BY <1>2 DEF ReadRequest
  <2>3. size \in Nat /\ expects \in BOOLEAN
    BY <2>2, UnitFields
  <2>4. new \in Bodies
    <3>1. NoBody \in Bodies
      BY DEF NoBody, Bodies
    <3>2. [i \in 1..BodyBuf |-> Stale] \in Seq(Units)
      BY StaleUnit, H1Assumption DEF H1Assumption
    <3>3. NewBody(size) \in Bodies
      BY <2>3, <3>2 DEF NewBody, Bodies
    <3> QED
      BY <3>1, <3>3
  <2> HIDE DEF size, expects, new
  <2>5. body \in Seq(Bodies)
    BY DEF Bodies
  <2>6. body' \in Seq(Bodies) /\ Len(body') = Len(body) + 1
    BY <2>1, <2>4, <2>5
  <2>7. handler' \in Seq({"running", "whole", "long", "short", "echo", "leftover", "failed"})
        /\ Len(handler') = Len(handler) + 1
    BY <2>1
  <2>8. buffer' \in Seq(Units) /\ requests' \in Seq(Units) /\ Len(requests') = Len(requests) + 1
    BY <2>1, <2>2
  <2> QED
    BY <2>1, <2>3, <2>6, <2>7, <2>8 DEF Bodies
<1>3. CASE ReadChunk
  <2>1. PICK n \in 1..BufferSize :
            /\ n <= Len(inbound)
            /\ Answer(serving.of, Chunk(Front(inbound, n)))
            /\ buffer' = Rest(Front(inbound, n), serving.amount)
            /\ inbound' = Rest(inbound, n)
    BY <1>3 DEF ReadChunk
  <2>2. n \in Nat \ {0}
    BY H1Assumption DEF H1Assumption
  <2>3. serving.amount \in Nat /\ serving.part \in Seq(Units)
    OBVIOUS
  <2>4. Front(inbound, n) \in Seq(Units) /\ buffer' \in Seq(Units) /\ inbound' \in Seq(Units)
    BY <2>1, <2>2, <2>3, ReadType
  <2>5. Chunk(Front(inbound, n)) \in Seq(Units)
    BY <2>3, <2>4, Parts DEF Chunk
  <2>6. body \in Seq(Bodies)
    BY DEF Bodies
  <2>7. body' \in Seq(Bodies) /\ Len(body') = Len(body)
    BY <2>1, <2>5, <2>6, AnswerBody
  <2> QED
    BY <1>3, <2>4, <2>7 DEF ReadChunk, NotServing, Bodies
<1> QED
  BY <1>1, <1>2, <1>3

\* The steps that serve the reads of bodies.
LEMMA ServingType ==
    ASSUME TypeInv, TakeReadRequest \/ WriteContinue PROVE TypeInv'
<1> USE DEF TypeInv, TypeOK, Current
<1>1. CASE TakeReadRequest
  <2> DEFINE req == Head(req_body_rx)
             amount == Smaller(req.amount, BodyBuf)
  <2>1. req.of \in Nat /\ req.amount \in Nat /\ Tail(req_body_rx) \in Seq([of : Nat, amount : Nat])
    <3>1. req_body_rx \in Seq(ReadReq) /\ req_body_rx # << >>
      BY <1>1 DEF TakeReadRequest, ReadReq
    <3>2. Head(req_body_rx) \in ReadReq /\ Tail(req_body_rx) \in Seq(ReadReq)
      BY <3>1, HeadTailProperties
    <3> QED
      BY <3>2 DEF ReadReq
  <2>2. amount \in Nat
    BY <2>1, H1Assumption DEF Smaller, H1Assumption
  <2>3. req_body_rx' = Tail(req_body_rx)
    BY <1>1 DEF TakeReadRequest
  <2>4. UNCHANGED <<stream, inbound, shutdown, exit, requests, expects_continue, response,
                    handler, out>> /\ state = "handling"
    BY <1>1 DEF TakeReadRequest
  <2>5. CASE expects_continue
    <3>1. /\ serving' = [of |-> req.of, amount |-> amount, part |-> << >>]
          /\ state' = "continuing" /\ UNCHANGED <<buffer, body>>
      BY <1>1, <2>5 DEF TakeReadRequest
    <3> HIDE DEF req, amount
    <3>2. serving' \in [of : Nat, amount : Nat, part : Seq(Units)]
      BY <2>1, <2>2, <3>1
    <3> QED
      BY <2>1, <2>3, <2>4, <3>1, <3>2
  <2>6. CASE ~expects_continue
    <3>1. ServeFrom(req.of, amount)
      BY <1>1, <2>6 DEF TakeReadRequest
    <3> HIDE DEF req, amount
    <3> QED
      BY <2>1, <2>2, <2>3, <2>4, <3>1, ServeType DEF Bodies
  <2> QED
    BY <2>5, <2>6
<1>2. CASE WriteContinue
  <2>1. serving.of \in Nat /\ serving.amount \in Nat
    OBVIOUS
  <2>2. out' \in Seq([kind : {"continue", "response", "surplus"}, of : Nat])
    BY <1>2 DEF WriteContinue
  <2>3. /\ ServeFrom(serving.of, serving.amount) /\ expects_continue' = FALSE
        /\ state = "continuing"
        /\ UNCHANGED <<stream, inbound, shutdown, exit, requests, req_body_rx, response, handler>>
    BY <1>2 DEF WriteContinue
  <2> QED
    BY <2>1, <2>2, <2>3, ServeType DEF Bodies
<1> QED
  BY <1>1, <1>2

\* The holder of a body changes.
LEMMA HolderChanged ==
    ASSUME body \in Seq(Bodies), NEW k \in DOMAIN body,
           NEW h \in {"handler", "drain", "response", "gone"},
           body' = [body EXCEPT ![k].holder = h]
    PROVE  body' \in Seq(Bodies) /\ Len(body') = Len(body)
<1>1. body[k] \in Bodies
  OBVIOUS
<1>2. [body[k] EXCEPT !.holder = h] \in Bodies
  BY <1>1 DEF Bodies
<1> QED
  BY <1>2, ExceptSeq

\* The steps that write the response.
LEMMA ResponseType ==
    ASSUME TypeInv, TakeResult \/ WriteWhole \/ WriteLong \/ WriteShort \/ WriteEcho
    PROVE  TypeInv'
<1> USE DEF TypeInv, TypeOK, Current
<1>1. CASE TakeResult
  <2>1. handler[Current] \in {"running", "whole", "long", "short", "echo", "leftover", "failed"}
    BY <1>1 DEF TakeResult
  <2> QED
    BY <1>1, <2>1 DEF TakeResult
<1>2. CASE WriteShort
  BY <1>2 DEF WriteShort
<1>3. ASSUME NEW frames \in Seq([kind : {"continue", "response", "surplus"}, of : Nat]),
             Written(frames), body' \in Seq(Bodies), Len(body') = Len(body)
      PROVE  TypeInv'
  <2>1. out' \in Seq([kind : {"continue", "response", "surplus"}, of : Nat])
    BY <1>3 DEF Written
  <2> QED
    BY <1>3, <2>1 DEF Written, Bodies
<1>4. body \in Seq(Bodies) /\ Response \in [kind : {"continue", "response", "surplus"}, of : Nat]
  BY DEF Response, Bodies
<1>5. <<Response>> \in Seq([kind : {"continue", "response", "surplus"}, of : Nat])
  BY <1>4
<1>6. CASE WriteWhole
  BY <1>3, <1>4, <1>5, <1>6 DEF WriteWhole
<1>7. CASE WriteLong
  <2>1. PICK surplus \in {<< >>, <<[kind |-> "surplus", of |-> Current]>>} :
            Written(<<Response>> \o surplus)
    BY <1>7 DEF WriteLong
  <2>2. surplus \in Seq([kind : {"continue", "response", "surplus"}, of : Nat])
    <3>1. [kind |-> "surplus", of |-> Current] \in [kind : {"continue", "response", "surplus"}, of : Nat]
      OBVIOUS
    <3>2. CASE surplus = << >>
      BY <3>2
    <3>3. CASE surplus = <<[kind |-> "surplus", of |-> Current]>>
      BY <3>1, <3>3
    <3> QED
      BY <2>1, <3>2, <3>3
  <2>3. <<Response>> \o surplus \in Seq([kind : {"continue", "response", "surplus"}, of : Nat])
    BY <1>5, <2>2
  <2>4. body' = body
    BY <1>7 DEF WriteLong
  <2> QED
    BY <1>3, <1>4, <2>1, <2>3, <2>4
<1>8. CASE WriteEcho
  <2>1. Current \in DOMAIN body /\ body' = [body EXCEPT ![Current].holder = "gone"]
    BY <1>8 DEF WriteEcho
  <2>2. body' \in Seq(Bodies) /\ Len(body') = Len(body)
    BY <1>4, <2>1, HolderChanged
  <2>3. Written(<<Response>>)
    BY <1>8 DEF WriteEcho
  <2> QED
    BY <1>3, <1>5, <2>2, <2>3
<1> QED
  BY <1>1, <1>2, <1>6, <1>7, <1>8

\* The steps of the connection task.
LEMMA ConnectionType == ASSUME TypeInv, Connection PROVE TypeInv'
<1>1. CASE PeekRequest \/ ReadRequest \/ ReadChunk
  BY <1>1, SocketType
<1>2. CASE TakeReadRequest \/ WriteContinue
  BY <1>2, ServingType
<1>3. CASE TakeResult \/ WriteWhole \/ WriteLong \/ WriteShort \/ WriteEcho
  BY <1>3, ResponseType
<1>4. CASE TakeFailure \/ Fails \/ NoticeShutdown
  BY <1>4, CloseType DEF TakeFailure, Fails, NoticeShutdown
<1> QED
  BY <1>1, <1>2, <1>3, <1>4 DEF Connection

\* A reader takes what there is, as far as the limit of the LimitReader goes.
LEMMA PollBytesBody ==
    ASSUME TypeInv, NEW k \in DOMAIN body, NEW want \in Nat, PollBytes(k, want)
    PROVE  /\ body' \in Seq(Bodies) /\ Len(body') = Len(body)
           /\ \A i \in DOMAIN body :
                  /\ body'[i].size = body[i].size
                  /\ Len(body[i].got) <= body[i].size => Len(body'[i].got) <= body[i].size
<1> DEFINE taken == Front(body[k].buf, Wanted(k, want))
           rest == Rest(body[k].buf, Wanted(k, want))
           b == [body[k] EXCEPT !.at = "here", !.got = @ \o taken, !.buf = rest]
<1>1. body \in Seq(Bodies) /\ body[k] \in Bodies
  <2>1. body \in Seq(Bodies)
    BY DEF TypeInv, TypeOK, Bodies
  <2> QED
    BY <2>1
<1>2. /\ body[k].size \in Nat /\ body[k].got \in Seq(Units) /\ body[k].buf \in Seq(Units)
      /\ Len(body[k].got) \in Nat
  BY <1>1 DEF Bodies
<1>3. Len(body[k].got) < body[k].size
  BY DEF PollBytes, Polls
<1>4. Wanted(k, want) \in Nat /\ Wanted(k, want) <= body[k].size - Len(body[k].got)
  BY <1>2, <1>3 DEF Wanted, Smaller
<1>5. taken \in Seq(Units) /\ rest \in Seq(Units) /\ Len(taken) <= Wanted(k, want)
  BY <1>2, <1>4, Parts
<1>6. body' = [i \in DOMAIN body |-> IF i = k THEN b ELSE body[i]]
  BY DEF PollBytes
<1> HIDE DEF taken, rest
<1>7. body[k].got \o taken \in Seq(Units) /\ Len(body[k].got \o taken) <= body[k].size
  BY <1>2, <1>4, <1>5
<1>8. b \in Bodies /\ b.got = body[k].got \o taken /\ b.size = body[k].size
  BY <1>1, <1>5, <1>7 DEF Bodies
<1> HIDE DEF b
<1>9. ASSUME NEW i \in DOMAIN body
      PROVE  /\ body'[i] \in Bodies /\ body'[i].size = body[i].size
             /\ Len(body[i].got) <= body[i].size => Len(body'[i].got) <= body[i].size
  <2>1. CASE i = k
    <3>1. body'[i] = b
      BY <1>6, <2>1
    <3> QED
      BY <1>7, <1>8, <2>1, <3>1
  <2>2. CASE i # k
    <3>1. body'[i] = body[i]
      BY <1>6, <2>2
    <3> QED
      BY <1>1, <3>1
  <2> QED
    BY <2>1, <2>2
<1>10. body' \in Seq(Bodies) /\ Len(body') = Len(body)
  <2>1. DOMAIN body = 1..Len(body) /\ Len(body) \in Nat
    BY <1>1
  <2> QED
    BY <1>6, <1>9, <2>1
<1> QED
  BY <1>9, <1>10

\* The steps of handlers, and of whoever reads a body, change holders and where the
\* buffer is; only PollBytes reads.
LEMMA TasksBody ==
    ASSUME TypeInv, NEW k \in DOMAIN body, Tasks(k)
    PROVE  /\ body' \in Seq(Bodies) /\ Len(body') = Len(body)
           /\ \A i \in DOMAIN body :
                  /\ body'[i].size = body[i].size
                  /\ Len(body[i].got) <= body[i].size => Len(body'[i].got) <= body[i].size
<1>1. body \in Seq(Bodies)
  BY DEF TypeInv, TypeOK, Bodies
<1>2. ASSUME NEW h \in {"handler", "drain", "response", "gone"},
             body' = [body EXCEPT ![k].holder = h]
      PROVE  /\ body' \in Seq(Bodies) /\ Len(body') = Len(body)
             /\ \A i \in DOMAIN body :
                    body'[i].size = body[i].size /\ body'[i].got = body[i].got
  <2>1. \A i \in DOMAIN body : body[i] \in Bodies
    BY <1>1
  <2> QED
    BY <1>1, <1>2, <2>1, HolderChanged DEF Bodies
<1>3. ASSUME NEW a \in {"asked", "failed"}, body' = [body EXCEPT ![k].at = a]
      PROVE  /\ body' \in Seq(Bodies) /\ Len(body') = Len(body)
             /\ \A i \in DOMAIN body :
                    body'[i].size = body[i].size /\ body'[i].got = body[i].got
  <2>1. \A i \in DOMAIN body : body[i] \in Bodies
    BY <1>1
  <2>2. [body[k] EXCEPT !.at = a] \in Bodies
    BY <2>1 DEF Bodies
  <2>3. body' \in Seq(Bodies) /\ Len(body') = Len(body)
    BY <1>1, <1>3, <2>2, ExceptSeq
  <2> QED
    BY <1>3, <2>1, <2>3 DEF Bodies
<1>4. body[k].holder \in {"handler", "drain", "response", "gone"}
  <2>1. body[k] \in Bodies
    BY <1>1
  <2> QED
    BY <2>1 DEF Bodies
<1>5. CASE body' = Dropped(k)
  <2>1. body' = [body EXCEPT ![k].holder = IF body[k].holder = "handler" THEN "drain"
                                           ELSE body[k].holder]
    BY <1>5 DEF Dropped
  <2> QED
    BY <1>2, <1>4, <2>1
<1>6. CASE DropBody(k)
  BY <1>5, <1>6 DEF DropBody
<1>7. CASE FinishHandler(k)
  <2>1. body' = Dropped(k) \/ body' = [body EXCEPT ![k].holder = "response"]
    BY <1>7 DEF FinishHandler
  <2> QED
    BY <1>2, <1>5, <2>1
<1>8. CASE EndDrain(k)
  BY <1>2, <1>8 DEF EndDrain
<1>9. ASSUME NEW want \in 1..MaxRead, PollEmpty(k, want)
      PROVE  body' = [body EXCEPT ![k].at = "failed"] \/ body' = [body EXCEPT ![k].at = "asked"]
  BY <1>9 DEF PollEmpty
<1>10. 1..MaxRead \subseteq Nat
  BY H1Assumption DEF H1Assumption
<1> QED
  BY <1>3, <1>6, <1>7, <1>8, <1>9, <1>10, PollBytesBody DEF Tasks

\* The steps of handlers and readers.
LEMMA TasksType ==
    ASSUME TypeInv, NEW k \in DOMAIN body, Tasks(k) PROVE TypeInv'
<1>1. body' \in Seq(Bodies) /\ Len(body') = Len(body)
  BY TasksBody
<1>2. Keep
  BY DEF Tasks, DropBody, FinishHandler, EndDrain, PollBytes, PollEmpty
<1>3. /\ handler' \in Seq({"running", "whole", "long", "short", "echo", "leftover", "failed"})
      /\ Len(handler') = Len(handler)
  <2>1. CASE FinishHandler(k)
    <3>1. PICK result \in {"whole", "long", "short", "echo", "leftover", "failed"} :
              handler' = [handler EXCEPT ![k] = result]
      BY <2>1 DEF FinishHandler
    <3>2. k \in 1..Len(handler)
      BY DEF TypeInv, TypeOK
    <3> QED
      BY <3>1, <3>2, ExceptSeq DEF TypeInv, TypeOK
  <2>2. CASE ~FinishHandler(k)
    BY <2>2 DEF Tasks, DropBody, EndDrain, PollBytes, PollEmpty, TypeInv, TypeOK
  <2> QED
    BY <2>1, <2>2
<1>4. req_body_rx' \in Seq(ReadReq)
  <2>1. req_body_rx \in Seq(ReadReq)
    BY DEF TypeInv, TypeOK, ReadReq
  <2>2. ASSUME NEW want \in 1..MaxRead, PollEmpty(k, want) PROVE req_body_rx' \in Seq(ReadReq)
    <3>1. body \in Seq(Bodies)
      BY DEF TypeInv, TypeOK, Bodies
    <3>2. body[k] \in Bodies /\ k \in Nat
      BY <3>1
    <3>3. /\ body[k].size \in Nat /\ Len(body[k].got) \in Nat /\ want \in Nat
          /\ Len(body[k].got) < body[k].size
      BY <2>2, <3>2 DEF PollEmpty, Polls, Bodies
    <3>4. Wanted(k, want) \in Nat
      BY <3>3 DEF Wanted, Smaller
    <3>5. [of |-> k, amount |-> Wanted(k, want)] \in ReadReq
      BY <3>2, <3>4 DEF ReadReq
    <3> QED
      BY <2>1, <2>2, <3>5 DEF PollEmpty
  <2>3. CASE DropBody(k) \/ FinishHandler(k) \/ EndDrain(k)
    BY <2>1, <2>3 DEF DropBody, FinishHandler, EndDrain
  <2>4. ASSUME NEW want \in 1..MaxRead, PollBytes(k, want) PROVE req_body_rx' \in Seq(ReadReq)
    BY <2>1, <2>4 DEF PollBytes
  <2> QED
    BY <2>2, <2>3, <2>4 DEF Tasks
<1> QED
  BY <1>1, <1>2, <1>3, <1>4 DEF Keep, connVars, TypeInv, TypeOK, Bodies, ReadReq, Current

\* Every step keeps the types.
LEMMA TypeStep == ASSUME TypeInv, [Next]_vars PROVE TypeInv'
<1>1. CASE UNCHANGED vars
  BY <1>1 DEF vars, connVars, TypeInv, TypeOK, Current
<1>2. CASE AnnounceShutdown
  BY <1>2 DEF AnnounceShutdown, connVars, TypeInv, TypeOK, Current
<1> QED
  BY <1>1, <1>2, ConnectionType, TasksType DEF Next

\* Whatever the peer sends and the handlers do, every variable has its type.
THEOREM TypeCorrect == Spec => []TypeOK
<1>1. TypeInv => TypeOK
  BY DEF TypeInv
<1> QED
  BY <1>1, InitType, TypeStep, PTL DEF Spec

-----------------------------------------------------------------------------
(* The reader of a body. *)

GotInv == \A k \in DOMAIN body : Len(body[k].got) <= body[k].size

\* Only PollBytes reads, and it keeps to the limit; a new body has not been read.
LEMMA GotStep == ASSUME TypeInv, GotInv, [Next]_vars PROVE GotInv'
<1>1. body \in Seq(Bodies)
  BY DEF TypeInv, TypeOK, Bodies
<1>2. ASSUME NEW units \in Seq(Units), NEW k, Answer(k, units) PROVE GotInv'
  <2>1. DOMAIN body' = DOMAIN body
    BY <1>1, <1>2, AnswerBody
  <2> QED
    BY <1>1, <1>2, <2>1, AnswerBody DEF GotInv
<1>3. CASE body' = body
  BY <1>3 DEF GotInv
<1>4. CASE \E k \in DOMAIN body : Tasks(k)
  <2>1. PICK k \in DOMAIN body : Tasks(k)
    BY <1>4
  <2>2. DOMAIN body' = DOMAIN body
    BY <1>1, <2>1, TasksBody
  <2> QED
    BY <2>1, <2>2, TasksBody DEF GotInv
<1>5. CASE body' = Released
  <2>1. ASSUME NEW k \in DOMAIN body
        PROVE  body'[k].got = body[k].got /\ body'[k].size = body[k].size
    <3> DEFINE at == IF body[k].at = "asked" THEN "failed" ELSE body[k].at
               holder == IF body[k].holder # "response" THEN body[k].holder
                         ELSE IF state = "writing" THEN "gone" ELSE "drain"
    <3>1. body'[k] = [body[k] EXCEPT !.at = at, !.holder = holder]
      BY <1>5, Zenon DEF Released
    <3>2. body[k] \in Bodies
      BY <1>1
    <3> HIDE DEF at, holder
    <3> QED
      BY <3>1, <3>2 DEF Bodies
  <2>2. DOMAIN body' = DOMAIN body
    BY <1>5 DEF Released
  <2> QED
    BY <2>1, <2>2 DEF GotInv
<1>6. CASE ReadRequest
  <2>1. PICK new : body' = Append(body, new) /\ Len(new.got) <= new.size
    <3> DEFINE size == IF buffer[1].head THEN buffer[1].size ELSE 0
               new == IF size = 0 THEN NoBody ELSE NewBody(size)
    <3>1. body' = Append(body, new)
      BY <1>6 DEF ReadRequest
    <3>2. buffer[1] \in Units
      BY <1>6 DEF ReadRequest, TypeInv, TypeOK
    <3>3. size \in Nat
      BY <3>2, UnitFields
    <3>4. new.got = << >> /\ new.size = size
      BY DEF NoBody, NewBody
    <3> HIDE DEF size, new
    <3>5. Len(new.got) <= new.size
      BY <3>3, <3>4
    <3> QED
      BY <3>1, <3>5
  <2>2. /\ DOMAIN body' = 1..Len(body) + 1 /\ DOMAIN body = 1..Len(body) /\ Len(body) \in Nat
        /\ body'[Len(body) + 1] = new /\ \A k \in 1..Len(body) : body'[k] = body[k]
    BY <1>1, <2>1
  <2>3. ASSUME NEW k \in DOMAIN body' PROVE Len(body'[k].got) <= body'[k].size
    <3>1. CASE k = Len(body) + 1
      BY <2>1, <2>2, <3>1
    <3>2. CASE k # Len(body) + 1
      BY <2>2, <3>2 DEF GotInv
    <3> QED
      BY <3>1, <3>2
  <2> QED
    BY <2>3 DEF GotInv
<1>7. CASE ReadChunk
  <2>1. PICK n \in 1..BufferSize :
            n <= Len(inbound) /\ Answer(serving.of, Chunk(Front(inbound, n)))
    BY <1>7 DEF ReadChunk
  <2>2. n \in Nat /\ inbound \in Seq(Units) /\ serving.part \in Seq(Units) /\ serving.amount \in Nat
    BY H1Assumption DEF H1Assumption, TypeInv, TypeOK
  <2>3. Front(inbound, n) \in Seq(Units)
    BY <2>2, Parts
  <2>4. Chunk(Front(inbound, n)) \in Seq(Units)
    <3>1. Front(Front(inbound, n), serving.amount) \in Seq(Units)
      BY <2>2, <2>3, Parts
    <3> QED
      BY <2>2, <3>1 DEF Chunk
  <2> QED
    BY <1>2, <2>1, <2>4
<1>8. ASSUME NEW k, NEW amount \in Nat, ServeFrom(k, amount) PROVE GotInv'
  <2>1. CASE Answer(k, Front(buffer, amount))
    <3>1. Front(buffer, amount) \in Seq(Units)
      BY Parts DEF TypeInv, TypeOK
    <3> QED
      BY <1>2, <2>1, <3>1
  <2> QED
    BY <1>3, <1>8, <2>1 DEF ServeFrom
<1>9. CASE TakeReadRequest
  <2>1. req_body_rx \in Seq(ReadReq) /\ req_body_rx # << >>
    BY <1>9 DEF TakeReadRequest, TypeInv, TypeOK, ReadReq
  <2>2. Head(req_body_rx).amount \in Nat
    <3>1. Head(req_body_rx) \in ReadReq
      BY <2>1, HeadTailProperties
    <3> QED
      BY <3>1 DEF ReadReq
  <2>3. Smaller(Head(req_body_rx).amount, BodyBuf) \in Nat
    BY <2>2, H1Assumption DEF Smaller, H1Assumption
  <2> QED
    BY <1>3, <1>8, <1>9, <2>3 DEF TakeReadRequest
<1>10. CASE WriteContinue
  <2>1. serving.amount \in Nat
    BY DEF TypeInv, TypeOK
  <2> QED
    BY <1>8, <1>10, <2>1 DEF WriteContinue
<1>11. CASE WriteEcho
  <2>1. body' = [body EXCEPT ![Current].holder = "gone"]
    BY <1>11 DEF WriteEcho
  <2>2. DOMAIN body' = DOMAIN body /\ \A k \in DOMAIN body :
            body'[k].got = body[k].got /\ body'[k].size = body[k].size
    BY <1>1, <2>1 DEF Bodies
  <2> QED
    BY <2>2 DEF GotInv
<1>12. CASE PeekRequest \/ TakeResult \/ WriteWhole \/ WriteLong \/ WriteShort
            \/ AnnounceShutdown \/ UNCHANGED vars
  BY <1>3, <1>12 DEF PeekRequest, TakeResult, WriteWhole, WriteLong, WriteShort,
                     AnnounceShutdown, vars
<1>13. CASE TakeFailure \/ Fails \/ NoticeShutdown
  BY <1>5, <1>13 DEF TakeFailure, Fails, NoticeShutdown, Close
<1> QED
  BY <1>4, <1>6, <1>7, <1>9, <1>10, <1>11, <1>12, <1>13 DEF Next, Connection

\* Whoever reads a body, one after the other and in pieces of any size: no reader is
\* ever given more than the body's content-length.
THEOREM ReadsWithinLimit == Spec => []GotInv
<1>1. Init => TypeInv /\ GotInv
  BY InitType DEF Init, GotInv
<1>2. TypeInv /\ GotInv /\ [Next]_vars => (TypeInv /\ GotInv)'
  BY TypeStep, GotStep
<1> QED
  BY <1>1, <1>2, PTL DEF Spec

-----------------------------------------------------------------------------
(* 100 Continue.  ContinueOnce speaks of what has been written; what makes *)
(* it hold is that expects_continue belongs to the request at hand as long *)
(* as its body is served, and is gone when the line has been written.      *)

ContinueInv ==
    /\ ContinueOnce
    /\ \A i \in DOMAIN out : out[i].of \in 1..Current
    /\ state = "continuing" => expects_continue
    /\ state = "awaiting" => ~expects_continue
    /\ state \in {"handling", "continuing"} /\ expects_continue =>
           /\ requests[Current].head /\ requests[Current].expects_continue
           /\ \A i \in DOMAIN out : out[i].of # Current

\* A step that writes nothing and stays with the request.
LEMMA NothingWritten ==
    ASSUME ContinueInv, UNCHANGED <<out, requests, expects_continue>>,
           \/ state' = state
           \/ state' \in {"peeking", "found", "writing", "spinning", "closed"}
           \/ state = "handling" /\ state' = "continuing" /\ expects_continue
           \/ state = "handling" /\ state' \in {"handling", "awaiting"} /\ ~expects_continue
           \/ state = "awaiting" /\ state' = "handling"
    PROVE  ContinueInv'
BY DEF ContinueInv, ContinueOnce, Current

\* What is written behind a response.
LEMMA ResponseWritten ==
    ASSUME TypeInv, ContinueInv, Current # 0,
           NEW frames \in Seq([kind : {"response", "surplus"}, of : {Current}]),
           out' = out \o frames, state' = "peeking", UNCHANGED <<requests, expects_continue>>
    PROVE  ContinueInv'
<1>1. /\ out \in Seq([kind : {"continue", "response", "surplus"}, of : Nat])
      /\ requests \in Seq(Units)
  BY DEF TypeInv, TypeOK
<1>2. Current \in Nat /\ Current \in 1..Current
  BY <1>1 DEF Current
<1>3. ASSUME NEW i \in DOMAIN out'
      PROVE  \/ i \in DOMAIN out /\ out'[i] = out[i]
             \/ out'[i].of = Current /\ out'[i].kind # "continue"
  <2>1. /\ i \in 1..Len(out) + Len(frames) /\ Len(out) \in Nat /\ Len(frames) \in Nat
        /\ out'[i] = IF i <= Len(out) THEN out[i] ELSE frames[i - Len(out)]
    BY <1>1
  <2>2. CASE i <= Len(out)
    BY <1>1, <2>1, <2>2
  <2>3. CASE ~(i <= Len(out))
    <3>1. i - Len(out) \in 1..Len(frames)
      BY <2>1, <2>3
    <3>2. frames[i - Len(out)] \in [kind : {"response", "surplus"}, of : {Current}]
      BY <3>1, ElementOfSeq
    <3> QED
      BY <2>1, <2>3, <3>2
  <2> QED
    BY <2>2, <2>3
<1>4. \A i \in DOMAIN out' : out'[i].of \in 1..Current
  BY <1>2, <1>3 DEF ContinueInv
<1>5. ASSUME NEW i \in DOMAIN out', out'[i].kind = "continue"
      PROVE  /\ requests[out'[i].of].head /\ requests[out'[i].of].expects_continue
             /\ \A j \in 1..(i - 1) : out'[j].of # out'[i].of
  <2>1. i \in DOMAIN out /\ out'[i] = out[i]
    BY <1>3, <1>5
  <2>2. ASSUME NEW j \in 1..(i - 1) PROVE out'[j] = out[j]
    BY <1>1, <2>1
  <2> QED
    BY <1>5, <2>1, <2>2 DEF ContinueInv, ContinueOnce
<1>6. ContinueOnce'
  BY <1>5 DEF ContinueOnce
<1> QED
  BY <1>4, <1>6 DEF ContinueInv, Current

\* The line is written for a request that asked for it, before anything else is.
LEMMA ContinueWritten == ASSUME TypeInv, ContinueInv, WriteContinue PROVE ContinueInv'
<1>1. /\ out \in Seq([kind : {"continue", "response", "surplus"}, of : Nat])
      /\ Current \in Nat /\ Current \in 1..Current
  BY DEF TypeInv, TypeOK, WriteContinue, Current
<1>2. /\ out' = Append(out, [kind |-> "continue", of |-> Current]) /\ requests' = requests
      /\ expects_continue' = FALSE /\ state = "continuing" /\ state' \in {"handling", "awaiting"}
  BY DEF WriteContinue, ServeFrom
<1>3. /\ DOMAIN out' = 1..Len(out) + 1 /\ DOMAIN out = 1..Len(out) /\ Len(out) \in Nat
      /\ out'[Len(out) + 1] = [kind |-> "continue", of |-> Current]
      /\ \A i \in 1..Len(out) : out'[i] = out[i]
  BY <1>1, <1>2
<1>4. /\ requests[Current].head /\ requests[Current].expects_continue
      /\ \A i \in DOMAIN out : out[i].of # Current
  BY <1>2 DEF ContinueInv
<1>5. \A i \in DOMAIN out' : out'[i].of \in 1..Current
  BY <1>1, <1>3 DEF ContinueInv
<1>6. ASSUME NEW i \in DOMAIN out', out'[i].kind = "continue"
      PROVE  /\ requests[out'[i].of].head /\ requests[out'[i].of].expects_continue
             /\ \A j \in 1..(i - 1) : out'[j].of # out'[i].of
  <2>1. CASE i = Len(out) + 1
    BY <1>3, <1>4, <2>1
  <2>2. CASE i # Len(out) + 1
    <3>1. i \in DOMAIN out /\ \A j \in 1..i : out'[j] = out[j]
      BY <1>3, <2>2
    <3> QED
      BY <1>3, <1>6, <3>1 DEF ContinueInv, ContinueOnce
  <2> QED
    BY <2>1, <2>2
<1>7. ContinueOnce'
  BY <1>2, <1>6 DEF ContinueOnce
<1> QED
  BY <1>2, <1>5, <1>7 DEF ContinueInv, Current

\* A new request has had nothing written for it.
LEMMA RequestRead == ASSUME TypeInv, ContinueInv, ReadRequest PROVE ContinueInv'
<1>1. /\ requests \in Seq(Units) /\ buffer # << >> /\ buffer[1] \in Units
      /\ requests' = Append(requests, buffer[1]) /\ out' = out /\ state' = "handling"
      /\ expects_continue' = IF buffer[1].head THEN buffer[1].expects_continue ELSE FALSE
  BY DEF TypeInv, TypeOK, ReadRequest
<1>2. /\ Current \in Nat /\ Current' = Current + 1 /\ requests'[Current + 1] = buffer[1]
      /\ \A k \in 1..Current : requests'[k] = requests[k]
  BY <1>1 DEF Current
<1>3. \A i \in DOMAIN out : out[i].of \in 1..Current' /\ out[i].of # Current'
  BY <1>2 DEF ContinueInv
<1>4. ContinueOnce'
  BY <1>1, <1>2 DEF ContinueInv, ContinueOnce
<1>5. expects_continue' => buffer[1].head /\ buffer[1].expects_continue
  BY <1>1
<1> QED
  BY <1>1, <1>2, <1>3, <1>4, <1>5 DEF ContinueInv

\* Every step keeps 100 Continue in its place.
LEMMA ContinueStep == ASSUME TypeInv, ContinueInv, [Next]_vars PROVE ContinueInv'
<1>1. CASE WriteWhole \/ WriteLong \/ WriteEcho
  <2> DEFINE surplus == [kind |-> "surplus", of |-> Current]
             Frame == [kind : {"response", "surplus"}, of : {Current}]
  <2>1. PICK more \in {<< >>, <<surplus>>} : Written(<<Response>> \o more)
                                             \/ Written(<<Response>>)
    BY <1>1 DEF WriteWhole, WriteLong, WriteEcho
  <2>2. Response \in Frame /\ surplus \in Frame
    BY DEF Response
  <2> HIDE DEF surplus
  <2>3. <<Response>> \in Seq(Frame) /\ <<Response>> \o more \in Seq(Frame)
    <3>1. more \in Seq(Frame)
      <4>1. CASE more = << >>
        BY <4>1
      <4>2. CASE more = <<surplus>>
        BY <2>2, <4>2
      <4> QED
        BY <2>1, <4>1, <4>2
    <3>2. <<Response>> \in Seq(Frame)
      BY <2>2
    <3> QED
      BY <3>1, <3>2
  <2>4. Current # 0
    BY <1>1 DEF WriteWhole, WriteLong, WriteEcho, TypeInv
  <2> QED
    BY <2>1, <2>3, <2>4, ResponseWritten DEF Written
<1>2. CASE TakeReadRequest
  BY <1>2, NothingWritten DEF TakeReadRequest, ServeFrom
<1>3. CASE PeekRequest \/ TakeResult \/ WriteShort \/ ReadChunk
  BY <1>3, NothingWritten DEF PeekRequest, TakeResult, WriteShort, ReadChunk
<1>4. CASE TakeFailure \/ Fails \/ NoticeShutdown
  BY <1>4, NothingWritten DEF TakeFailure, Fails, NoticeShutdown, Close
<1>5. CASE \E k \in DOMAIN body : Tasks(k)
  <2>1. Keep
    BY <1>5 DEF Tasks, DropBody, FinishHandler, EndDrain, PollBytes, PollEmpty
  <2> QED
    BY <2>1, NothingWritten DEF Keep, connVars
<1>6. CASE AnnounceShutdown \/ UNCHANGED vars
  BY <1>6, NothingWritten DEF AnnounceShutdown, vars, connVars
<1> QED
  BY <1>1, <1>2, <1>3, <1>4, <1>5, <1>6, ContinueWritten, RequestRead DEF Next, Connection

\* Whatever bodies earlier requests have left behind: 100 Continue is written at most
\* once per request, only if it asked for it, and before its response.
THEOREM ContinueCorrect == Spec => []ContinueOnce
<1>1. Init => TypeInv /\ ContinueInv
  BY InitType DEF Init, ContinueInv, ContinueOnce
<1>2. TypeInv /\ ContinueInv /\ [Next]_vars => (TypeInv /\ ContinueInv)'
  BY TypeStep, ContinueStep
<1>3. ContinueInv => ContinueOnce
  BY DEF ContinueInv
<1> QED
  BY <1>1, <1>2, <1>3, PTL DEF Spec

-----------------------------------------------------------------------------
(* How often something is in a sequence: not at all, or once. *)

NotIn(u, s) == \A j \in DOMAIN s : s[j] # u
OnceIn(u, s) == \E i \in DOMAIN s : \A j \in DOMAIN s : s[j] = u <=> j = i

\* What is in two sequences is in the one made of them.
LEMMA Concatenated ==
    ASSUME NEW S, NEW s \in Seq(S), NEW t \in Seq(S), NEW u
    PROVE  /\ NotIn(u, s \o t) <=> NotIn(u, s) /\ NotIn(u, t)
           /\ OnceIn(u, s \o t) <=> \/ OnceIn(u, s) /\ NotIn(u, t)
                                    \/ NotIn(u, s) /\ OnceIn(u, t)
<1> DEFINE m == Len(s)
           n == Len(t)
           st == s \o t
           P == 1..m
           Q == 1..n
           R == 1..(m + n)
           at(i) == m + i
<1>1. /\ DOMAIN s = P /\ DOMAIN t = Q /\ DOMAIN st = R
      /\ \A i \in P : i \in R /\ st[i] = s[i]
      /\ \A i \in Q : at(i) \in R /\ at(i) \notin P /\ st[at(i)] = t[i]
      /\ \A i, j \in Q : at(i) = at(j) => i = j
  OBVIOUS
<1>2. ASSUME NEW i \in R PROVE i \in P \/ \E j \in Q : i = at(j)
  <2>1. m \in Nat /\ n \in Nat
    OBVIOUS
  <2>2. CASE i <= m
    BY <2>1, <2>2
  <2>3. CASE ~(i <= m)
    <3>1. i - m \in Q /\ i = at(i - m)
      BY <2>1, <2>3
    <3> QED
      BY <3>1
  <2> QED
    BY <2>2, <2>3
<1> HIDE DEF m, n, st, P, Q, R, at
<1>3. NotIn(u, st) <=> NotIn(u, s) /\ NotIn(u, t)
  <2>1. ASSUME NotIn(u, st) PROVE NotIn(u, s) /\ NotIn(u, t)
    BY <1>1, <2>1 DEF NotIn
  <2>2. ASSUME NotIn(u, s), NotIn(u, t) PROVE NotIn(u, st)
    BY <1>1, <1>2, <2>2 DEF NotIn
  <2> QED
    BY <2>1, <2>2
<1>4. ASSUME OnceIn(u, st)
      PROVE  \/ OnceIn(u, s) /\ NotIn(u, t)
             \/ NotIn(u, s) /\ OnceIn(u, t)
  <2>1. PICK i \in R : \A j \in R : st[j] = u <=> j = i
    BY <1>1, <1>4 DEF OnceIn
  <2>2. CASE i \in P
    <3>1. OnceIn(u, s)
      BY <1>1, <2>1, <2>2 DEF OnceIn
    <3>2. NotIn(u, t)
      BY <1>1, <2>1, <2>2 DEF NotIn
    <3> QED
      BY <3>1, <3>2
  <2>3. CASE i \notin P
    <3>1. PICK k \in Q : i = at(k)
      BY <1>2, <2>3
    <3>2. \A j \in Q : t[j] = u <=> j = k
      BY <1>1, <2>1, <3>1
    <3>3. OnceIn(u, t)
      BY <1>1, <3>2 DEF OnceIn
    <3>4. NotIn(u, s)
      BY <1>1, <2>1, <2>3 DEF NotIn
    <3> QED
      BY <3>3, <3>4
  <2> QED
    BY <2>2, <2>3
<1>5. ASSUME OnceIn(u, s), NotIn(u, t) PROVE OnceIn(u, st)
  <2>1. PICK i \in P : \A j \in P : s[j] = u <=> j = i
    BY <1>1, <1>5 DEF OnceIn
  <2>2. ASSUME NEW j \in R PROVE st[j] = u <=> j = i
    <3>1. CASE j \in P
      BY <1>1, <2>1, <3>1
    <3>2. CASE j \notin P
      BY <1>1, <1>2, <1>5, <2>1, <3>2 DEF NotIn
    <3> QED
      BY <3>1, <3>2
  <2> QED
    BY <1>1, <2>1, <2>2 DEF OnceIn
<1>6. ASSUME NotIn(u, s), OnceIn(u, t) PROVE OnceIn(u, st)
  <2>1. PICK k \in Q : \A j \in Q : t[j] = u <=> j = k
    BY <1>1, <1>6 DEF OnceIn
  <2>2. ASSUME NEW j \in R PROVE st[j] = u <=> j = at(k)
    <3>1. CASE j \in P
      BY <1>1, <1>6, <2>1, <3>1 DEF NotIn
    <3>2. CASE j \notin P
      <4>1. PICK l \in Q : j = at(l)
        BY <1>2, <3>2
      <4> QED
        BY <1>1, <2>1, <4>1
    <3> QED
      BY <3>1, <3>2
  <2> QED
    BY <1>1, <2>1, <2>2 DEF OnceIn
<1> QED
  BY <1>3, <1>4, <1>5, <1>6 DEF st

\* A sequence of one, and the empty one.
LEMMA Single ==
    ASSUME NEW u, NEW v
    PROVE  /\ OnceIn(u, <<v>>) <=> u = v
           /\ NotIn(u, <<v>>) <=> u # v
           /\ NotIn(u, << >>) /\ ~OnceIn(u, << >>)
BY DEF OnceIn, NotIn

-----------------------------------------------------------------------------
(* The responses.  A graceful shutdown is noticed between two requests: all *)
(* that were read have their response then, and the one at hand gets it     *)
(* only on the way back to that place.                                      *)

ResponseTo(k) == [kind |-> "response", of |-> k]

Working == {"handling", "continuing", "awaiting", "writing", "spinning"}

Frames == [kind : {"continue", "response", "surplus"}, of : Nat]

AnswerInv ==
    /\ \A i \in DOMAIN out : out[i].of \in 1..Current
    /\ \A k \in 1..Current : k < Current \/ state \in {"peeking", "found"} => Answered(k)
    /\ state \in Working => NotIn(Response, out)
    /\ exit # "none" => state = "closed"
    /\ ShutdownAnswersAll

\* A step that writes nothing and reads no request.
LEMMA AnswerSame ==
    ASSUME AnswerInv, UNCHANGED <<out, requests>>,
           \/ UNCHANGED <<state, exit>>
           \/ state = "peeking" /\ state' = "found" /\ exit' = exit
           \/ state \in Working /\ state' \in Working /\ exit' = exit
           \/ state' = "closed" /\ exit' = "failed"
           \/ state = "peeking" /\ state' = "closed" /\ exit' = "shutdown"
    PROVE  AnswerInv'
<1>1. Current' = Current /\ \A k : Answered(k)' = Answered(k)
  BY DEF Current, Answered
<1>2. /\ \A i \in DOMAIN out' : out'[i].of \in 1..Current'
      /\ \A k \in 1..Current' : k < Current' \/ state' \in {"peeking", "found"} => Answered(k)'
  BY <1>1 DEF AnswerInv, Working
<1>3. state' \in Working => NotIn(Response, out)'
  BY <1>1 DEF AnswerInv, Working, NotIn, Response
<1>4. exit' # "none" => state' = "closed"
  BY DEF AnswerInv, Working
<1>5. ShutdownAnswersAll'
  <2>1. CASE state = "peeking" /\ exit' = "shutdown"
    BY <1>1, <2>1 DEF AnswerInv, ShutdownAnswersAll, Current
  <2>2. CASE exit' = exit
    BY <1>1, <2>2 DEF AnswerInv, ShutdownAnswersAll
  <2>3. CASE exit' = "failed"
    BY <2>3 DEF ShutdownAnswersAll
  <2> QED
    BY <2>1, <2>2, <2>3
<1> QED
  BY <1>2, <1>3, <1>4, <1>5 DEF AnswerInv

\* What is written for the request at hand, behind what has been written before.
LEMMA WrittenLast ==
    ASSUME TypeInv, AnswerInv, state \in Working, Current # 0,
           NEW frames \in Seq(Frames), out' = out \o frames, requests' = requests,
           \A k \in Nat : k # Current => NotIn(ResponseTo(k), frames),
           \A i \in DOMAIN frames : frames[i].of = Current
    PROVE  /\ \A i \in DOMAIN out' : out'[i].of \in 1..Current'
           /\ \A k \in 1..Current : k # Current => Answered(k)'
           /\ OnceIn(Response, frames) => Answered(Current)'
           /\ NotIn(Response, frames) => NotIn(Response, out)'
<1>1. /\ out \in Seq(Frames) /\ Current \in Nat /\ Current' = Current
      /\ Current \in 1..Current
  BY DEF TypeInv, TypeOK, Frames, Current
<1>2. \A k : Answered(k) <=> OnceIn(ResponseTo(k), out)
  BY DEF Answered, OnceIn, ResponseTo
<1>3. \A k : Answered(k)' <=> OnceIn(ResponseTo(k), out')
  BY DEF Answered, OnceIn, ResponseTo
<1>4. Response = ResponseTo(Current) /\ Response' = Response
  BY <1>1 DEF Response, ResponseTo
<1>5. NotIn(Response, out) /\ \A k \in 1..Current : k # Current => Answered(k)
  BY <1>1 DEF AnswerInv
<1>6. ASSUME NEW k \in 1..Current, k # Current PROVE Answered(k)'
  <2>1. OnceIn(ResponseTo(k), out) /\ NotIn(ResponseTo(k), frames)
    BY <1>1, <1>2, <1>5, <1>6
  <2>2. OnceIn(ResponseTo(k), out \o frames)
    BY <1>1, <2>1, Concatenated
  <2> QED
    BY <1>3, <2>2
<1>7. ASSUME OnceIn(Response, frames) PROVE Answered(Current)'
  <2>1. OnceIn(Response, out \o frames)
    BY <1>1, <1>5, <1>7, Concatenated
  <2> QED
    BY <1>1, <1>3, <1>4, <2>1
<1>8. ASSUME NotIn(Response, frames) PROVE NotIn(Response, out)'
  <2>1. NotIn(Response, out \o frames)
    BY <1>1, <1>5, <1>8, Concatenated
  <2> QED
    BY <1>4, <2>1
<1>9. ASSUME NEW i \in DOMAIN out' PROVE out'[i].of \in 1..Current'
  <2>1. /\ Len(out) \in Nat /\ Len(frames) \in Nat /\ i \in 1..Len(out) + Len(frames)
        /\ out'[i] = IF i <= Len(out) THEN out[i] ELSE frames[i - Len(out)]
    BY <1>1
  <2>2. CASE i <= Len(out)
    <3>1. i \in DOMAIN out
      BY <1>1, <2>1, <2>2
    <3> QED
      BY <1>1, <2>1, <2>2, <3>1 DEF AnswerInv
  <2>3. CASE ~(i <= Len(out))
    <3>1. i - Len(out) \in DOMAIN frames
      BY <2>1, <2>3
    <3> QED
      BY <1>1, <2>1, <2>3, <3>1
  <2> QED
    BY <2>2, <2>3
<1> QED
  BY <1>6, <1>7, <1>8, <1>9

\* The response, and what may follow it.
LEMMA ResponseLast ==
    ASSUME TypeInv, AnswerInv, state = "writing", NEW more \in {<< >>, <<[kind |-> "surplus", of |-> Current]>>},
           Written(<<Response>> \o more)
    PROVE  AnswerInv'
<1> DEFINE surplus == [kind |-> "surplus", of |-> Current]
           frames == <<Response>> \o more
<1>1. Current \in Nat /\ Current # 0 /\ surplus \in Frames /\ Response \in Frames
      /\ state \in Working
  BY DEF TypeInv, TypeOK, Current, Response, Frames, Working
<1>2. \A k : surplus # ResponseTo(k) /\ (Response = ResponseTo(k) <=> k = Current)
  BY DEF ResponseTo, Response
<1>3. surplus.of = Current /\ Response.of = Current
  BY DEF Response
<1> HIDE DEF surplus
<1>4. more = << >> \/ more = <<surplus>>
  BY DEF surplus
<1>5. more \in Seq(Frames) /\ \A k : NotIn(ResponseTo(k), more)
  <2>1. CASE more = << >>
    BY <2>1, Single
  <2>2. CASE more = <<surplus>>
    BY <1>1, <1>2, <2>2, Single
  <2> QED
    BY <1>4, <2>1, <2>2
<1>6. <<Response>> \in Seq(Frames)
  BY <1>1
<1>7. /\ frames \in Seq(Frames) /\ OnceIn(Response, frames)
      /\ \A k \in Nat : k # Current => NotIn(ResponseTo(k), frames)
  <2>1. frames \in Seq(Frames)
    BY <1>5, <1>6
  <2>2. OnceIn(Response, frames)
    <3>1. OnceIn(Response, <<Response>>) /\ NotIn(Response, more)
      BY <1>2, <1>5, Single
    <3> QED
      BY <1>5, <1>6, <3>1, Concatenated
  <2>3. ASSUME NEW k \in Nat, k # Current PROVE NotIn(ResponseTo(k), frames)
    BY <1>2, <1>5, <1>6, <2>3, Single, Concatenated
  <2> QED
    BY <2>1, <2>2, <2>3
<1>8. \A i \in DOMAIN frames : frames[i].of = Current
  <2>1. CASE more = << >>
    BY <1>3, <2>1
  <2>2. CASE more = <<surplus>>
    BY <1>3, <2>2
  <2> QED
    BY <1>4, <2>1, <2>2
<1> HIDE DEF frames
<1>9. out' = out \o frames /\ requests' = requests /\ exit' = exit /\ state' = "peeking"
  BY DEF Written, frames
<1>10. /\ \A i \in DOMAIN out' : out'[i].of \in 1..Current'
       /\ \A k \in 1..Current : k # Current => Answered(k)'
       /\ Answered(Current)'
  BY <1>1, <1>7, <1>8, <1>9, WrittenLast
<1>11. Current' = Current
  BY <1>9 DEF Current
<1>12. exit = "none"
  BY DEF AnswerInv
<1> QED
  BY <1>9, <1>10, <1>11, <1>12 DEF AnswerInv, Working, ShutdownAnswersAll

\* A request is read when all before it have their response.
LEMMA AnswerRead == ASSUME TypeInv, AnswerInv, ReadRequest PROVE AnswerInv'
<1>1. /\ requests \in Seq(Units) /\ buffer # << >> /\ buffer[1] \in Units
      /\ requests' = Append(requests, buffer[1]) /\ out' = out /\ exit' = exit
      /\ state = "found" /\ state' = "handling"
  BY DEF TypeInv, TypeOK, ReadRequest
<1>2. Current \in Nat /\ Current' = Current + 1
  BY <1>1 DEF Current
<1>3. \A i \in DOMAIN out' : out'[i].of \in 1..Current' /\ out'[i].of # Current'
  BY <1>1, <1>2 DEF AnswerInv
<1>4. NotIn(Response, out)'
  BY <1>1, <1>3 DEF NotIn, Response
<1>5. \A k \in 1..Current : Answered(k)'
  BY <1>1 DEF AnswerInv, Answered
<1>6. exit = "none"
  BY <1>1 DEF AnswerInv
<1> QED
  BY <1>1, <1>2, <1>3, <1>4, <1>5, <1>6 DEF AnswerInv, Working, ShutdownAnswersAll

\* The other line that is written is not a response.
LEMMA AnswerContinue == ASSUME TypeInv, AnswerInv, WriteContinue PROVE AnswerInv'
<1> DEFINE line == [kind |-> "continue", of |-> Current]
<1>1. /\ state = "continuing" /\ state' \in {"handling", "awaiting"} /\ requests' = requests
      /\ exit' = exit /\ out' = Append(out, line)
  BY DEF WriteContinue, ServeFrom
<1>2. out \in Seq(Frames) /\ Current \in Nat /\ Current # 0 /\ Current' = Current
  BY <1>1 DEF TypeInv, TypeOK, Frames, Current
<1>3. line \in Frames /\ line.of = Current /\ \A k : line # ResponseTo(k)
  BY <1>2 DEF Frames, ResponseTo
<1> HIDE DEF line
<1>4. out' = out \o <<line>> /\ <<line>> \in Seq(Frames)
  BY <1>1, <1>2, <1>3
<1>5. /\ \A k : NotIn(ResponseTo(k), <<line>>)
      /\ \A i \in DOMAIN <<line>> : <<line>>[i].of = Current
  BY <1>3, Single
<1>6. Response = ResponseTo(Current)
  BY DEF Response, ResponseTo
<1>7. /\ \A i \in DOMAIN out' : out'[i].of \in 1..Current'
      /\ \A k \in 1..Current : k # Current => Answered(k)'
      /\ NotIn(Response, out)'
  BY <1>1, <1>2, <1>4, <1>5, <1>6, WrittenLast DEF Working
<1>8. exit = "none"
  BY <1>1 DEF AnswerInv
<1> QED
  BY <1>1, <1>2, <1>7, <1>8 DEF AnswerInv, ShutdownAnswersAll

\* Every step keeps the responses in order.
LEMMA AnswerStep == ASSUME TypeInv, AnswerInv, [Next]_vars PROVE AnswerInv'
<1>1. CASE WriteWhole \/ WriteLong \/ WriteEcho
  <2>1. state = "writing"
    BY <1>1 DEF WriteWhole, WriteLong, WriteEcho
  <2>2. CASE Written(<<Response>>)
    <3>1. <<Response>> \o << >> = <<Response>>
      OBVIOUS
    <3> QED
      BY <2>1, <2>2, <3>1, ResponseLast
  <2>3. CASE WriteLong
    BY <2>1, <2>3, ResponseLast DEF WriteLong
  <2> QED
    BY <1>1, <2>2, <2>3 DEF WriteWhole, WriteEcho
<1>2. CASE TakeReadRequest
  BY <1>2, AnswerSame DEF TakeReadRequest, ServeFrom, Working
<1>3. CASE PeekRequest \/ TakeResult \/ WriteShort \/ ReadChunk
  BY <1>3, AnswerSame DEF PeekRequest, TakeResult, WriteShort, ReadChunk, Working
<1>4. CASE TakeFailure \/ Fails \/ NoticeShutdown
  BY <1>4, AnswerSame DEF TakeFailure, Fails, NoticeShutdown, Close
<1>5. CASE \E k \in DOMAIN body : Tasks(k)
  <2>1. Keep
    BY <1>5 DEF Tasks, DropBody, FinishHandler, EndDrain, PollBytes, PollEmpty
  <2> QED
    BY <2>1, AnswerSame DEF Keep, connVars
<1>6. CASE AnnounceShutdown \/ UNCHANGED vars
  BY <1>6, AnswerSame DEF AnnounceShutdown, vars, connVars
<1> QED
  BY <1>1, <1>2, <1>3, <1>4, <1>5, <1>6, AnswerContinue, AnswerRead DEF Next, Connection

\* Whenever the shutdown is announced: the connection is closed for it only when every
\* request that has been read has its response, and has it once.
THEOREM ShutdownAnswers == Spec => []ShutdownAnswersAll
<1>1. Init => TypeInv /\ AnswerInv
  BY InitType DEF Init, AnswerInv, Working, ShutdownAnswersAll, Current
<1>2. TypeInv /\ AnswerInv /\ [Next]_vars => (TypeInv /\ AnswerInv)'
  BY TypeStep, AnswerStep
<1>3. AnswerInv => ShutdownAnswersAll
  BY DEF AnswerInv
<1> QED
  BY <1>1, <1>2, <1>3, PTL DEF Spec

-----------------------------------------------------------------------------
(* The reads of bodies.  Whoever has sent a buffer to the connection task   *)
(* has nothing unread and does nothing before the buffer is back, so what   *)
(* was missing of the body when it asked is missing when it is answered.    *)

\* The reader of body k waits, and there is room for n units in the body.
Asks(k, n) ==
    /\ k \in DOMAIN body /\ body[k].at = "asked" /\ body[k].buf = << >>
    /\ Len(body[k].got) + n <= body[k].size

Serves == {"continuing", "awaiting"}

AskInv ==
    /\ \A i \in DOMAIN req_body_rx : Asks(req_body_rx[i].of, req_body_rx[i].amount)
    /\ \A i, j \in DOMAIN req_body_rx : req_body_rx[i].of = req_body_rx[j].of => i = j
    /\ state \in Serves =>
           /\ Asks(serving.of, serving.amount + Len(serving.part))
           /\ \A i \in DOMAIN req_body_rx : req_body_rx[i].of # serving.of
    /\ state \notin Serves => serving = NotServing
    /\ state = "continuing" => serving.part = << >>
    /\ state = "awaiting" => buffer = << >>

\* A body with what is in its buffer: a new buffer holds nothing of anybody's.
Within(b) ==
    \/ \A i \in DOMAIN b.buf : b.buf[i] = Stale
    \/ Len(b.got) + Len(b.buf) <= b.size

WithinInv == \A k \in DOMAIN body : Within(body[k])

\* Nothing of a body changes but its holder.
Untouched(k) ==
    /\ body'[k].at = body[k].at /\ body'[k].buf = body[k].buf
    /\ body'[k].got = body[k].got /\ body'[k].size = body[k].size

LEMMA BodyType ==
    ASSUME TypeInv
    PROVE  /\ body \in Seq(Bodies) /\ Len(body) \in Nat /\ DOMAIN body = 1..Len(body)
           /\ \A k \in DOMAIN body :
                  /\ body[k] \in Bodies /\ body[k].got \in Seq(Units)
                  /\ body[k].buf \in Seq(Units) /\ body[k].size \in Nat
                  /\ Len(body[k].got) \in Nat /\ Len(body[k].buf) \in Nat
<1>1. body \in Seq(Bodies)
  BY DEF TypeInv, TypeOK, Bodies
<1>2. \A k \in DOMAIN body : body[k] \in Bodies
  BY <1>1
<1> QED
  BY <1>1, <1>2 DEF Bodies

\* The first read request, and the others.
LEMMA FirstAsk ==
    ASSUME TypeInv, req_body_rx # << >>
    PROVE  /\ Head(req_body_rx) = req_body_rx[1] /\ 1 \in DOMAIN req_body_rx
           /\ Head(req_body_rx).of \in Nat /\ Head(req_body_rx).amount \in Nat
           /\ \A i \in DOMAIN Tail(req_body_rx) :
                  i + 1 \in DOMAIN req_body_rx /\ i + 1 # 1 /\ Tail(req_body_rx)[i] = req_body_rx[i + 1]
           /\ \A i, j \in DOMAIN Tail(req_body_rx) : i + 1 = j + 1 => i = j
<1>1. req_body_rx \in Seq(ReadReq)
  BY DEF TypeInv, TypeOK, ReadReq
<1>2. Head(req_body_rx) \in ReadReq
  BY <1>1, HeadTailProperties
<1> QED
  BY <1>1, <1>2 DEF ReadReq

\* Every reader that waits goes on waiting.
LEMMA AsksKept ==
    ASSUME TypeInv, AskInv, UNCHANGED <<req_body_rx, serving>>,
           \/ state' = state /\ buffer' = buffer
           \/ state \notin Serves /\ state' \notin Serves,
           \A k \in DOMAIN body : k \in DOMAIN body' /\ (body[k].at = "asked" => Untouched(k))
    PROVE  AskInv'
<1>1. ASSUME NEW k, NEW n, Asks(k, n) PROVE Asks(k, n)'
  BY <1>1 DEF Asks, Untouched
<1>2. /\ \A i \in DOMAIN req_body_rx' : Asks(req_body_rx[i].of, req_body_rx[i].amount)'
      /\ \A i, j \in DOMAIN req_body_rx' : req_body_rx'[i].of = req_body_rx'[j].of => i = j
  BY <1>1 DEF AskInv, Asks
<1>3. CASE state' = state /\ buffer' = buffer
  <2>1. state' \in Serves => Asks(serving.of, serving.amount + Len(serving.part))'
    BY <1>1, <1>3 DEF AskInv, Asks
  <2> QED
    BY <1>2, <1>3, <2>1 DEF AskInv
<1>4. CASE state \notin Serves /\ state' \notin Serves
  BY <1>2, <1>4 DEF AskInv, Serves, NotServing
<1> QED
  BY <1>3, <1>4

\* A reader asks: it was not waiting.
LEMMA AskAdded ==
    ASSUME TypeInv, AskInv, NEW k \in DOMAIN body, NEW n \in Nat,
           body[k].at = "here", body[k].buf = << >>, Len(body[k].got) + n <= body[k].size,
           body' = [body EXCEPT ![k].at = "asked"],
           req_body_rx' = Append(req_body_rx, [of |-> k, amount |-> n]),
           UNCHANGED <<serving, state, buffer>>
    PROVE  AskInv'
<1>1. req_body_rx \in Seq(ReadReq) /\ k \in Nat /\ [of |-> k, amount |-> n] \in ReadReq
  BY BodyType DEF TypeInv, TypeOK, ReadReq
<1>2. /\ DOMAIN body' = DOMAIN body
      /\ body'[k] = [body[k] EXCEPT !.at = "asked"]
      /\ \A i \in DOMAIN body : i # k => body'[i] = body[i]
  BY BodyType
<1>3. Asks(k, n)'
  BY <1>2, BodyType DEF Asks, Bodies
<1>4. ASSUME NEW j, NEW m, Asks(j, m) PROVE j # k /\ Asks(j, m)'
  BY <1>2, <1>4 DEF Asks
<1>5. PICK len : /\ len \in Nat /\ DOMAIN req_body_rx = 1..len
                 /\ DOMAIN req_body_rx' = 1..(len + 1)
                 /\ req_body_rx'[len + 1].of = k /\ req_body_rx'[len + 1].amount = n
                 /\ \A i \in 1..len : req_body_rx'[i] = req_body_rx[i]
  <2> DEFINE ask == [of |-> k, amount |-> n]
  <2>0. ask.of = k /\ ask.amount = n
    OBVIOUS
  <2>1. /\ Len(req_body_rx) \in Nat /\ DOMAIN req_body_rx = 1..Len(req_body_rx)
        /\ DOMAIN req_body_rx' = 1..(Len(req_body_rx) + 1)
        /\ req_body_rx'[Len(req_body_rx) + 1] = ask
        /\ \A i \in 1..Len(req_body_rx) : req_body_rx'[i] = req_body_rx[i]
    BY <1>1 DEF ReadReq
  <2> HIDE DEF ask
  <2> QED
    BY <2>0, <2>1
<1>6. \A i \in 1..len : Asks(req_body_rx[i].of, req_body_rx[i].amount) /\ req_body_rx[i].of # k
  BY <1>4, <1>5 DEF AskInv
<1>7. \A i \in 1..(len + 1) : i \in 1..len \/ i = len + 1
  BY <1>5
<1>8. ASSUME NEW i \in DOMAIN req_body_rx' PROVE Asks(req_body_rx[i].of, req_body_rx[i].amount)'
  <2>1. CASE i = len + 1
    BY <1>3, <1>5, <2>1 DEF Asks
  <2>2. CASE i \in 1..len
    BY <1>4, <1>5, <1>6, <2>2 DEF Asks
  <2> QED
    BY <1>5, <1>7, <2>1, <2>2
<1>9. ASSUME NEW i \in DOMAIN req_body_rx', NEW j \in DOMAIN req_body_rx',
             req_body_rx'[i].of = req_body_rx'[j].of
      PROVE  i = j
  <2>1. \A l \in 1..len : req_body_rx'[l].of # k
    BY <1>5, <1>6
  <2>2. req_body_rx'[len + 1].of = k
    BY <1>5
  <2>3. CASE i \in 1..len /\ j \in 1..len
    BY <1>5, <1>9, <2>3 DEF AskInv
  <2> QED
    BY <1>5, <1>7, <1>9, <2>1, <2>2, <2>3
<1>10. state \in Serves =>
           /\ Asks(serving.of, serving.amount + Len(serving.part))'
           /\ serving.of # k
           /\ \A i \in DOMAIN req_body_rx : req_body_rx[i].of # serving.of
  BY <1>4 DEF AskInv, Asks
<1>11. state \in Serves => \A i \in DOMAIN req_body_rx' : req_body_rx'[i].of # serving.of
  <2>1. ASSUME state \in Serves, NEW i \in 1..(len + 1) PROVE req_body_rx'[i].of # serving.of
    <3>1. CASE i = len + 1
      BY <1>5, <1>10, <2>1, <3>1
    <3>2. CASE i \in 1..len
      BY <1>5, <1>10, <2>1, <3>2
    <3> QED
      BY <1>7, <3>1, <3>2
  <2> QED
    BY <1>5, <2>1
<1>12. UNCHANGED <<serving, state, buffer>>
  OBVIOUS
<1>13. state' \in Serves => Asks(serving.of, serving.amount + Len(serving.part))'
  BY <1>10, <1>12
<1> QED
  BY <1>8, <1>9, <1>11, <1>12, <1>13 DEF AskInv

\* The only one that is answered is the one that is served.
LEMMA Answering ==
    ASSUME TypeInv, NEW k \in DOMAIN body, NEW units \in Seq(Units), Answer(k, units)
    PROVE  /\ DOMAIN body' = DOMAIN body
           /\ body'[k].buf = units /\ body'[k].got = body[k].got /\ body'[k].size = body[k].size
           /\ \A i \in DOMAIN body : i # k => body'[i] = body[i]
<1>1. body[k] \in Bodies
  BY BodyType
<1>2. body' = [i \in DOMAIN body |-> IF i = k THEN [body[k] EXCEPT !.at = "answered", !.buf = units]
                                     ELSE body[i]]
  BY DEF Answer
<1>3. body'[k] = [body[k] EXCEPT !.at = "answered", !.buf = units]
  BY <1>2
<1> QED
  BY <1>1, <1>2, <1>3 DEF Bodies

\* A read is answered from the connection's buffer, or waits for more.
LEMMA AskServed ==
    ASSUME TypeInv, NEW k \in Nat, NEW amount \in Nat, ServeFrom(k, amount), Asks(k, amount),
           \A i \in DOMAIN req_body_rx' :
               Asks(req_body_rx'[i].of, req_body_rx'[i].amount) /\ req_body_rx'[i].of # k,
           \A i, j \in DOMAIN req_body_rx' : req_body_rx'[i].of = req_body_rx'[j].of => i = j
    PROVE  AskInv'
<1>1. buffer \in Seq(Units) /\ Len(buffer) \in Nat
  BY DEF TypeInv, TypeOK
<1>2. CASE buffer # << >> /\ Len(buffer) >= amount
  <2>1. Answer(k, Front(buffer, amount)) /\ state' = "handling" /\ serving' = NotServing
    BY <1>2 DEF ServeFrom
  <2>2. Front(buffer, amount) \in Seq(Units) /\ k \in DOMAIN body
    BY <1>1, Parts DEF Asks
  <2>3. DOMAIN body' = DOMAIN body /\ \A i \in DOMAIN body : i # k => body'[i] = body[i]
    BY <2>1, <2>2, Answering
  <2>4. \A i \in DOMAIN req_body_rx' : Asks(req_body_rx[i].of, req_body_rx[i].amount)'
    BY <2>3 DEF Asks
  <2> QED
    BY <2>1, <2>4 DEF AskInv, Serves
<1>3. CASE ~(buffer # << >> /\ Len(buffer) >= amount)
  <2>1. /\ serving' = [of |-> k, amount |-> amount - Len(buffer), part |-> buffer]
        /\ buffer' = << >> /\ state' = "awaiting" /\ body' = body
    BY <1>3 DEF ServeFrom
  <2>2. serving'.of = k /\ serving'.amount + Len(serving'.part) = amount
    BY <1>1, <2>1
  <2>3. Asks(serving.of, serving.amount + Len(serving.part))'
    BY <2>1, <2>2 DEF Asks
  <2>4. \A i \in DOMAIN req_body_rx' : Asks(req_body_rx[i].of, req_body_rx[i].amount)'
    BY <2>1 DEF Asks
  <2> QED
    BY <2>1, <2>2, <2>3, <2>4 DEF AskInv, Serves
<1> QED
  BY <1>2, <1>3

\* The connection task turns to a reader, and to no other.
LEMMA AskTaken ==
    ASSUME TypeInv, AskInv, TakeReadRequest \/ WriteContinue
    PROVE  \E k \in Nat, amount \in Nat :
               /\ Asks(k, amount)
               /\ \A i \in DOMAIN req_body_rx' :
                      Asks(req_body_rx'[i].of, req_body_rx'[i].amount) /\ req_body_rx'[i].of # k
               /\ \A i, j \in DOMAIN req_body_rx' : req_body_rx'[i].of = req_body_rx'[j].of => i = j
               /\ serving.part = << >>
               /\ \/ ServeFrom(k, amount)
                  \/ /\ serving' = [of |-> k, amount |-> amount, part |-> << >>]
                     /\ state' = "continuing" /\ UNCHANGED <<buffer, body>>
<1>1. CASE TakeReadRequest
  <2>1. /\ req_body_rx # << >> /\ req_body_rx' = Tail(req_body_rx) /\ state = "handling"
    BY <1>1 DEF TakeReadRequest
  <2>2. PICK req : req = Head(req_body_rx)
    OBVIOUS
  <2>3. req.of \in Nat /\ req.amount \in Nat /\ Asks(req.of, req.amount)
    BY <2>1, <2>2, FirstAsk DEF AskInv
  <2>4. PICK amount \in Nat : amount = Smaller(req.amount, BodyBuf) /\ amount <= req.amount
    BY <2>3, H1Assumption DEF Smaller, H1Assumption
  <2>5. Asks(req.of, amount)
    BY <2>3, <2>4, BodyType DEF Asks
  <2>6. ASSUME NEW i \in DOMAIN req_body_rx'
        PROVE  Asks(req_body_rx'[i].of, req_body_rx'[i].amount) /\ req_body_rx'[i].of # req.of
    <3>1. /\ i + 1 \in DOMAIN req_body_rx /\ i + 1 # 1 /\ req_body_rx'[i] = req_body_rx[i + 1]
          /\ req = req_body_rx[1] /\ 1 \in DOMAIN req_body_rx
      BY <2>1, <2>2, FirstAsk
    <3> QED
      BY <3>1 DEF AskInv
  <2>7. ASSUME NEW i \in DOMAIN req_body_rx', NEW j \in DOMAIN req_body_rx',
               req_body_rx'[i].of = req_body_rx'[j].of
        PROVE  i = j
    <3>1. /\ i + 1 \in DOMAIN req_body_rx /\ req_body_rx'[i] = req_body_rx[i + 1]
          /\ j + 1 \in DOMAIN req_body_rx /\ req_body_rx'[j] = req_body_rx[j + 1]
          /\ i + 1 = j + 1 => i = j
      BY <2>1, FirstAsk
    <3> QED
      BY <2>7, <3>1 DEF AskInv
  <2>8. serving.part = << >>
    BY <2>1 DEF AskInv, Serves, NotServing
  <2>9. \/ ServeFrom(req.of, amount)
        \/ /\ serving' = [of |-> req.of, amount |-> amount, part |-> << >>]
           /\ state' = "continuing" /\ UNCHANGED <<buffer, body>>
    BY <1>1, <2>2, <2>4 DEF TakeReadRequest
  <2> QED
    BY <2>3, <2>5, <2>6, <2>7, <2>8, <2>9
<1>2. CASE WriteContinue
  <2>1. state = "continuing" /\ req_body_rx' = req_body_rx /\ ServeFrom(serving.of, serving.amount)
    BY <1>2 DEF WriteContinue
  <2>2. serving.part = << >> /\ serving.of \in Nat /\ serving.amount \in Nat
    BY <2>1 DEF AskInv, TypeInv, TypeOK
  <2>3. Asks(serving.of, serving.amount + 0) /\ serving.amount + 0 = serving.amount
    BY <2>1, <2>2 DEF AskInv, Serves
  <2>4. /\ \A i \in DOMAIN req_body_rx' : Asks(req_body_rx'[i].of, req_body_rx'[i].amount)
                                          /\ req_body_rx'[i].of # serving.of
        /\ \A i, j \in DOMAIN req_body_rx' : req_body_rx'[i].of = req_body_rx'[j].of => i = j
    BY <2>1 DEF AskInv, Serves
  <2> QED
    BY <2>1, <2>2, <2>3, <2>4
<1> QED
  BY <1>1, <1>2

\* The steps that serve reads.
LEMMA AskServing ==
    ASSUME TypeInv, AskInv, TakeReadRequest \/ WriteContinue PROVE AskInv'
<1>1. PICK k \in Nat, amount \in Nat :
               /\ Asks(k, amount)
               /\ \A i \in DOMAIN req_body_rx' :
                      Asks(req_body_rx'[i].of, req_body_rx'[i].amount) /\ req_body_rx'[i].of # k
               /\ \A i, j \in DOMAIN req_body_rx' : req_body_rx'[i].of = req_body_rx'[j].of => i = j
               /\ serving.part = << >>
               /\ \/ ServeFrom(k, amount)
                  \/ /\ serving' = [of |-> k, amount |-> amount, part |-> << >>]
                     /\ state' = "continuing" /\ UNCHANGED <<buffer, body>>
  BY AskTaken
<1>2. CASE ServeFrom(k, amount)
  BY <1>1, <1>2, AskServed
<1>3. CASE /\ serving' = [of |-> k, amount |-> amount, part |-> << >>]
           /\ state' = "continuing" /\ UNCHANGED <<buffer, body>>
  <2>1. serving'.of = k /\ serving'.part = << >> /\ serving'.amount + Len(serving'.part) = amount
    BY <1>3
  <2>2. \A i \in DOMAIN req_body_rx' : Asks(req_body_rx[i].of, req_body_rx[i].amount)'
    BY <1>1, <1>3 DEF Asks
  <2>3. Asks(serving.of, serving.amount + Len(serving.part))'
    BY <1>1, <1>3, <2>1 DEF Asks
  <2> QED
    BY <1>1, <1>3, <2>1, <2>2, <2>3 DEF AskInv, Serves
<1> QED
  BY <1>1, <1>2, <1>3

\* The answer that was waited for.
LEMMA AskAnswered == ASSUME TypeInv, AskInv, ReadChunk PROVE AskInv'
<1>1. /\ state = "awaiting" /\ state' = "handling" /\ serving' = NotServing
      /\ req_body_rx' = req_body_rx
  BY DEF ReadChunk
<1>2. PICK n \in 1..BufferSize : n <= Len(inbound) /\ Answer(serving.of, Chunk(Front(inbound, n)))
  BY DEF ReadChunk
<1>3. serving.of \in DOMAIN body /\ \A i \in DOMAIN req_body_rx : req_body_rx[i].of # serving.of
  BY <1>1 DEF AskInv, Serves, Asks
<1>4. Chunk(Front(inbound, n)) \in Seq(Units)
  <2>1. n \in Nat /\ inbound \in Seq(Units) /\ serving.part \in Seq(Units) /\ serving.amount \in Nat
    BY H1Assumption DEF H1Assumption, TypeInv, TypeOK
  <2>2. Front(Front(inbound, n), serving.amount) \in Seq(Units)
    BY <2>1, Parts
  <2> QED
    BY <2>1, <2>2 DEF Chunk
<1>5. DOMAIN body' = DOMAIN body /\ \A i \in DOMAIN body : i # serving.of => body'[i] = body[i]
  BY <1>2, <1>3, <1>4, Answering
<1>6. \A i \in DOMAIN req_body_rx' : Asks(req_body_rx[i].of, req_body_rx[i].amount)'
  BY <1>1, <1>3, <1>5 DEF AskInv, Asks
<1> QED
  BY <1>1, <1>6 DEF AskInv, Serves

\* What a step of a handler or a reader does to the bodies: nothing but to the holder,
\* or it reads, or it is told that the connection is closed, or it asks.
LEMMA TaskEffect ==
    ASSUME TypeInv, NEW k \in DOMAIN body, Tasks(k)
    PROVE  /\ DOMAIN body' = DOMAIN body
           /\ UNCHANGED <<stream, inbound, connVars, out>>
           /\ \/ req_body_rx' = req_body_rx /\ \A i \in DOMAIN body : Untouched(i)
              \/ req_body_rx' = req_body_rx /\ \E want \in Nat : PollBytes(k, want)
              \/ /\ body' = [body EXCEPT ![k].at = "failed"] /\ body[k].at = "here"
                 /\ req_body_rx' = req_body_rx
              \/ \E want \in Nat : /\ PollEmpty(k, want)
                                   /\ body' = [body EXCEPT ![k].at = "asked"]
                                   /\ req_body_rx' = Append(req_body_rx, [of |-> k, amount |-> Wanted(k, want)])
<1>1. DOMAIN body' = DOMAIN body
  BY TasksBody, BodyType
<1>2. UNCHANGED <<stream, inbound, connVars, out>>
  BY DEF Tasks, DropBody, FinishHandler, EndDrain, PollBytes, PollEmpty, Keep
<1>3. ASSUME NEW h, body' = [body EXCEPT ![k].holder = h] PROVE \A i \in DOMAIN body : Untouched(i)
  BY <1>3, BodyType DEF Untouched, Bodies
<1>4. CASE DropBody(k) \/ FinishHandler(k) \/ EndDrain(k)
  <2>1. req_body_rx' = req_body_rx
    BY <1>4 DEF DropBody, FinishHandler, EndDrain
  <2>2. \E h : body' = [body EXCEPT ![k].holder = h]
    BY <1>4 DEF DropBody, FinishHandler, EndDrain, Dropped
  <2> QED
    BY <1>1, <1>2, <1>3, <2>1, <2>2
<1>5. \A want \in 1..MaxRead : want \in Nat
  BY H1Assumption DEF H1Assumption
<1>6. ASSUME NEW want \in 1..MaxRead, PollBytes(k, want) PROVE req_body_rx' = req_body_rx
  BY <1>6 DEF PollBytes
<1>7. ASSUME NEW want \in 1..MaxRead, PollEmpty(k, want)
      PROVE  \/ /\ body' = [body EXCEPT ![k].at = "failed"] /\ body[k].at = "here"
                /\ req_body_rx' = req_body_rx
             \/ /\ body' = [body EXCEPT ![k].at = "asked"]
                /\ req_body_rx' = Append(req_body_rx, [of |-> k, amount |-> Wanted(k, want)])
  BY <1>7 DEF PollEmpty
<1> QED
  BY <1>1, <1>2, <1>4, <1>5, <1>6, <1>7 DEF Tasks

\* What is still wanted of a body fits into it.
LEMMA WantedFits ==
    ASSUME TypeInv, NEW k \in DOMAIN body, NEW want \in Nat, Polls(k, want)
    PROVE  /\ Wanted(k, want) \in Nat /\ Len(body[k].got) + Wanted(k, want) <= body[k].size
<1>1. /\ body[k].size \in Nat /\ Len(body[k].got) \in Nat /\ Len(body[k].got) < body[k].size
  BY BodyType DEF Polls
<1> QED
  BY <1>1 DEF Wanted, Smaller

\* Every step of a handler or a reader leaves those in peace who wait.
LEMMA AskTasks == ASSUME TypeInv, AskInv, NEW k \in DOMAIN body, Tasks(k) PROVE AskInv'
<1>1. DOMAIN body' = DOMAIN body /\ UNCHANGED <<serving, state, buffer>>
  BY TaskEffect DEF connVars
<1>2. ASSUME req_body_rx' = req_body_rx, \A i \in DOMAIN body : body[i].at = "asked" => Untouched(i)
      PROVE  AskInv'
  BY <1>1, <1>2, AsksKept
<1>3. ASSUME NEW want \in Nat, PollBytes(k, want)
      PROVE  \A i \in DOMAIN body : body[i].at = "asked" => Untouched(i)
  BY <1>3 DEF PollBytes, Untouched
<1>4. ASSUME body' = [body EXCEPT ![k].at = "failed"], body[k].at = "here"
      PROVE  \A i \in DOMAIN body : body[i].at = "asked" => Untouched(i)
  BY <1>4 DEF Untouched
<1>5. ASSUME NEW want \in Nat, PollEmpty(k, want), body' = [body EXCEPT ![k].at = "asked"],
             req_body_rx' = Append(req_body_rx, [of |-> k, amount |-> Wanted(k, want)])
      PROVE  AskInv'
  <2>1. Polls(k, want) /\ body[k].at = "here" /\ body[k].buf = << >>
    BY <1>5 DEF PollEmpty
  <2>2. PICK n \in Nat : n = Wanted(k, want) /\ Len(body[k].got) + n <= body[k].size
    BY <2>1, WantedFits
  <2> QED
    BY <1>1, <1>5, <2>1, <2>2, AskAdded
<1> QED
  BY <1>2, <1>3, <1>4, <1>5, TaskEffect

\* Every step keeps the readers apart.
LEMMA AskStep == ASSUME TypeInv, AskInv, [Next]_vars PROVE AskInv'
<1>1. CASE PeekRequest \/ TakeResult \/ WriteWhole \/ WriteLong \/ WriteShort
  <2>1. /\ UNCHANGED <<req_body_rx, serving, body>> /\ state \notin Serves /\ state' \notin Serves
    BY <1>1 DEF PeekRequest, TakeResult, WriteWhole, WriteLong, WriteShort, Written, Serves
  <2> QED
    BY <2>1, AsksKept DEF Untouched
<1>2. CASE AnnounceShutdown \/ UNCHANGED vars
  <2>1. UNCHANGED <<req_body_rx, serving, body, state, buffer>>
    BY <1>2 DEF AnnounceShutdown, vars, connVars
  <2> QED
    BY <2>1, AsksKept DEF Untouched
<1>3. CASE ReadRequest
  <2>1. /\ UNCHANGED <<req_body_rx, serving>> /\ state \notin Serves /\ state' \notin Serves
        /\ \E new : body' = Append(body, new)
    BY <1>3 DEF ReadRequest, Serves
  <2>2. \A k \in DOMAIN body : k \in DOMAIN body' /\ body'[k] = body[k]
    BY <2>1, BodyType
  <2> QED
    BY <2>1, <2>2, AsksKept DEF Untouched
<1>4. CASE WriteEcho
  <2>1. /\ UNCHANGED <<req_body_rx, serving>> /\ state \notin Serves /\ state' \notin Serves
        /\ body' = [body EXCEPT ![Current].holder = "gone"]
    BY <1>4 DEF WriteEcho, Written, Serves
  <2>2. \A k \in DOMAIN body : k \in DOMAIN body' /\ Untouched(k)
    BY <2>1, BodyType DEF Untouched, Bodies
  <2> QED
    BY <2>1, <2>2, AsksKept
<1>5. CASE TakeFailure \/ Fails \/ NoticeShutdown
  BY <1>5 DEF TakeFailure, Fails, NoticeShutdown, Close, AskInv, Serves
<1> QED
  BY <1>1, <1>2, <1>3, <1>4, <1>5, AskServing, AskAnswered, AskTasks DEF Next, Connection

\* What the peer has sent and nobody has been given yet, in order.
Ahead == serving.part \o buffer \o inbound

LEMMA AheadType ==
    ASSUME TypeInv
    PROVE  /\ serving.part \in Seq(Units) /\ buffer \in Seq(Units) /\ inbound \in Seq(Units)
           /\ serving.amount \in Nat /\ Ahead \in Seq(Units)
           /\ serving.part \o buffer \in Seq(Units)
<1>1. serving.part \in Seq(Units) /\ buffer \in Seq(Units) /\ inbound \in Seq(Units)
      /\ serving.amount \in Nat
  BY DEF TypeInv, TypeOK
<1>2. serving.part \o buffer \in Seq(Units)
  BY <1>1
<1> QED
  BY <1>1, <1>2 DEF Ahead

\* There is room for what is not more than there is room for.
LEMMA Room ==
    ASSUME NEW got \in Nat, NEW n \in Nat, NEW m \in Nat, NEW size \in Nat, n <= m, got + m <= size
    PROVE  got + n <= size
OBVIOUS

LEMMA Regroup ==
    ASSUME NEW s \in Seq(Units), NEW t \in Seq(Units), NEW u \in Seq(Units)
    PROVE  (s \o t) \o u = s \o (t \o u)
BY ConcatAssociative

\* The first part of a sequence.
LEMMA FirstPart ==
    ASSUME NEW s \in Seq(Units), NEW n \in Nat
    PROVE  /\ Front(s, n) \in Seq(Units) /\ Rest(s, n) \in Seq(Units)
           /\ Len(Front(s, n)) \in Nat /\ Len(Front(s, n)) <= n
<1>1. Front(s, n) \in Seq(Units) /\ Rest(s, n) \in Seq(Units) /\ Len(Front(s, n)) <= n
  BY Parts
<1> QED
  BY <1>1

\* A sequence is its first part and the rest.
LEMMA FrontRest ==
    ASSUME NEW S, NEW s \in Seq(S), NEW n \in Nat
    PROVE  Front(s, n) \o Rest(s, n) = s
<1>1. CASE n <= Len(s)
  <2>1. Front(s, n) = SubSeq(s, 1, n)
    BY <1>1 DEF Front, Smaller
  <2>2. SubSeq(s, 1, n) \o SubSeq(s, n + 1, Len(s)) = SubSeq(s, 1, Len(s))
    <3>1. Len(s) \in Nat /\ 1 \in 1..(Len(s) + 1) /\ n \in 1 - 1..Len(s) /\ Len(s) \in n..Len(s)
      BY <1>1
    <3> QED
      BY <3>1, ConcatAdjacentSubSeq
  <2>3. SubSeq(s, 1, Len(s)) = s
    BY SubSeqFull
  <2> QED
    BY <2>1, <2>2, <2>3 DEF Rest
<1>2. CASE ~(n <= Len(s))
  <2>1. Front(s, n) = SubSeq(s, 1, Len(s)) /\ Rest(s, n) = << >>
    BY <1>2 DEF Front, Rest, Smaller
  <2>2. SubSeq(s, 1, Len(s)) = s
    BY SubSeqFull
  <2> QED
    BY <2>1, <2>2, ConcatEmptySeq
<1> QED
  BY <1>1, <1>2

\* The steps that serve reads hand over the first units there are, as many as were
\* asked for or fewer, or keep them.
LEMMA Served ==
    ASSUME TypeInv, AskInv, TakeReadRequest \/ WriteContinue \/ ReadChunk
    PROVE  \/ body' = body /\ Ahead' = Ahead
           \/ \E k \in DOMAIN body, units \in Seq(Units) :
                  /\ Answer(k, units) /\ body[k].buf = << >>
                  /\ Len(body[k].got) + Len(units) <= body[k].size
                  /\ Ahead = units \o Ahead'
<1>1. CASE TakeReadRequest \/ WriteContinue
  <2>1. PICK k \in Nat, amount \in Nat :
               /\ Asks(k, amount) /\ serving.part = << >>
               /\ \/ ServeFrom(k, amount)
                  \/ /\ serving' = [of |-> k, amount |-> amount, part |-> << >>]
                     /\ state' = "continuing" /\ UNCHANGED <<buffer, body>>
    BY <1>1, AskTaken
  <2>2. inbound' = inbound
    BY <1>1 DEF TakeReadRequest, WriteContinue
  <2>3. CASE /\ serving' = [of |-> k, amount |-> amount, part |-> << >>]
             /\ UNCHANGED <<buffer, body>>
    BY <2>1, <2>2, <2>3 DEF Ahead
  <2>4. CASE ServeFrom(k, amount) /\ ~(buffer # << >> /\ Len(buffer) >= amount)
    <3>1. /\ serving' = [of |-> k, amount |-> amount - Len(buffer), part |-> buffer]
          /\ buffer' = << >> /\ body' = body
      BY <2>4 DEF ServeFrom
    <3>2. Ahead' = buffer \o << >> \o inbound
      BY <2>2, <3>1 DEF Ahead
    <3>3. Ahead = << >> \o buffer \o inbound
      BY <2>1 DEF Ahead
    <3> QED
      BY <3>1, <3>2, <3>3, AheadType, ConcatEmptySeq
  <2>5. CASE ServeFrom(k, amount) /\ buffer # << >> /\ Len(buffer) >= amount
    <3> DEFINE units == Front(buffer, amount)
    <3>1. /\ Answer(k, units) /\ buffer' = Rest(buffer, amount) /\ serving' = NotServing
      BY <2>5 DEF ServeFrom
    <3>2. /\ units \in Seq(Units) /\ Rest(buffer, amount) \in Seq(Units)
          /\ Len(units) <= amount /\ Len(units) \in Nat
      BY AheadType, FirstPart
    <3>3. Ahead' = << >> \o Rest(buffer, amount) \o inbound
      BY <2>2, <3>1 DEF Ahead, NotServing
    <3>4. Ahead' = Rest(buffer, amount) \o inbound
      BY <3>2, <3>3, ConcatEmptySeq
    <3>5. Ahead = << >> \o buffer \o inbound
      BY <2>1 DEF Ahead
    <3>6. Ahead = buffer \o inbound
      BY <3>5, AheadType, ConcatEmptySeq
    <3>7. units \o Rest(buffer, amount) = buffer
      BY AheadType, FrontRest
    <3> HIDE DEF units
    <3>8. Ahead = units \o Ahead'
      <4>1. (units \o Rest(buffer, amount)) \o inbound = units \o (Rest(buffer, amount) \o inbound)
        BY <3>2, AheadType, Regroup, ZenonT(30)
      <4> QED
        BY <3>4, <3>6, <3>7, <4>1
    <3>9. k \in DOMAIN body /\ body[k].buf = << >> /\ Len(body[k].got) + amount <= body[k].size
      BY <2>1 DEF Asks
    <3>10. Len(body[k].got) + Len(units) <= body[k].size
      BY <3>2, <3>9, BodyType, Room
    <3> QED
      BY <3>1, <3>2, <3>8, <3>9, <3>10
  <2> QED
    BY <2>1, <2>3, <2>4, <2>5
<1>2. CASE ReadChunk
  <2>1. PICK n \in 1..BufferSize :
            /\ n <= Len(inbound)
            /\ Answer(serving.of, Chunk(Front(inbound, n)))
            /\ buffer' = Rest(Front(inbound, n), serving.amount)
            /\ inbound' = Rest(inbound, n)
    BY <1>2 DEF ReadChunk
  <2>2. n \in Nat /\ state = "awaiting" /\ serving' = NotServing
    BY <1>2, H1Assumption DEF H1Assumption, ReadChunk
  <2>3. buffer = << >> /\ Asks(serving.of, serving.amount + Len(serving.part))
    BY <2>2 DEF AskInv, Serves
  <2> DEFINE part == serving.part
             amount == serving.amount
             first == Front(inbound, n)
             given == Front(first, amount)
             left == Rest(first, amount)
             later == Rest(inbound, n)
             units == Chunk(first)
  <2>4. /\ part \in Seq(Units) /\ amount \in Nat /\ inbound \in Seq(Units)
    BY AheadType
  <2>5. first \in Seq(Units) /\ later \in Seq(Units) /\ first \o later = inbound
    BY <2>2, <2>4, Parts, FrontRest
  <2> HIDE DEF first, later
  <2>6. /\ given \in Seq(Units) /\ left \in Seq(Units) /\ given \o left = first
        /\ Len(given) <= amount /\ Len(given) \in Nat
    BY <2>4, <2>5, FirstPart, FrontRest
  <2> HIDE DEF given, left
  <2>7. units = part \o given
    BY DEF Chunk, given
  <2>8. Ahead' = left \o later
    <3>1. Ahead' = << >> \o left \o later
      BY <2>1, <2>2 DEF Ahead, NotServing, left, later, first
    <3> QED
      BY <2>6, <3>1, ConcatEmptySeq
  <2>9. Ahead = part \o inbound
    <3>1. Ahead = part \o << >> \o inbound
      BY <2>3 DEF Ahead
    <3> QED
      BY <2>4, <3>1, ConcatEmptySeq
  <2>10. Answer(serving.of, units)
    BY <2>1 DEF first
  <2> HIDE DEF units, part
  <2>11. units \in Seq(Units) /\ Len(units) = Len(part) + Len(given) /\ Len(part) \in Nat
    BY <2>4, <2>6, <2>7
  <2>12. Ahead = units \o Ahead'
    <3>1. inbound = given \o (left \o later)
      <4>1. (given \o left) \o later = given \o (left \o later)
        BY <2>5, <2>6, Regroup, ZenonT(30)
      <4> QED
        BY <2>5, <2>6, <4>1
    <3>2. left \o later \in Seq(Units)
      BY <2>5, <2>6
    <3>3. (part \o given) \o (left \o later) = part \o (given \o (left \o later))
      BY <2>4, <2>6, <3>2, Regroup
    <3> QED
      BY <2>7, <2>8, <2>9, <3>1, <3>3
  <2>13. /\ serving.of \in DOMAIN body /\ body[serving.of].buf = << >>
         /\ Len(body[serving.of].got) + (amount + Len(part)) <= body[serving.of].size
    BY <2>3 DEF Asks, part
  <2> HIDE DEF amount
  <2>14. Len(body[serving.of].got) + Len(units) <= body[serving.of].size
    <3>1. PICK a \in Nat, l \in Nat, g \in Nat : a = amount /\ l = Len(part) /\ g = Len(given)
      BY <2>4, <2>6, <2>11
    <3>2. l + g \in Nat /\ a + l \in Nat /\ l + g <= a + l
      BY <2>6, <3>1
    <3>3. PICK b \in DOMAIN body, got \in Nat, size \in Nat :
              b = serving.of /\ got = Len(body[b].got) /\ size = body[b].size
      BY <2>13, BodyType
    <3>4. Len(units) = l + g /\ got + (a + l) <= size
      BY <2>11, <2>13, <3>1, <3>3
    <3>5. got + (l + g) <= size
      BY <3>2, <3>4, Room
    <3> QED
      BY <3>3, <3>4, <3>5
  <2> QED
    BY <2>10, <2>11, <2>12, <2>13, <2>14
<1> QED
  BY <1>1, <1>2

\* The units of a body, in the hands of its reader, stay as they are.
SameContent(k) ==
    /\ body'[k].buf = body[k].buf /\ body'[k].got = body[k].got /\ body'[k].size = body[k].size

\* Neither does it matter to the units who holds the bodies when the connection ends.
LEMMA ReleasedContent ==
    ASSUME TypeInv, body' = Released
    PROVE  DOMAIN body' = DOMAIN body /\ \A k \in DOMAIN body : SameContent(k)
<1>1. ASSUME NEW k \in DOMAIN body PROVE SameContent(k)
  <2> DEFINE at == IF body[k].at = "asked" THEN "failed" ELSE body[k].at
             holder == IF body[k].holder # "response" THEN body[k].holder
                       ELSE IF state = "writing" THEN "gone" ELSE "drain"
  <2>1. body'[k] = [body[k] EXCEPT !.at = at, !.holder = holder]
    BY Zenon DEF Released
  <2>2. body[k] \in Bodies
    BY BodyType
  <2> HIDE DEF at, holder
  <2> QED
    BY <2>1, <2>2 DEF Bodies, SameContent
<1> QED
  BY <1>1 DEF Released

\* Only a peek takes from the socket what it leaves in the buffer.
LEMMA Peeked == ASSUME TypeInv, AskInv, PeekRequest PROVE Ahead' = Ahead
<1>1. serving' = serving /\ serving.part = << >>
  BY DEF PeekRequest, AskInv, Serves, NotServing
<1>2. CASE UNCHANGED <<buffer, inbound>>
  BY <1>1, <1>2 DEF Ahead
<1>3. CASE buffer = << >>
  <2>1. CASE \E n \in 1..BufferSize : ReadIntoBuffer(n)
    <3>1. PICK n \in 1..BufferSize : buffer' = Front(inbound, n) /\ inbound' = Rest(inbound, n)
      BY <2>1 DEF ReadIntoBuffer
    <3>2. n \in Nat
      BY H1Assumption DEF H1Assumption
    <3>3. buffer' \in Seq(Units) /\ inbound' \in Seq(Units) /\ buffer' \o inbound' = inbound
      BY <3>1, <3>2, AheadType, FirstPart, FrontRest
    <3>4. Ahead' = << >> \o buffer' \o inbound' /\ Ahead = << >> \o << >> \o inbound
      BY <1>1, <1>3 DEF Ahead
    <3>5. << >> \o << >> = << >>
      OBVIOUS
    <3> QED
      BY <3>3, <3>4, <3>5, AheadType, ConcatEmptySeq
  <2> QED
    BY <1>2, <1>3, <2>1 DEF PeekRequest
<1> QED
  BY <1>2, <1>3 DEF PeekRequest

\* What a step does to the units: a request is read, or units are handed over, or read
\* by the one who holds them, or all are where they were.
LEMMA Movements ==
    ASSUME TypeInv, AskInv, [Next]_vars
    PROVE  \/ ReadRequest
           \/ TakeReadRequest \/ WriteContinue \/ ReadChunk
           \/ \E k \in DOMAIN body, want \in Nat : PollBytes(k, want)
           \/ /\ DOMAIN body' = DOMAIN body /\ \A k \in DOMAIN body : SameContent(k)
              /\ UNCHANGED <<requests, stream>>
              /\ state' = "closed" \/ Ahead' = Ahead
<1>1. CASE PeekRequest
  <2>1. UNCHANGED <<requests, stream, body>>
    BY <1>1 DEF PeekRequest
  <2> QED
    BY <1>1, <2>1, Peeked DEF SameContent
<1>2. CASE TakeResult \/ WriteWhole \/ WriteLong \/ WriteShort \/ AnnounceShutdown \/ UNCHANGED vars
  <2>1. UNCHANGED <<requests, stream, body, serving, buffer, inbound>>
    BY <1>2 DEF TakeResult, WriteWhole, WriteLong, WriteShort, AnnounceShutdown, Written,
                vars, connVars
  <2> QED
    BY <2>1 DEF SameContent, Ahead
<1>3. CASE WriteEcho
  <2>1. /\ UNCHANGED <<requests, stream, serving, buffer, inbound>>
        /\ body' = [body EXCEPT ![Current].holder = "gone"]
    BY <1>3 DEF WriteEcho, Written
  <2>2. DOMAIN body' = DOMAIN body /\ \A k \in DOMAIN body : SameContent(k)
    BY <2>1, BodyType DEF SameContent, Bodies
  <2> QED
    BY <2>1, <2>2 DEF Ahead
<1>4. CASE TakeFailure \/ Fails \/ NoticeShutdown
  <2>1. body' = Released /\ UNCHANGED <<requests, stream>> /\ state' = "closed"
    BY <1>4 DEF TakeFailure, Fails, NoticeShutdown, Close
  <2> QED
    BY <2>1, ReleasedContent
<1>5. ASSUME NEW k \in DOMAIN body, Tasks(k)
      PROVE  \/ \E want \in Nat : PollBytes(k, want)
             \/ /\ DOMAIN body' = DOMAIN body /\ \A i \in DOMAIN body : SameContent(i)
                /\ UNCHANGED <<requests, stream>> /\ Ahead' = Ahead
  <2>1. DOMAIN body' = DOMAIN body /\ UNCHANGED <<requests, stream>> /\ Ahead' = Ahead
    BY <1>5, TaskEffect DEF connVars, Ahead
  <2>2. ASSUME NEW a, body' = [body EXCEPT ![k].at = a] PROVE \A i \in DOMAIN body : SameContent(i)
    BY <2>2, BodyType DEF SameContent, Bodies
  <2>3. \/ \A i \in DOMAIN body : Untouched(i)
        \/ \E want \in Nat : PollBytes(k, want)
        \/ \E a : body' = [body EXCEPT ![k].at = a]
    BY <1>5, TaskEffect
  <2> QED
    BY <2>1, <2>2, <2>3 DEF Untouched, SameContent
<1> QED
  BY <1>1, <1>2, <1>3, <1>4, <1>5 DEF Next, Connection

\* A reader takes the first units of its buffer behind those it has.
LEMMA Polled ==
    ASSUME TypeInv, NEW k \in DOMAIN body, NEW want \in Nat, PollBytes(k, want)
    PROVE  /\ DOMAIN body' = DOMAIN body /\ UNCHANGED <<requests, stream, inbound, connVars>>
           /\ \A i \in DOMAIN body : i # k => body'[i] = body[i]
           /\ body'[k].size = body[k].size
           /\ \E taken \in Seq(Units), rest \in Seq(Units) :
                  /\ body[k].buf = taken \o rest
                  /\ body'[k].got = body[k].got \o taken /\ body'[k].buf = rest
                  /\ \A i \in DOMAIN rest : \E j \in DOMAIN body[k].buf : rest[i] = body[k].buf[j]
<1>1. Polls(k, want)
  BY DEF PollBytes
<1>2. PICK n \in Nat : n = Wanted(k, want)
  BY <1>1, WantedFits
<1> DEFINE taken == Front(body[k].buf, n)
           rest == Rest(body[k].buf, n)
<1>3. /\ taken \in Seq(Units) /\ rest \in Seq(Units) /\ body[k].buf = taken \o rest
  BY FirstPart, FrontRest, BodyType
<1>4. body' = [body EXCEPT ![k].at = "here", ![k].got = @ \o taken, ![k].buf = rest]
  BY <1>2 DEF PollBytes
<1>5. \A i \in DOMAIN rest : \E j \in DOMAIN body[k].buf : rest[i] = body[k].buf[j]
  <2>1. /\ body[k].buf \in Seq(Units) /\ Len(body[k].buf) \in Nat
        /\ DOMAIN body[k].buf = 1..Len(body[k].buf)
    BY BodyType
  <2> TAKE i \in DOMAIN rest
  <2>2. i \in Nat /\ n + i \in 1..Len(body[k].buf) /\ rest[i] = body[k].buf[n + i]
    BY <2>1, SMTT(30) DEF Rest
  <2> QED
    BY <2>1, <2>2
<1> HIDE DEF taken, rest
<1>6. /\ body'[k].got = body[k].got \o taken /\ body'[k].buf = rest /\ body'[k].size = body[k].size
      /\ DOMAIN body' = DOMAIN body /\ \A i \in DOMAIN body : i # k => body'[i] = body[i]
  BY <1>4, BodyType DEF Bodies
<1>7. UNCHANGED <<requests, stream, inbound, connVars>>
  BY DEF PollBytes, Keep, connVars
<1> QED
  BY <1>3, <1>5, <1>6, <1>7

\* Only a request brings a body, and nothing that anybody has sent is in it.
LEMMA BodyAdded ==
    ASSUME TypeInv, ReadRequest
    PROVE  \E new \in Bodies :
               /\ body' = Append(body, new) /\ new.got = << >>
               /\ \A i \in DOMAIN new.buf : new.buf[i] = Stale
               /\ DOMAIN body' = 1..(Len(body) + 1) /\ body'[Len(body) + 1] = new
               /\ \A k \in DOMAIN body : body'[k] = body[k]
<1> DEFINE size == IF buffer[1].head THEN buffer[1].size ELSE 0
           new == IF size = 0 THEN NoBody ELSE NewBody(size)
<1>1. body' = Append(body, new) /\ buffer # << >>
  BY DEF ReadRequest, TypeInv
<1>2. size \in Nat
  BY <1>1, UnitFields DEF TypeInv, TypeOK
<1>3. NoBody \in Bodies /\ NoBody.got = << >> /\ NoBody.buf = << >>
  BY DEF NoBody, Bodies
<1>4. /\ NewBody(size) \in Bodies /\ NewBody(size).got = << >>
      /\ \A i \in DOMAIN NewBody(size).buf : NewBody(size).buf[i] = Stale
  <2>1. [i \in 1..BodyBuf |-> Stale] \in Seq(Units)
    BY StaleUnit, H1Assumption DEF H1Assumption
  <2> QED
    BY <1>2, <2>1 DEF NewBody, Bodies
<1>5. new \in Bodies /\ new.got = << >> /\ \A i \in DOMAIN new.buf : new.buf[i] = Stale
  BY <1>3, <1>4
<1> HIDE DEF new, size
<1>6. /\ DOMAIN body' = 1..(Len(body) + 1) /\ body'[Len(body) + 1] = new
      /\ \A k \in DOMAIN body : body'[k] = body[k]
  BY <1>1, <1>5, BodyType
<1> QED
  BY <1>1, <1>5, <1>6

-----------------------------------------------------------------------------
(* The limit of a body. *)

\* Nothing but what was asked for comes into a buffer.
LEMMA WithinStep ==
    ASSUME TypeInv, AskInv, WithinInv, [Next]_vars PROVE WithinInv'
<1>1. CASE ReadRequest
  <2>1. PICK new \in Bodies :
               /\ \A i \in DOMAIN new.buf : new.buf[i] = Stale
               /\ DOMAIN body' = 1..(Len(body) + 1) /\ body'[Len(body) + 1] = new
               /\ \A k \in DOMAIN body : body'[k] = body[k]
    BY <1>1, BodyAdded
  <2>2. ASSUME NEW k \in DOMAIN body' PROVE Within(body'[k])
    <3>1. CASE k = Len(body) + 1
      BY <2>1, <3>1 DEF Within
    <3>2. CASE k # Len(body) + 1
      <4>1. k \in DOMAIN body
        BY <2>1, <3>2, BodyType
      <4> QED
        BY <2>1, <4>1 DEF WithinInv
    <3> QED
      BY <3>1, <3>2
  <2> QED
    BY <2>2 DEF WithinInv
<1>2. ASSUME body' = body PROVE WithinInv'
  BY <1>2 DEF WithinInv
<1>3. ASSUME NEW k \in DOMAIN body, NEW units \in Seq(Units), Answer(k, units),
             Len(body[k].got) + Len(units) <= body[k].size
      PROVE  WithinInv'
  <2>1. /\ DOMAIN body' = DOMAIN body
        /\ body'[k].buf = units /\ body'[k].got = body[k].got /\ body'[k].size = body[k].size
        /\ \A i \in DOMAIN body : i # k => body'[i] = body[i]
    BY <1>3, Answering
  <2>2. Within(body'[k])
    BY <1>3, <2>1 DEF Within
  <2> QED
    BY <2>1, <2>2 DEF WithinInv
<1>4. CASE TakeReadRequest \/ WriteContinue \/ ReadChunk
  BY <1>2, <1>3, <1>4, Served
<1>5. ASSUME NEW k \in DOMAIN body, NEW want \in Nat, PollBytes(k, want) PROVE WithinInv'
  <2>1. /\ DOMAIN body' = DOMAIN body /\ body'[k].size = body[k].size
        /\ \A i \in DOMAIN body : i # k => body'[i] = body[i]
    BY <1>5, Polled
  <2>2. PICK taken \in Seq(Units), rest \in Seq(Units) :
                  /\ body[k].buf = taken \o rest
                  /\ body'[k].got = body[k].got \o taken /\ body'[k].buf = rest
                  /\ \A i \in DOMAIN rest : \E j \in DOMAIN body[k].buf : rest[i] = body[k].buf[j]
    BY <1>5, Polled
  <2>3. ASSUME \A i \in DOMAIN body[k].buf : body[k].buf[i] = Stale PROVE Within(body'[k])
    BY <2>2, <2>3 DEF Within
  <2>4. ASSUME Len(body[k].got) + Len(body[k].buf) <= body[k].size PROVE Within(body'[k])
    <3>1. /\ Len(body[k].got \o taken) = Len(body[k].got) + Len(taken)
          /\ Len(taken \o rest) = Len(taken) + Len(rest)
          /\ Len(taken) \in Nat /\ Len(rest) \in Nat
      BY BodyType
    <3>2. PICK g \in Nat, t \in Nat, r \in Nat, size \in Nat :
              /\ g = Len(body[k].got) /\ t = Len(taken) /\ r = Len(rest) /\ size = body[k].size
      BY <3>1, BodyType
    <3>3. g + (t + r) <= size
      BY <2>2, <2>4, <3>1, <3>2
    <3>4. Len(body'[k].got) = g + t /\ Len(body'[k].buf) = r /\ body'[k].size = size
      BY <2>1, <2>2, <3>1, <3>2
    <3>5. (g + t) + r <= size
      BY <3>3
    <3> QED
      BY <3>4, <3>5 DEF Within
  <2>5. Within(body'[k])
    BY <2>3, <2>4 DEF WithinInv, Within
  <2> QED
    BY <2>1, <2>5 DEF WithinInv
<1>6. ASSUME DOMAIN body' = DOMAIN body, \A k \in DOMAIN body : SameContent(k) PROVE WithinInv'
  BY <1>6 DEF WithinInv, Within, SameContent
<1> QED
  BY <1>1, <1>4, <1>5, <1>6, Movements

\* A sequence has no more fresh units than units, and none if all are stale.
LEMMA FreshUnits ==
    ASSUME NEW s \in Seq(Units)
    PROVE  /\ Fresh(s) \in Nat /\ Fresh(s) <= Len(s)
           /\ (\A i \in DOMAIN s : s[i] = Stale) => Fresh(s) = 0
<1> DEFINE fresh == {i \in DOMAIN s : s[i] # Stale}
<1>1. Len(s) \in Nat /\ DOMAIN s = 1..Len(s) /\ fresh \subseteq 1..Len(s)
  OBVIOUS
<1>2. IsFiniteSet(1..Len(s)) /\ Cardinality(1..Len(s)) = Len(s)
  <2>1. PICK n \in Nat : n = Len(s)
    BY <1>1
  <2>2. IsFiniteSet(1..n) /\ Cardinality(1..n) = n
    BY FS_Interval
  <2> QED
    BY <2>1, <2>2
<1>3. IsFiniteSet(fresh) /\ Cardinality(fresh) <= Len(s)
  BY <1>1, <1>2, FS_Subset
<1>4. Cardinality(fresh) \in Nat
  BY <1>3, FS_CardinalityType
<1>5. ASSUME \A i \in DOMAIN s : s[i] = Stale PROVE Cardinality(fresh) = 0
  <2>1. fresh = {}
    BY <1>5
  <2> QED
    BY <2>1, FS_EmptySet
<1> QED
  BY <1>3, <1>4, <1>5 DEF Fresh

\* What a reader has and what is on its way to it fits into the body.
LEMMA WithinLimit == TypeInv /\ GotInv /\ AskInv /\ WithinInv => BodyWithinLimit
<1> SUFFICES ASSUME TypeInv, GotInv, AskInv, WithinInv, NEW k \in DOMAIN body
             PROVE  Len(body[k].got) + Coming(k) <= body[k].size
  BY DEF BodyWithinLimit
<1>1. PICK got \in Nat, size \in Nat, buf \in Seq(Units), part \in Seq(Units) :
          /\ got = Len(body[k].got) /\ size = body[k].size /\ buf = body[k].buf
          /\ part = serving.part /\ got <= size
  BY BodyType, AheadType DEF GotInv
<1>2. PICK l \in Nat, f \in Nat : l = Len(buf) /\ f = Fresh(buf) /\ f <= l
  BY FreshUnits
<1>3. got + f <= size
  <2>1. CASE \A i \in DOMAIN buf : buf[i] = Stale
    <3>1. f = 0
      BY <1>2, <2>1, FreshUnits
    <3> QED
      BY <1>1, <3>1
  <2>2. CASE got + l <= size
    BY <1>2, <2>2, Room
  <2>3. Within(body[k])
    BY DEF WithinInv
  <2> QED
    BY <1>1, <1>2, <2>1, <2>2, <2>3 DEF Within
<1>4. CASE serving.of # k
  <2>1. Coming(k) = f + 0
    BY <1>1, <1>2, <1>4 DEF Coming
  <2> QED
    BY <1>1, <1>3, <2>1
<1>5. CASE serving.of = k
  <2>1. k # 0
    BY BodyType
  <2>2. state \in Serves
    BY <1>5, <2>1 DEF AskInv, NotServing
  <2>3. buf = << >> /\ got + (serving.amount + Len(part)) <= size
    BY <1>1, <1>5, <2>2 DEF AskInv, Asks
  <2>4. f = 0
    <3>1. Len(buf) = 0
      BY <2>3
    <3> QED
      BY <1>2, <3>1
  <2>5. PICK p \in Nat, a \in Nat, fp \in Nat :
            p = Len(part) /\ a = serving.amount /\ fp = Fresh(part) /\ fp <= p
    BY FreshUnits, AheadType
  <2>6. got + (a + p) <= size
    BY <2>3, <2>5
  <2>7. Coming(k) = f + fp
    BY <1>1, <1>2, <1>5, <2>5 DEF Coming
  <2>8. got + (f + fp) <= size
    BY <2>4, <2>5, <2>6
  <2> QED
    BY <1>1, <2>7, <2>8
<1> QED
  BY <1>4, <1>5

\* Whoever reads a body, in turns and in pieces of any size, and whichever request is at
\* hand: the connection gives a body no more of its bytes than the content-length says.
THEOREM LimitKept == Spec => []BodyWithinLimit
<1>1. Init => TypeInv /\ GotInv /\ AskInv /\ WithinInv
  BY InitType DEF Init, GotInv, AskInv, WithinInv, Serves, NotServing
<1>2. TypeInv /\ GotInv /\ AskInv /\ WithinInv /\ [Next]_vars
          => (TypeInv /\ GotInv /\ AskInv /\ WithinInv)'
  BY TypeStep, GotStep, AskStep, WithinStep
<1> QED
  BY <1>1, <1>2, WithinLimit, PTL DEF Spec

-----------------------------------------------------------------------------
(* The units of the peer's stream.  Each is in one place, once: among those *)
(* that are still to be given out, as a request, or with one of the bodies. *)

Line(k) == body[k].got \o body[k].buf

Placed(u) ==
    \/ /\ OnceIn(u, Ahead) /\ NotIn(u, requests)
       /\ \A k \in DOMAIN body : NotIn(u, Line(k))
    \/ /\ NotIn(u, Ahead) /\ OnceIn(u, requests)
       /\ \A k \in DOMAIN body : NotIn(u, Line(k))
    \/ /\ NotIn(u, Ahead) /\ NotIn(u, requests)
       /\ \E k \in DOMAIN body :
              OnceIn(u, Line(k)) /\ \A j \in DOMAIN body : j # k => NotIn(u, Line(j))

PlacedInv ==
    /\ \A i \in DOMAIN stream : stream[i] \in Units \ {Stale}
    /\ state # "closed" => \A i \in DOMAIN stream : Placed(stream[i])

LEMMA LineType ==
    ASSUME TypeInv, NEW k \in DOMAIN body PROVE Line(k) \in Seq(Units)
BY BodyType DEF Line

\* Nothing moves.
LEMMA NoneMoved ==
    ASSUME NEW u, Placed(u), Ahead' = Ahead, requests' = requests, DOMAIN body' = DOMAIN body,
           \A k \in DOMAIN body : Line(k)' = Line(k)
    PROVE  Placed(u)'
BY DEF Placed

\* The first units move to a body.
LEMMA MovedToBody ==
    ASSUME TypeInv, TypeInv', NEW u, Placed(u), NEW k \in DOMAIN body, NEW units \in Seq(Units),
           Ahead = units \o Ahead', requests' = requests, DOMAIN body' = DOMAIN body,
           Line(k)' = Line(k) \o units,
           \A j \in DOMAIN body : j # k => Line(j)' = Line(j)
    PROVE  Placed(u)'
<1>1. Ahead' \in Seq(Units)
  BY AheadType DEF TypeInv, TypeOK, Ahead
<1>2. /\ NotIn(u, Ahead) <=> NotIn(u, units) /\ NotIn(u, Ahead')
      /\ OnceIn(u, Ahead) <=> \/ OnceIn(u, units) /\ NotIn(u, Ahead')
                              \/ NotIn(u, units) /\ OnceIn(u, Ahead')
  BY <1>1, Concatenated
<1>3. /\ NotIn(u, Line(k)') <=> NotIn(u, Line(k)) /\ NotIn(u, units)
      /\ OnceIn(u, Line(k)') <=> \/ OnceIn(u, Line(k)) /\ NotIn(u, units)
                                 \/ NotIn(u, Line(k)) /\ OnceIn(u, units)
  BY LineType, Concatenated
<1>4. CASE OnceIn(u, Ahead) /\ NotIn(u, requests) /\ \A j \in DOMAIN body : NotIn(u, Line(j))
  BY <1>2, <1>3, <1>4 DEF Placed
<1>5. CASE NotIn(u, Ahead) /\ OnceIn(u, requests) /\ \A j \in DOMAIN body : NotIn(u, Line(j))
  BY <1>2, <1>3, <1>5 DEF Placed
<1>6. CASE /\ NotIn(u, Ahead) /\ NotIn(u, requests)
           /\ \E l \in DOMAIN body :
                  OnceIn(u, Line(l)) /\ \A j \in DOMAIN body : j # l => NotIn(u, Line(j))
  BY <1>2, <1>3, <1>6 DEF Placed
<1> QED
  BY <1>4, <1>5, <1>6 DEF Placed

\* The first unit is taken for a request; its body holds nothing that was sent.
LEMMA MovedToRequests ==
    ASSUME TypeInv, AskInv, ReadRequest, NEW u \in Units \ {Stale}, Placed(u)
    PROVE  Placed(u)'
<1>1. /\ buffer # << >> /\ buffer' = Tail(buffer) /\ requests' = Append(requests, buffer[1])
      /\ serving' = serving /\ inbound' = inbound /\ serving.part = << >>
  BY DEF ReadRequest, TypeInv, AskInv, Serves, NotServing
<1>2. PICK unit \in Units : unit = buffer[1] /\ buffer = <<unit>> \o Tail(buffer)
                            /\ Tail(buffer) \in Seq(Units)
  BY <1>1, AheadType
<1>3. requests \in Seq(Units) /\ <<unit>> \in Seq(Units) /\ requests' = requests \o <<unit>>
  BY <1>1, <1>2 DEF TypeInv, TypeOK
<1>4. Ahead' \in Seq(Units) /\ Ahead = <<unit>> \o Ahead'
  <2>1. Ahead' = << >> \o Tail(buffer) \o inbound /\ Ahead = << >> \o buffer \o inbound
    BY <1>1 DEF Ahead
  <2>2. Ahead' = Tail(buffer) \o inbound /\ Ahead = buffer \o inbound
    BY <1>2, <2>1, AheadType, ConcatEmptySeq
  <2>3. (<<unit>> \o Tail(buffer)) \o inbound = <<unit>> \o (Tail(buffer) \o inbound)
    BY <1>2, <1>3, AheadType, Regroup
  <2>4. Tail(buffer) \o inbound \in Seq(Units)
    BY <1>2, AheadType
  <2> QED
    BY <1>2, <2>2, <2>3, <2>4
<1>5. /\ NotIn(u, Ahead) <=> NotIn(u, <<unit>>) /\ NotIn(u, Ahead')
      /\ OnceIn(u, Ahead) <=> \/ OnceIn(u, <<unit>>) /\ NotIn(u, Ahead')
                              \/ NotIn(u, <<unit>>) /\ OnceIn(u, Ahead')
  BY <1>3, <1>4, Concatenated
<1>6. /\ NotIn(u, requests') <=> NotIn(u, requests) /\ NotIn(u, <<unit>>)
      /\ OnceIn(u, requests') <=> \/ OnceIn(u, requests) /\ NotIn(u, <<unit>>)
                                  \/ NotIn(u, requests) /\ OnceIn(u, <<unit>>)
  BY <1>3, Concatenated
<1>7. PICK new \in Bodies :
               /\ new.got = << >> /\ \A i \in DOMAIN new.buf : new.buf[i] = Stale
               /\ DOMAIN body' = 1..(Len(body) + 1) /\ body'[Len(body) + 1] = new
               /\ \A k \in DOMAIN body : body'[k] = body[k]
  BY BodyAdded
<1>8. NotIn(u, new.got \o new.buf)
  <2>1. new.buf \in Seq(Units)
    BY DEF Bodies
  <2>2. NotIn(u, new.buf)
    BY <1>7 DEF NotIn
  <2> QED
    BY <1>7, <2>1, <2>2, ConcatEmptySeq
<1>9. /\ \A k \in DOMAIN body : k \in DOMAIN body' /\ Line(k)' = Line(k)
      /\ \A k \in DOMAIN body' : k \in DOMAIN body \/ NotIn(u, Line(k)')
  <2>1. \A k \in DOMAIN body' : k \in DOMAIN body \/ k = Len(body) + 1
    BY <1>7, BodyType
  <2>2. \A k \in DOMAIN body : k \in DOMAIN body'
    BY <1>7, BodyType
  <2> QED
    BY <1>7, <1>8, <2>1, <2>2 DEF Line
<1>10. CASE OnceIn(u, Ahead) /\ NotIn(u, requests) /\ \A j \in DOMAIN body : NotIn(u, Line(j))
  BY <1>5, <1>6, <1>9, <1>10 DEF Placed
<1>11. CASE NotIn(u, Ahead) /\ OnceIn(u, requests) /\ \A j \in DOMAIN body : NotIn(u, Line(j))
  BY <1>5, <1>6, <1>9, <1>11 DEF Placed
<1>12. CASE /\ NotIn(u, Ahead) /\ NotIn(u, requests)
            /\ \E l \in DOMAIN body :
                   OnceIn(u, Line(l)) /\ \A j \in DOMAIN body : j # l => NotIn(u, Line(j))
  BY <1>5, <1>6, <1>9, <1>12 DEF Placed
<1> QED
  BY <1>10, <1>11, <1>12 DEF Placed

\* Every step keeps every unit in one place.
LEMMA PlacedStep ==
    ASSUME TypeInv, AskInv, PlacedInv, [Next]_vars PROVE PlacedInv'
<1>1. stream' = stream
  BY Movements, Polled DEF ReadRequest, TakeReadRequest, WriteContinue, ReadChunk
<1>2. state' # "closed" => state # "closed"
  <2>1. CASE \E k \in DOMAIN body : Tasks(k)
    BY <2>1, TaskEffect DEF connVars
  <2>2. CASE Connection
    BY <2>2 DEF Connection, PeekRequest, ReadRequest, TakeReadRequest, WriteContinue, ReadChunk,
                TakeResult, TakeFailure, WriteWhole, WriteLong, WriteShort, WriteEcho, Fails,
                NoticeShutdown, Close
  <2>3. CASE AnnounceShutdown \/ UNCHANGED vars
    BY <2>3 DEF AnnounceShutdown, vars, connVars
  <2> QED
    BY <2>1, <2>2, <2>3 DEF Next
<1>3. SUFFICES ASSUME NEW u \in Units \ {Stale}, Placed(u), state' # "closed" PROVE Placed(u)'
  BY <1>1, <1>2 DEF PlacedInv
<1>4. TypeInv'
  BY TypeStep
<1>5. CASE ReadRequest
  BY <1>3, <1>5, MovedToRequests
<1>6. ASSUME DOMAIN body' = DOMAIN body, \A k \in DOMAIN body : SameContent(k),
             requests' = requests, Ahead' = Ahead
      PROVE  Placed(u)'
  BY <1>3, <1>6, NoneMoved DEF SameContent, Line
<1>7. CASE TakeReadRequest \/ WriteContinue \/ ReadChunk
  <2>1. requests' = requests
    BY <1>7 DEF TakeReadRequest, WriteContinue, ReadChunk
  <2>2. CASE body' = body /\ Ahead' = Ahead
    BY <1>6, <2>1, <2>2 DEF SameContent
  <2>3. ASSUME NEW k \in DOMAIN body, NEW units \in Seq(Units),
               Answer(k, units), body[k].buf = << >>, Ahead = units \o Ahead'
        PROVE  Placed(u)'
    <3>1. /\ DOMAIN body' = DOMAIN body
          /\ body'[k].buf = units /\ body'[k].got = body[k].got
          /\ \A i \in DOMAIN body : i # k => body'[i] = body[i]
      BY <2>3, Answering
    <3>2. Line(k)' = Line(k) \o units
      <4>1. Line(k) = body[k].got
        BY <2>3, BodyType, ConcatEmptySeq DEF Line
      <4> QED
        BY <3>1, <4>1 DEF Line
    <3>3. \A j \in DOMAIN body : j # k => Line(j)' = Line(j)
      BY <3>1 DEF Line
    <3> QED
      BY <1>3, <1>4, <2>1, <2>3, <3>1, <3>2, <3>3, MovedToBody
  <2> QED
    BY <1>7, <2>2, <2>3, Served
<1>8. ASSUME NEW k \in DOMAIN body, NEW want \in Nat, PollBytes(k, want) PROVE Placed(u)'
  <2>1. /\ DOMAIN body' = DOMAIN body /\ UNCHANGED <<requests, inbound, connVars>>
        /\ \A i \in DOMAIN body : i # k => body'[i] = body[i]
    BY <1>8, Polled
  <2>2. PICK taken \in Seq(Units), rest \in Seq(Units) :
            /\ body[k].buf = taken \o rest
            /\ body'[k].got = body[k].got \o taken /\ body'[k].buf = rest
    BY <1>8, Polled
  <2>3. (body[k].got \o taken) \o rest = body[k].got \o (taken \o rest)
    BY BodyType, Regroup, ZenonT(30)
  <2>4. \A j \in DOMAIN body : Line(j)' = Line(j)
    BY <2>1, <2>2, <2>3 DEF Line
  <2>5. Ahead' = Ahead
    BY <2>1 DEF Ahead, connVars
  <2> QED
    BY <1>3, <2>1, <2>4, <2>5, NoneMoved
<1> QED
  BY <1>3, <1>5, <1>6, <1>7, <1>8, Movements

\* How often something is in a sequence, as a number.
LEMMA Counted ==
    ASSUME NEW s, NEW u
    PROVE  /\ NotIn(u, s) => Times(u, s) = 0
           /\ OnceIn(u, s) => Times(u, s) = 1
<1> DEFINE at == {i \in DOMAIN s : s[i] = u}
<1>1. ASSUME NotIn(u, s) PROVE Cardinality(at) = 0
  <2>1. at = {}
    BY <1>1 DEF NotIn
  <2> QED
    BY <2>1, FS_EmptySet
<1>2. ASSUME OnceIn(u, s) PROVE Cardinality(at) = 1
  <2>1. PICK i : at = {i}
    BY <1>2 DEF OnceIn
  <2> QED
    BY <2>1, FS_Singleton
<1> QED
  BY <1>1, <1>2 DEF Times

\* What is in one place is counted once.
LEMMA PlacedOnce ==
    ASSUME TypeInv, NEW u, Placed(u)
    PROVE  LET bodies == {k \in DOMAIN body : Times(u, body[k].got \o body[k].buf) = 1} IN
           /\ \A k \in DOMAIN body : Times(u, body[k].got \o body[k].buf) <= 1
           /\ 1 = Cardinality(bodies) + Times(u, inbound) + Times(u, buffer)
                   + Times(u, requests) + Times(u, serving.part)
<1> DEFINE bodies == {k \in DOMAIN body : Times(u, Line(k)) = 1}
<1>1. ASSUME NEW k \in DOMAIN body
      PROVE  /\ NotIn(u, Line(k)) => Times(u, Line(k)) = 0
             /\ OnceIn(u, Line(k)) => Times(u, Line(k)) = 1
  BY Counted
<1>2. \A k \in DOMAIN body : Times(u, Line(k)) \in {0, 1}
  BY <1>1 DEF Placed
<1>3. ASSUME \A k \in DOMAIN body : NotIn(u, Line(k)) PROVE Cardinality(bodies) = 0
  <2>1. bodies = {}
    BY <1>1, <1>3
  <2> QED
    BY <2>1, FS_EmptySet
<1>4. ASSUME NEW k \in DOMAIN body, OnceIn(u, Line(k)),
             \A j \in DOMAIN body : j # k => NotIn(u, Line(j))
      PROVE  Cardinality(bodies) = 1
  <2>1. bodies = {k}
    BY <1>1, <1>4
  <2> QED
    BY <2>1, FS_Singleton
<1>5. /\ NotIn(u, Ahead) =>
             Times(u, inbound) = 0 /\ Times(u, buffer) = 0 /\ Times(u, serving.part) = 0
      /\ OnceIn(u, Ahead) =>
             \/ Times(u, inbound) = 1 /\ Times(u, buffer) = 0 /\ Times(u, serving.part) = 0
             \/ Times(u, inbound) = 0 /\ Times(u, buffer) = 1 /\ Times(u, serving.part) = 0
             \/ Times(u, inbound) = 0 /\ Times(u, buffer) = 0 /\ Times(u, serving.part) = 1
  <2> DEFINE first == serving.part \o buffer
  <2>1. /\ serving.part \in Seq(Units) /\ buffer \in Seq(Units) /\ inbound \in Seq(Units)
        /\ first \in Seq(Units)
    BY AheadType
  <2>2. /\ NotIn(u, first) <=> NotIn(u, serving.part) /\ NotIn(u, buffer)
        /\ OnceIn(u, first) <=> \/ OnceIn(u, serving.part) /\ NotIn(u, buffer)
                                \/ NotIn(u, serving.part) /\ OnceIn(u, buffer)
    BY <2>1, Concatenated
  <2>3. Ahead = first \o inbound
    BY DEF Ahead
  <2> HIDE DEF first
  <2>4. /\ NotIn(u, Ahead) <=> NotIn(u, first) /\ NotIn(u, inbound)
        /\ OnceIn(u, Ahead) <=> \/ OnceIn(u, first) /\ NotIn(u, inbound)
                                \/ NotIn(u, first) /\ OnceIn(u, inbound)
    BY <2>1, <2>3, Concatenated
  <2> QED
    BY <2>2, <2>4, Counted
<1>6. /\ NotIn(u, requests) => Times(u, requests) = 0
      /\ OnceIn(u, requests) => Times(u, requests) = 1
  BY Counted
<1>7. 1 = Cardinality(bodies) + Times(u, inbound) + Times(u, buffer)
              + Times(u, requests) + Times(u, serving.part)
  <2> HIDE DEF bodies
  <2>1. CASE OnceIn(u, Ahead) /\ NotIn(u, requests) /\ \A j \in DOMAIN body : NotIn(u, Line(j))
    BY <1>3, <1>5, <1>6, <2>1
  <2>2. CASE NotIn(u, Ahead) /\ OnceIn(u, requests) /\ \A j \in DOMAIN body : NotIn(u, Line(j))
    BY <1>3, <1>5, <1>6, <2>2
  <2>3. CASE /\ NotIn(u, Ahead) /\ NotIn(u, requests)
             /\ \E k \in DOMAIN body :
                    OnceIn(u, Line(k)) /\ \A j \in DOMAIN body : j # k => NotIn(u, Line(j))
    BY <1>4, <1>5, <1>6, <2>3
  <2> QED
    BY <2>1, <2>2, <2>3 DEF Placed
<1> QED
  BY <1>2, <1>7 DEF Line

\* However the connection, the readers and the tasks that drain bodies take turns: while
\* the connection is open every unit of the peer's stream is in one place, once.
THEOREM NothingIsLost == Spec => []NothingLost
<1>1. Init => TypeInv /\ AskInv
  BY InitType DEF Init, AskInv, Serves, NotServing
<1>2. Init => PlacedInv
  <2> SUFFICES ASSUME Init PROVE PlacedInv
    OBVIOUS
  <2>1. /\ stream \in Seq(Heads \cup (Data \ {Stale}))
        /\ \A i, j \in DOMAIN stream : stream[i] = stream[j] => i = j
    BY H1Assumption DEF Init, H1Assumption
  <2>2. /\ inbound = stream /\ buffer = << >> /\ serving.part = << >>
        /\ requests = << >> /\ body = << >>
    BY DEF Init, NotServing
  <2>3. \A i \in DOMAIN stream : stream[i] \in Units \ {Stale}
    <3>1. Stale \notin Heads
      BY DEF Stale, Heads
    <3> QED
      BY <2>1, <3>1 DEF Units
  <2>4. Ahead = stream
    <3>1. Ahead = << >> \o << >> \o stream /\ << >> \o << >> = << >>
      BY <2>2 DEF Ahead
    <3> QED
      BY <2>1, <3>1, ConcatEmptySeq
  <2>5. ASSUME NEW i \in DOMAIN stream PROVE Placed(stream[i])
    <3>1. OnceIn(stream[i], Ahead)
      BY <2>1, <2>4 DEF OnceIn
    <3>2. NotIn(stream[i], requests) /\ DOMAIN body = {}
      BY <2>2 DEF NotIn
    <3> QED
      BY <3>1, <3>2 DEF Placed
  <2> QED
    BY <2>3, <2>5 DEF PlacedInv
<1>3. TypeInv /\ AskInv /\ PlacedInv /\ [Next]_vars => (TypeInv /\ AskInv /\ PlacedInv)'
  BY TypeStep, AskStep, PlacedStep
<1>4. TypeInv /\ PlacedInv => NothingLost
  BY PlacedOnce DEF PlacedInv, NothingLost
<1> QED
  BY <1>1, <1>2, <1>3, <1>4, PTL DEF Spec
=============================================================================
