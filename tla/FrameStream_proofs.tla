------------------------- MODULE FrameStream_proofs -------------------------
(***************************************************************************)
(* Proof that one direction of a framed connection implements FrameChannel *)
(* for every set of frames, buffer size and sequence of faults.            *)
(*                                                                         *)
(* The units between the frames parsed so far and the end of what was sent *)
(* are, one by one, the ones encodeFrame laid out or garbage.  To say so   *)
(* without adding up the sizes of frames, the invariant says that there is *)
(* a layout: the place in the stream where each frame starts.              *)
(***************************************************************************)
EXTENDS FrameStream, SequenceTheorems, TLAPS

\* A field, a byte, garbage, or a CRC.
Unit == Seq(Nat) \cup ({0} \X Seq(Seq(Nat)))

\* The number of units encodeFrame makes of f.
Size(f) == kHeader + Len(f.payload) + 1

\* Type correctness.
StreamTypeOK ==
    /\ tx \in [todo : Seq(Unit), wire : Seq(Unit), open : BOOLEAN]
    /\ rx \in [buf : Seq(Unit), err : BOOLEAN, frames : Seq(Frame),
               phase : {"run", "parse", "false", "end"}]
    /\ sent \in Seq(Frame) /\ delivered \in Seq(Frame)

\* Concatenation, by a name.
Cat(a, b) == a \o b

\* The number of frames that have left the stream, and the units still in it.
Parsed == Len(delivered) + Len(rx.frames)
InFlight == Cat(Cat(rx.buf, tx.wire), tx.todo)

\* off[i] + 1 is the place of the first unit of frame i.
Layout(off) ==
    /\ off \in [1 .. Len(sent) + 1 -> Nat]
    /\ \A i \in 1 .. Len(sent) : off[i + 1] = off[i] + Size(sent[i])
    /\ \A i \in 1 .. Len(sent) + 1 : off[i] <= off[Len(sent) + 1]

\* Unit p of s is unit j of frame f, unless the wire changed it.
Carries(s, p, f, j) == p \in 1 .. Len(s) => s[p] = encodeFrame(f)[j] \/ s[p] \in Garbage

\* The units in flight are those of the frames not parsed yet, up to a point; up
\* to the end while the sender's socket is open.
Faithful(off) ==
    /\ off[Parsed + 1] + Len(InFlight) <= off[Len(sent) + 1]
    /\ tx.open => off[Parsed + 1] + Len(InFlight) = off[Len(sent) + 1]
    /\ \A i \in Parsed + 1 .. Len(sent) : \A j \in 1 .. Size(sent[i]) :
          Carries(InFlight, off[i] - off[Parsed + 1] + j, sent[i], j)

\* Until an error the receiver has the frames that were sent, in order, and the
\* rest of the stream is what encodeFrame laid out or garbage.
OrderInv ==
    /\ Len(delivered) <= Len(sent)
    /\ rx.err => rx.frames = <<>> /\ rx.phase # "parse"
    /\ ~ rx.err =>
          /\ Parsed <= Len(sent)
          /\ \A i \in 1 .. Len(rx.frames) : rx.frames[i] = sent[Len(delivered) + i]
          /\ \E off : Layout(off) /\ Faithful(off)

\* The inductive invariant.
StreamInv == StreamTypeOK /\ OrderInv

-----------------------------------------------------------------------------
(* The codec. *)

\* Where the units of a concatenation are.
LEMMA Joined ==
    ASSUME NEW a \in Seq(Unit), NEW b \in Seq(Unit)
    PROVE  /\ Cat(a, b) \in Seq(Unit) /\ Len(Cat(a, b)) = Len(a) + Len(b)
           /\ \A i \in 1 .. Len(a) : Cat(a, b)[i] = a[i]
           /\ \A i \in 1 .. Len(b) : Cat(a, b)[Len(a) + i] = b[i]
  <1>1. Len(a) \in Nat /\ Len(b) \in Nat  OBVIOUS
  <1>2. /\ Cat(a, b) \in Seq(Unit) /\ Len(Cat(a, b)) = Len(a) + Len(b)
        /\ \A i \in 1 .. Len(a) + Len(b) :
              Cat(a, b)[i] = IF i <= Len(a) THEN a[i] ELSE b[i - Len(a)]
    BY ConcatProperties, Zenon DEF Cat
  <1>3. \A i \in 1 .. Len(a) : Cat(a, b)[i] = a[i]  BY <1>1, <1>2
  <1>4. \A i \in 1 .. Len(b) : Cat(a, b)[Len(a) + i] = b[i]  BY <1>1, <1>2
  <1>5. QED  BY <1>2, <1>3, <1>4, Zenon

\* Cutting a sequence in two.
LEMMA Cut ==
    ASSUME NEW s \in Seq(Unit), NEW n \in 0 .. Len(s)
    PROVE  /\ Taken(s, n) \in Seq(Unit) /\ Len(Taken(s, n)) = n
           /\ \A i \in 1 .. n : Taken(s, n)[i] = s[i]
           /\ Rest(s, n) \in Seq(Unit) /\ Len(Rest(s, n)) = Len(s) - n
           /\ \A i \in 1 .. Len(s) - n : Rest(s, n)[i] = s[n + i]
  <1>1. Len(s) \in Nat /\ \A i \in 1 .. Len(s) : s[i] \in Unit  OBVIOUS
  <1>2. QED  BY <1>1 DEF Taken, Rest

\* The pieces put together again.
LEMMA CutJoined ==
    ASSUME NEW s \in Seq(Unit), NEW n \in 0 .. Len(s)
    PROVE  Cat(Taken(s, n), Rest(s, n)) = s
  <1> DEFINE a == Taken(s, n)
             b == Rest(s, n)
             t == Cat(a, b)
  <1>1. /\ Len(s) \in Nat /\ n \in Nat
        /\ a \in Seq(Unit) /\ Len(a) = n /\ b \in Seq(Unit) /\ Len(b) = Len(s) - n
    BY Cut
  <1>2. \A i \in 1 .. n : a[i] = s[i]  BY Cut
  <1>3. \A i \in 1 .. Len(s) - n : b[i] = s[n + i]  BY Cut
  <1> HIDE DEF a, b
  <1>4. t \in Seq(Unit)  BY <1>1, Joined
  <1>5. Len(t) = Len(s)
    <2>1. Len(t) = Len(a) + Len(b)  BY <1>1, Joined
    <2>2. QED  BY <1>1, <2>1
  <1>6. \A i \in 1 .. Len(a) : t[i] = a[i]  BY <1>1, Joined
  <1>7. \A i \in 1 .. Len(b) : t[Len(a) + i] = b[i]  BY <1>1, Joined
  <1> HIDE DEF t
  <1>8. ASSUME NEW i \in 1 .. Len(s)  PROVE t[i] = s[i]
    <2>1. CASE i <= n  BY <1>1, <1>2, <1>6, <2>1
    <2>2. CASE i > n
      <3>1. i - n \in 1 .. Len(s) - n /\ i = n + (i - n)  BY <1>1, <2>2
      <3>2. QED  BY <1>1, <1>3, <1>7, <3>1
    <2>3. QED  BY <1>1, <2>1, <2>2
  <1>9. t = s  BY <1>4, <1>5, <1>8, SeqEqual
  <1>10. QED  BY <1>9 DEF t, a, b

\* Cat is associative.
LEMMA CatAssociative ==
    ASSUME NEW a \in Seq(Unit), NEW b \in Seq(Unit), NEW c \in Seq(Unit)
    PROVE  Cat(Cat(a, b), c) = Cat(a, Cat(b, c))
  <1>1. (a \o b) \o c = a \o (b \o c)  BY ConcatAssociative
  <1>2. QED  BY <1>1, Zenon DEF Cat

\* The empty sequence adds nothing.
LEMMA CatEmpty ==
    ASSUME NEW a \in Seq(Unit)
    PROVE  <<>> \in Seq(Unit) /\ Cat(a, <<>>) = a
  <1>1. a \o <<>> = a  BY ConcatEmptySeq, Zenon
  <1>2. QED  BY <1>1 DEF Cat

\* What encodeFrame lays out.
LEMMA Encoded ==
    ASSUME NEW f \in Frame
    PROVE  /\ encodeFrame(f) \in Seq(Unit) /\ Len(encodeFrame(f)) = Size(f)
           /\ Size(f) \in Nat /\ Size(f) >= 5
           /\ encodeFrame(f)[4] = crc32(Header(f))
           /\ encodeFrame(f)[Size(f)] = crc32(f.payload)
  <1> DEFINE h == Header(f)
             p == f.payload
             u == <<crc32(h)>>
             v == <<crc32(p)>>
             hu == Cat(h, u)
             hp == Cat(hu, p)
  <1>1. p \in Seq(Seq(Nat)) /\ Len(p) \in Nat /\ f.type \in Nat /\ kFrameMagic \in Nat
    BY CodecAssumption
  <1>2. h \in Seq(Seq(Nat)) /\ Len(h) = 3
    BY <1>1 DEF Header
  <1>3. crc32(h) \in Unit /\ crc32(p) \in Unit
    BY <1>1, <1>2 DEF crc32, Unit
  <1>4. h \in Seq(Unit) /\ p \in Seq(Unit)
    BY <1>1, <1>2 DEF Unit
  <1>5. /\ u \in Seq(Unit) /\ Len(u) = 1 /\ u[1] = crc32(h)
        /\ v \in Seq(Unit) /\ Len(v) = 1 /\ v[1] = crc32(p)
    BY <1>3
  <1>6. encodeFrame(f) = Cat(hp, v)
    BY Zenon DEF encodeFrame, Cat, h, p, u, v, hu, hp
  <1>7. Size(f) = Len(p) + 5  BY <1>1 DEF Size, kHeader
  <1> HIDE DEF h, p, u, v
  <1>8. hu \in Seq(Unit) /\ Len(hu) = 4 /\ hu[4] = crc32(h)
    <2>1. hu \in Seq(Unit) /\ Len(hu) = Len(h) + Len(u)  BY <1>4, <1>5, Joined, Zenon
    <2>2. \A i \in 1 .. Len(u) : hu[Len(h) + i] = u[i]  BY <1>4, <1>5, Joined, Zenon
    <2>3. QED  BY <1>2, <1>5, <2>1, <2>2
  <1> HIDE DEF hu
  <1>9. hp \in Seq(Unit) /\ Len(hp) = Len(p) + 4 /\ hp[4] = crc32(h)
    <2>1. hp \in Seq(Unit) /\ Len(hp) = Len(hu) + Len(p)  BY <1>4, <1>8, Joined, Zenon
    <2>2. \A i \in 1 .. Len(hu) : hp[i] = hu[i]  BY <1>4, <1>8, Joined, Zenon
    <2>3. QED  BY <1>1, <1>8, <2>1, <2>2
  <1> HIDE DEF hp
  <1>10. /\ Cat(hp, v) \in Seq(Unit) /\ Len(Cat(hp, v)) = Len(p) + 5
         /\ Cat(hp, v)[4] = crc32(h) /\ Cat(hp, v)[Len(p) + 5] = crc32(p)
    <2> DEFINE e == Cat(hp, v)
    <2>1. e \in Seq(Unit) /\ Len(e) = Len(hp) + Len(v)  BY <1>5, <1>9, Joined, Zenon
    <2>2. \A i \in 1 .. Len(hp) : e[i] = hp[i]  BY <1>5, <1>9, Joined, Zenon
    <2>3. \A i \in 1 .. Len(v) : e[Len(hp) + i] = v[i]  BY <1>5, <1>9, Joined, Zenon
    <2> HIDE DEF e
    <2>4. e[4] = crc32(h)  BY <1>1, <1>9, <2>2, SMTT(40)
    <2>5. e[(Len(p) + 4) + 1] = crc32(p)  BY <1>5, <1>9, <2>3
    <2>6. Len(e) = Len(p) + 5 /\ (Len(p) + 4) + 1 = Len(p) + 5  BY <1>1, <1>5, <1>9, <2>1
    <2>7. QED  BY <2>1, <2>4, <2>5, <2>6 DEF e
  <1>11. Len(p) + 5 \in Nat /\ Len(p) + 5 >= 5  BY <1>1
  <1>12. QED  BY <1>6, <1>7, <1>10, <1>11, Zenon DEF h, p

\* Garbage is no CRC.
LEMMA NoCrc ==
    ASSUME NEW u \in Garbage, NEW s
    PROVE  u # crc32(s)
  <1>1. Len(crc32(s)) = 2  BY DEF crc32
  <1>2. Len(u) = 1  BY CodecAssumption DEF Plain
  <1>3. QED  BY <1>1, <1>2

\* A start of the buffer that feed takes for a frame is the frame that was
\* sent, although any of its units may have been changed.
LEMMA IntactIsSent ==
    ASSUME NEW b \in Seq(Unit), Intact(b), NEW f \in Frame,
           \A j \in 1 .. Size(f) : Carries(b, j, f, j)
    PROVE  /\ Total(b) = Size(f) /\ Total(b) <= Len(b)
           /\ [type |-> b[2][1], payload |-> Payload(b)] = f
  <1>1. /\ Len(b) >= 4 /\ b[4] = crc32(Taken(b, 3)) /\ b[Total(b)] = crc32(Payload(b))
        /\ Len(b) \in Nat
    BY DEF Intact, Incomplete, kHeader
  <1>2. b[4] = crc32(Header(f))
    BY <1>1, NoCrc, Encoded DEF Carries
  <1>3. Taken(b, 3) = Header(f)
    BY <1>1, <1>2 DEF crc32
  <1>4. b[2] = <<f.type>> /\ b[3] = <<Len(f.payload)>>
    <2>1. Taken(b, 3)[2] = b[2] /\ Taken(b, 3)[3] = b[3]  BY <1>1 DEF Taken
    <2>2. QED  BY <2>1, <1>3 DEF Header
  <1>5. Total(b) = Size(f)
    BY <1>4 DEF Total, Size
  <1>6. Total(b) \in Nat /\ Total(b) <= Len(b) /\ Total(b) >= 5
    BY <1>1, <1>5, Encoded DEF Intact, Incomplete
  <1>7. b[Total(b)] = crc32(f.payload)
    BY <1>1, <1>5, <1>6, NoCrc, Encoded DEF Carries
  <1>8. Payload(b) = f.payload
    BY <1>1, <1>7 DEF crc32
  <1>9. QED  BY <1>4, <1>5, <1>6, <1>8, CodecAssumption
-----------------------------------------------------------------------------
(* The stream. *)

\* s is a, then b, then c.
Flows(s, a, b, c) ==
    /\ s \in Seq(Unit) /\ Len(s) = Len(a) + Len(b) + Len(c)
    /\ \A i \in 1 .. Len(a) : s[i] = a[i]
    /\ \A i \in 1 .. Len(b) : s[Len(a) + i] = b[i]
    /\ \A i \in 1 .. Len(c) : s[Len(a) + Len(b) + i] = c[i]

\* Where the units in flight are.
LEMMA Flow ==
    ASSUME NEW a \in Seq(Unit), NEW b \in Seq(Unit), NEW c \in Seq(Unit)
    PROVE  Flows(Cat(Cat(a, b), c), a, b, c)
  <1> DEFINE t == Cat(a, b)
             s == Cat(t, c)
  <1>0. Len(a) \in Nat /\ Len(b) \in Nat /\ Len(c) \in Nat  OBVIOUS
  <1>1. t \in Seq(Unit) /\ Len(t) = Len(a) + Len(b)  BY Joined, Zenon
  <1>2. \A i \in 1 .. Len(a) : t[i] = a[i]  BY Joined, Zenon
  <1>3. \A i \in 1 .. Len(b) : t[Len(a) + i] = b[i]  BY Joined, Zenon
  <1> HIDE DEF t
  <1>4. s \in Seq(Unit) /\ Len(s) = Len(t) + Len(c)  BY <1>1, Joined, Zenon
  <1>5. \A i \in 1 .. Len(t) : s[i] = t[i]  BY <1>1, Joined, Zenon
  <1>6. \A i \in 1 .. Len(c) : s[Len(t) + i] = c[i]  BY <1>1, Joined, Zenon
  <1> HIDE DEF s
  <1>7. Len(s) = Len(a) + Len(b) + Len(c)  BY <1>0, <1>1, <1>4
  <1>8. \A i \in 1 .. Len(a) : s[i] = a[i]  BY <1>0, <1>1, <1>2, <1>5
  <1>9. \A i \in 1 .. Len(b) : s[Len(a) + i] = b[i]  BY <1>0, <1>1, <1>3, <1>5
  <1>10. \A i \in 1 .. Len(c) : s[Len(a) + Len(b) + i] = c[i]  BY <1>0, <1>1, <1>6
  <1>11. Flows(s, a, b, c)  BY <1>4, <1>7, <1>8, <1>9, <1>10, Zenon DEF Flows
  <1>12. QED  BY <1>11 DEF s, t

\* The types of the parts.
LEMMA Parts ==
    ASSUME StreamTypeOK
    PROVE  /\ tx.todo \in Seq(Unit) /\ tx.wire \in Seq(Unit) /\ rx.buf \in Seq(Unit)
           /\ InFlight \in Seq(Unit) /\ Len(InFlight) \in Nat
           /\ Len(InFlight) = Len(rx.buf) + Len(tx.wire) + Len(tx.todo)
           /\ Len(sent) \in Nat /\ Len(delivered) \in Nat /\ Len(rx.frames) \in Nat
           /\ Parsed \in Nat
           /\ Flows(InFlight, rx.buf, tx.wire, tx.todo)
  <1>1. tx.todo \in Seq(Unit) /\ tx.wire \in Seq(Unit) /\ rx.buf \in Seq(Unit)
    BY DEF StreamTypeOK
  <1>f. Flows(InFlight, rx.buf, tx.wire, tx.todo)
    BY <1>1, Flow, Zenon DEF InFlight
  <1>2. InFlight \in Seq(Unit) /\ Len(InFlight) = Len(rx.buf) + Len(tx.wire) + Len(tx.todo)
    BY <1>f, Zenon DEF Flows
  <1>3. Len(sent) \in Nat /\ Len(delivered) \in Nat /\ Len(rx.frames) \in Nat
    BY DEF StreamTypeOK
  <1>4. Len(InFlight) \in Nat  BY <1>2, LenProperties, Zenon
  <1>5. Parsed \in Nat  BY <1>3 DEF Parsed
  <1>6. QED  BY <1>f, <1>1, <1>2, <1>3, <1>4, <1>5, Zenon

\* Steps that take units off the end of the stream, change some into garbage, or
\* move them along leave a faithful stream faithful.
LEMMA FlowsOn ==
    ASSUME StreamTypeOK, StreamTypeOK', NEW off, Faithful(off), Layout(off),
           sent' = sent, Parsed' = Parsed, Parsed <= Len(sent),
           Len(InFlight') <= Len(InFlight),
           tx'.open => tx.open /\ Len(InFlight') = Len(InFlight),
           \A p \in 1 .. Len(InFlight') : InFlight'[p] = InFlight[p] \/ InFlight'[p] \in Garbage
    PROVE  Layout(off)' /\ Faithful(off)'
  <1>0. /\ Len(InFlight) \in Nat /\ Len(InFlight') \in Nat /\ Len(sent) \in Nat /\ Parsed \in Nat
    BY Parts
  <1>1. Layout(off)'  BY DEF Layout
  <1>2. off[Parsed + 1] \in Nat /\ off[Len(sent) + 1] \in Nat
    <2>1. off \in [1 .. Len(sent) + 1 -> Nat]  BY Zenon DEF Layout
    <2>2. Parsed + 1 \in 1 .. Len(sent) + 1 /\ Len(sent) + 1 \in 1 .. Len(sent) + 1
      BY <1>0
    <2>3. QED  BY <2>1, <2>2, Zenon
  <1>3. /\ off[Parsed + 1] + Len(InFlight') <= off[Len(sent) + 1]
        /\ tx'.open => off[Parsed + 1] + Len(InFlight') = off[Len(sent) + 1]
    BY <1>0, <1>2 DEF Faithful
  <1>4. ASSUME NEW i \in Parsed + 1 .. Len(sent), NEW j \in 1 .. Size(sent[i])
        PROVE  Carries(InFlight', off[i] - off[Parsed + 1] + j, sent[i], j)
    <2> DEFINE p == off[i] - off[Parsed + 1] + j
    <2>1. Carries(InFlight, p, sent[i], j)  BY DEF Faithful
    <2> HIDE DEF p
    <2>2. QED  BY <1>0, <2>1 DEF Carries, p
  <1>5. QED  BY <1>1, <1>3, <1>4 DEF Faithful

\* Such a step keeps the whole invariant if the receiver has no new frame.
LEMMA OrderFlowsOn ==
    ASSUME StreamInv, StreamTypeOK', sent' = sent, delivered' = delivered,
           rx'.frames = rx.frames, rx'.err = rx.err, rx.err => rx'.phase # "parse",
           ~ rx.err =>
               /\ Len(InFlight') <= Len(InFlight)
               /\ tx'.open => tx.open /\ Len(InFlight') = Len(InFlight)
               /\ \A p \in 1 .. Len(InFlight') :
                     InFlight'[p] = InFlight[p] \/ InFlight'[p] \in Garbage
    PROVE  StreamInv'
  <1>1. Parsed' = Parsed  BY DEF Parsed
  <1>2. Len(delivered)' <= Len(sent)' /\ (rx'.err => rx'.frames = <<>> /\ rx'.phase # "parse")
    BY DEF StreamInv, OrderInv
  <1>3. ASSUME ~ rx.err
        PROVE  /\ Parsed' <= Len(sent')
               /\ \A i \in 1 .. Len(rx'.frames) : rx'.frames[i] = sent'[Len(delivered') + i]
               /\ \E off : Layout(off)' /\ Faithful(off)'
    <2>1. PICK off : Layout(off) /\ Faithful(off)
      BY <1>3, Zenon DEF StreamInv, OrderInv
    <2>2. Parsed <= Len(sent)  BY <1>3, Zenon DEF StreamInv, OrderInv
    <2>3. StreamTypeOK  BY DEF StreamInv
    <2>4. Layout(off)' /\ Faithful(off)'
      BY <1>1, <1>3, <2>1, <2>2, <2>3, FlowsOn, Zenon
    <2>5. \A i \in 1 .. Len(rx'.frames) : rx'.frames[i] = sent'[Len(delivered') + i]
      BY <1>3, Zenon DEF StreamInv, OrderInv
    <2>6. QED  BY <1>1, <2>2, <2>4, <2>5, Zenon
  <1>4. QED  BY <1>2, <1>3, Zenon DEF StreamInv, OrderInv

\* One turn of sendAll moves units along.
LEMMA SendSomeKeeps ==
    ASSUME StreamInv, SendSome
    PROVE  StreamInv'
  <1>1. PICK n \in 1 .. Len(tx.todo) :
            /\ tx' = [tx EXCEPT !.wire = tx.wire \o Taken(tx.todo, n), !.todo = Rest(tx.todo, n)]
            /\ UNCHANGED <<rx, sent, delivered>>
    BY DEF SendSome
  <1>2. StreamTypeOK  BY DEF StreamInv
  <1>3. /\ tx.todo \in Seq(Unit) /\ tx.wire \in Seq(Unit) /\ rx.buf \in Seq(Unit)
        /\ Len(InFlight) \in Nat
    BY <1>2, Parts
  <1> DEFINE a == Taken(tx.todo, n)
             b == Rest(tx.todo, n)
  <1>4. n \in 0 .. Len(tx.todo)  BY <1>1, <1>3
  <1>5. a \in Seq(Unit) /\ b \in Seq(Unit) /\ Cat(a, b) = tx.todo
    BY <1>3, <1>4, Cut, CutJoined, Zenon
  <1> HIDE DEF a, b
  <1>6. tx' = [todo |-> b, wire |-> Cat(tx.wire, a), open |-> tx.open]
    BY <1>1, <1>2 DEF StreamTypeOK, Cat, a, b
  <1>7. Cat(tx.wire, a) \in Seq(Unit)  BY <1>3, <1>5, Joined, Zenon
  <1>8. StreamTypeOK'
    BY <1>1, <1>2, <1>5, <1>6, <1>7 DEF StreamTypeOK
  <1>9. InFlight' = InFlight
    <2>0. rx' = rx  BY <1>1
    <2>1. tx'.todo = b /\ tx'.wire = Cat(tx.wire, a) /\ rx' = rx  BY <1>6, <2>0
    <2>2. InFlight' = Cat(Cat(rx.buf, Cat(tx.wire, a)), b)  BY <2>1, Zenon DEF InFlight
    <2>3. Cat(rx.buf, Cat(tx.wire, a)) = Cat(Cat(rx.buf, tx.wire), a)
      BY <1>3, <1>5, CatAssociative, Zenon
    <2>4. Cat(rx.buf, tx.wire) \in Seq(Unit)  BY <1>3, Joined, Zenon
    <2>5. Cat(Cat(Cat(rx.buf, tx.wire), a), b) = Cat(Cat(rx.buf, tx.wire), Cat(a, b))
      BY <1>5, <2>4, CatAssociative, Zenon
    <2>6. QED  BY <1>5, <2>2, <2>3, <2>5, Zenon DEF InFlight
  <1>10. /\ tx'.open = tx.open /\ Len(InFlight') = Len(InFlight) /\ Len(InFlight') <= Len(InFlight)
         /\ rx' = rx /\ sent' = sent /\ delivered' = delivered
    BY <1>1, <1>3, <1>6, <1>9
  <1>11. rx.err => rx.phase # "parse"  BY DEF StreamInv, OrderInv
  <1>12. QED  BY <1>8, <1>9, <1>10, <1>11, OrderFlowsOn, Zenon

\* The receiver gets units, or has failed before.
LEMMA RecvKeeps ==
    ASSUME StreamInv, Recv
    PROVE  StreamInv'
  <1>1. PICK n \in 1 .. Len(tx.wire) :
            /\ tx' = [tx EXCEPT !.wire = Rest(tx.wire, n)]
            /\ rx' = IF rx.err THEN [rx EXCEPT !.phase = "false"]
                     ELSE [rx EXCEPT !.buf = rx.buf \o Taken(tx.wire, n), !.phase = "parse"]
    BY DEF Recv
  <1>2. StreamTypeOK /\ sent' = sent /\ delivered' = delivered  BY DEF StreamInv, Recv
  <1>3. /\ tx.todo \in Seq(Unit) /\ tx.wire \in Seq(Unit) /\ rx.buf \in Seq(Unit)
        /\ Len(InFlight) \in Nat
    BY <1>2, Parts
  <1> DEFINE a == Taken(tx.wire, n)
             b == Rest(tx.wire, n)
  <1>4. n \in 0 .. Len(tx.wire)  BY <1>1, <1>3
  <1>5. a \in Seq(Unit) /\ b \in Seq(Unit) /\ Cat(a, b) = tx.wire
    BY <1>3, <1>4, Cut, CutJoined, Zenon
  <1> HIDE DEF a, b
  <1>6. tx' = [todo |-> tx.todo, wire |-> b, open |-> tx.open]
    BY <1>1, <1>2 DEF StreamTypeOK, b
  <1>7. Cat(rx.buf, a) \in Seq(Unit)  BY <1>3, <1>5, Joined, Zenon
  <1>8. CASE rx.err
    <2>1. rx' = [rx EXCEPT !.phase = "false"]  BY <1>1, <1>8
    <2>2. StreamTypeOK'  BY <1>2, <1>5, <1>6, <2>1 DEF StreamTypeOK
    <2>3. rx'.err = rx.err /\ rx'.frames = rx.frames /\ rx'.phase = "false"
      BY <1>2, <2>1 DEF StreamTypeOK
    <2>4. QED  BY <1>2, <1>8, <2>2, <2>3, OrderFlowsOn, Zenon
  <1>9. CASE ~ rx.err
    <2>1. rx' = [buf |-> Cat(rx.buf, a), err |-> rx.err, frames |-> rx.frames, phase |-> "parse"]
      BY <1>1, <1>2, <1>9 DEF StreamTypeOK, Cat, a
    <2>2. StreamTypeOK'  BY <1>2, <1>5, <1>6, <1>7, <2>1 DEF StreamTypeOK
    <2>3. InFlight' = InFlight
      <3>1. tx'.todo = tx.todo /\ tx'.wire = b /\ rx'.buf = Cat(rx.buf, a)  BY <1>6, <2>1
      <3>2. InFlight' = Cat(Cat(Cat(rx.buf, a), b), tx.todo)  BY <3>1, Zenon DEF InFlight
      <3>3. Cat(Cat(rx.buf, a), b) = Cat(rx.buf, Cat(a, b))
        BY <1>3, <1>5, CatAssociative, Zenon
      <3>4. QED  BY <1>5, <3>2, <3>3, Zenon DEF InFlight
    <2>4. /\ tx'.open = tx.open /\ Len(InFlight') = Len(InFlight) /\ Len(InFlight') <= Len(InFlight)
          /\ rx'.err = rx.err /\ rx'.frames = rx.frames
      BY <1>3, <1>6, <2>1, <2>3
    <2>5. QED  BY <1>2, <1>9, <2>2, <2>3, <2>4, OrderFlowsOn, Zenon
  <1>10. QED  BY <1>8, <1>9

\* w is a start of v in which some units are garbage.
Garbled(w, v) ==
    Len(w) <= Len(v) /\ \A i \in 1 .. Len(w) : w[i] = v[i] \/ w[i] \in Garbage

\* Sums of lengths.
LEMMA Sums ==
    \A x, y, z, u, v \in Nat : y <= u /\ z <= v => x + y + z <= x + u + v
  OBVIOUS

\* A place in the last of three parts.
LEMMA LastPart ==
    ASSUME NEW x \in Nat, NEW y \in Nat, NEW z \in Nat, NEW p \in 1 .. x + y + z, p > x + y
    PROVE  \E i \in 1 .. z : p = x + y + i
  <1>1. p - (x + y) \in 1 .. z /\ p = x + y + (p - (x + y))  OBVIOUS
  <1>2. QED  BY <1>1, Zenon

\* A shorter wire with some units changed, and nothing more to send, or a wire
\* of the same length: the receiver's side stands still.
LEMMA WireKeeps ==
    ASSUME StreamInv, NEW w \in Seq(Unit), NEW t \in Seq(Unit), NEW o \in BOOLEAN,
           tx' = [todo |-> t, wire |-> w, open |-> o],
           UNCHANGED <<rx, sent, delivered>>,
           Garbled(w, tx.wire),
           \/ t = <<>> /\ ~ o
           \/ t = tx.todo /\ o = tx.open /\ Len(w) = Len(tx.wire)
    PROVE  StreamInv'
  <1>1. StreamTypeOK  BY DEF StreamInv
  <1>2. StreamTypeOK'  BY <1>1 DEF StreamTypeOK
  <1>3. /\ tx.todo \in Seq(Unit) /\ tx.wire \in Seq(Unit) /\ rx.buf \in Seq(Unit)
        /\ InFlight \in Seq(Unit) /\ Len(InFlight) \in Nat
    BY <1>1, Parts
  <1>4. InFlight' = Cat(Cat(rx.buf, w), t)
    <2>1. tx'.wire = w /\ tx'.todo = t /\ rx' = rx  OBVIOUS
    <2>2. QED  BY <2>1, Zenon DEF InFlight
  <1> DEFINE s == InFlight'
  <1>5. Flows(InFlight, rx.buf, tx.wire, tx.todo)  BY <1>1, Parts
  <1>6. Flows(s, rx.buf, w, t)  BY <1>3, <1>4, Flow, Zenon
  <1> HIDE DEF s
  <1>7. \A i \in 1 .. Len(tx.wire) : InFlight[Len(rx.buf) + i] = tx.wire[i]
    BY <1>5, Zenon DEF Flows
  <1>8. \A i \in 1 .. Len(tx.todo) : InFlight[Len(rx.buf) + Len(tx.wire) + i] = tx.todo[i]
    BY <1>5, Zenon DEF Flows
  <1>e. Len(InFlight) = Len(rx.buf) + Len(tx.wire) + Len(tx.todo)  BY <1>5, Zenon DEF Flows
  <1>9. Len(s) = Len(rx.buf) + Len(w) + Len(t)  BY <1>6, Zenon DEF Flows
  <1>10. \A i \in 1 .. Len(rx.buf) : s[i] = InFlight[i]  BY <1>5, <1>6, Zenon DEF Flows
  <1>11. \A i \in 1 .. Len(w) : s[Len(rx.buf) + i] = w[i]  BY <1>6, Zenon DEF Flows
  <1>12. \A i \in 1 .. Len(t) : s[Len(rx.buf) + Len(w) + i] = t[i]  BY <1>6, Zenon DEF Flows
  <1>13. /\ Len(rx.buf) \in Nat /\ Len(w) \in Nat /\ Len(t) \in Nat
         /\ Len(tx.wire) \in Nat /\ Len(tx.todo) \in Nat
    BY <1>3
  <1>w. Len(w) <= Len(tx.wire)  BY Zenon DEF Garbled
  <1>14. \/ Len(t) = 0 /\ ~ o
         \/ t = tx.todo /\ Len(t) = Len(tx.todo) /\ o = tx.open /\ Len(w) = Len(tx.wire)
    OBVIOUS
  <1>15. Len(s) <= Len(InFlight)
    <2>1. Len(t) <= Len(tx.todo)  BY <1>13, <1>14
    <2>2. Len(rx.buf) + Len(w) + Len(t) <= Len(rx.buf) + Len(tx.wire) + Len(tx.todo)
      BY <1>13, <1>w, <2>1, Sums, Zenon
    <2>3. QED  BY <1>e, <1>9, <2>2, Zenon
  <1>16. o => tx.open /\ Len(s) = Len(InFlight)
    BY <1>e, <1>9, <1>13, <1>14
  <1>17. ASSUME NEW p \in 1 .. Len(s)  PROVE s[p] = InFlight[p] \/ s[p] \in Garbage
    <2>1. CASE p <= Len(rx.buf)  BY <1>10, <1>13, <2>1
    <2>2. CASE p > Len(rx.buf) /\ p <= Len(rx.buf) + Len(w)
      <3>1. PICK i \in 1 .. Len(w) : p = Len(rx.buf) + i
        <4>1. p - Len(rx.buf) \in 1 .. Len(w) /\ p = Len(rx.buf) + (p - Len(rx.buf))
          BY <1>13, <2>2
        <4>2. QED  BY <4>1, Zenon
      <3>2. i \in 1 .. Len(tx.wire)  BY <1>13, <1>w
      <3>3. QED  BY <1>7, <1>11, <3>1, <3>2, Zenon DEF Garbled
    <2>3. CASE p > Len(rx.buf) + Len(w)
      <3>1. PICK i \in 1 .. Len(t) : p = Len(rx.buf) + Len(w) + i
        <4>1. p \in 1 .. Len(rx.buf) + Len(w) + Len(t)  BY <1>9, Zenon
        <4>2. /\ Len(rx.buf) \in Nat /\ Len(w) \in Nat /\ Len(t) \in Nat
              /\ p > Len(rx.buf) + Len(w)
          BY <1>13, <2>3, Zenon
        <4> DEFINE x == Len(rx.buf)
                   y == Len(w)
                   z == Len(t)
        <4> HIDE DEF x, y, z
        <4>3. \E i \in 1 .. z : p = x + y + i
          <5>1. p \in 1 .. x + y + z /\ x \in Nat /\ y \in Nat /\ z \in Nat /\ p > x + y
            BY <4>1, <4>2, Zenon DEF x, y, z
          <5>2. QED  BY <5>1, LastPart
        <4>4. QED  BY <4>3, Zenon DEF x, y, z
      <3>2. t = tx.todo /\ Len(w) = Len(tx.wire)
        BY <1>13, <1>14, <3>1
      <3>3. QED  BY <1>8, <1>12, <3>1, <3>2, Zenon
    <2>4. QED  BY <1>13, <2>1, <2>2, <2>3
  <1>18. tx'.open = o  OBVIOUS
  <1>19. rx.err => rx.phase # "parse"  BY DEF StreamInv, OrderInv
  <1>20. rx' = rx /\ sent' = sent /\ delivered' = delivered  OBVIOUS
  <1>21. /\ Len(InFlight') <= Len(InFlight)
         /\ tx'.open => tx.open /\ Len(InFlight') = Len(InFlight)
         /\ \A p \in 1 .. Len(InFlight') : InFlight'[p] = InFlight[p] \/ InFlight'[p] \in Garbage
    BY <1>15, <1>16, <1>17, <1>18, Zenon DEF s
  <1>22. QED  BY <1>2, <1>19, <1>20, <1>21, OrderFlowsOn, Zenon

\* The faults: a send that fails, a sender that goes, a unit that is changed.
LEMMA FaultsKeep ==
    ASSUME StreamInv, SendFails \/ CloseTx \/ Corrupt
    PROVE  StreamInv'
  <1>1. StreamTypeOK  BY DEF StreamInv
  <1>2. tx.todo \in Seq(Unit) /\ tx.wire \in Seq(Unit) /\ tx.open \in BOOLEAN
    BY <1>1 DEF StreamTypeOK
  <1>3. Len(tx.wire) \in Nat /\ <<>> \in Seq(Unit) /\ FALSE \in BOOLEAN  BY <1>2
  <1>4. CASE SendFails
    <2>1. tx' = [todo |-> <<>>, wire |-> tx.wire, open |-> FALSE] /\ UNCHANGED <<rx, sent, delivered>>
      BY <1>1, <1>4 DEF SendFails, StreamTypeOK
    <2>2. Len(tx.wire) <= Len(tx.wire)  BY <1>3
    <2>3. Garbled(tx.wire, tx.wire)  BY <2>2, Zenon DEF Garbled
    <2>4. QED  BY <1>2, <1>3, <2>1, <2>3, WireKeeps, Zenon
  <1>5. CASE CloseTx
    <2>1. PICK n \in 0 .. Len(tx.wire) :
              tx' = [todo |-> <<>>, wire |-> Taken(tx.wire, n), open |-> FALSE]
      BY <1>5 DEF CloseTx
    <2>2. UNCHANGED <<rx, sent, delivered>>  BY <1>5 DEF CloseTx
    <2> DEFINE w == Taken(tx.wire, n)
    <2>3. w \in Seq(Unit) /\ Len(w) = n /\ \A i \in 1 .. n : w[i] = tx.wire[i]
      BY <1>2, Cut, Zenon
    <2> HIDE DEF w
    <2>4. n <= Len(tx.wire)  BY <1>3
    <2>5. tx' = [todo |-> <<>>, wire |-> w, open |-> FALSE]  BY <2>1 DEF w
    <2>6. Garbled(w, tx.wire)  BY <2>3, <2>4, Zenon DEF Garbled
    <2>7. QED  BY <1>3, <2>2, <2>3, <2>5, <2>6, WireKeeps, Zenon
  <1>6. CASE Corrupt
    <2>1. PICK i \in 1 .. Len(tx.wire), u \in Garbage : tx' = [tx EXCEPT !.wire[i] = u]
      BY <1>6 DEF Corrupt
    <2>2. UNCHANGED <<rx, sent, delivered>>  BY <1>6 DEF Corrupt
    <2> DEFINE w == [tx.wire EXCEPT ![i] = u]
    <2>3. u \in Unit  BY CodecAssumption DEF Plain, Unit
    <2>4. w \in Seq(Unit) /\ Len(w) = Len(tx.wire)  BY <1>2, <2>3
    <2>5. \A j \in 1 .. Len(w) : w[j] = tx.wire[j] \/ w[j] \in Garbage
      BY <1>2, <2>4
    <2>6. tx' = [tx EXCEPT !.wire = w]  BY <2>1
    <2> HIDE DEF w
    <2>7. tx' = [todo |-> tx.todo, wire |-> w, open |-> tx.open]
      BY <1>1, <2>6 DEF StreamTypeOK
    <2>8. Len(w) <= Len(tx.wire)  BY <1>3, <2>4
    <2>9. Garbled(w, tx.wire)  BY <2>5, <2>8, Zenon DEF Garbled
    <2>10. QED  BY <1>2, <2>2, <2>4, <2>7, <2>9, WireKeeps, Zenon
  <1>7. QED  BY <1>4, <1>5, <1>6

\* The receiver's caller goes on.
LEMMA PhaseKeeps ==
    ASSUME StreamInv, NEW q \in {"run", "end"}, rx' = [rx EXCEPT !.phase = q],
           UNCHANGED <<tx, sent, delivered>>
    PROVE  StreamInv'
  <1>1. StreamTypeOK /\ tx' = tx /\ sent' = sent /\ delivered' = delivered
    BY DEF StreamInv
  <1>2. StreamTypeOK'  BY <1>1 DEF StreamTypeOK
  <1>3. rx'.buf = rx.buf /\ rx'.err = rx.err /\ rx'.frames = rx.frames /\ rx'.phase # "parse"
    BY <1>1 DEF StreamTypeOK
  <1>4. InFlight' = InFlight  BY <1>1, <1>3, Zenon DEF InFlight
  <1>5. Len(InFlight) \in Nat  BY <1>1, Parts
  <1>6. Len(InFlight') <= Len(InFlight)  BY <1>4, <1>5
  <1>7. QED  BY <1>1, <1>2, <1>3, <1>4, <1>6, OrderFlowsOn, Zenon

\* The receiver turns to its caller, fails, or sees the end.
LEMMA TurnsKeep ==
    ASSUME StreamInv, RecvEnd \/ ParseWait \/ ParseError
    PROVE  StreamInv'
  <1>1. StreamTypeOK /\ tx' = tx /\ sent' = sent /\ delivered' = delivered
    BY DEF StreamInv, RecvEnd, ParseWait, ParseError
  <1>2. CASE RecvEnd \/ ParseWait
    <2>1. PICK q \in {"run", "end"} : rx' = [rx EXCEPT !.phase = q]
      BY <1>2 DEF RecvEnd, ParseWait
    <2>2. QED  BY <1>1, <2>1, PhaseKeeps
  <1>3. CASE ParseError
    <2>1. rx' = [rx EXCEPT !.err = TRUE, !.frames = <<>>, !.phase = "false"]
      BY <1>3 DEF ParseError
    <2>2. rx' = [buf |-> rx.buf, err |-> TRUE, frames |-> <<>>, phase |-> "false"]
      BY <1>1, <2>1 DEF StreamTypeOK
    <2>3. <<>> \in Seq(Frame) /\ TRUE \in BOOLEAN  OBVIOUS
    <2>4. StreamTypeOK'  BY <1>1, <2>2, <2>3 DEF StreamTypeOK
    <2>5. rx'.err /\ rx'.frames = <<>> /\ rx'.phase # "parse"  BY <2>2
    <2>6. Len(delivered) <= Len(sent)  BY DEF StreamInv, OrderInv
    <2>7. QED  BY <1>1, <2>4, <2>5, <2>6, Zenon DEF StreamInv, OrderInv
  <1>4. QED  BY <1>2, <1>3

\* What a caller does that acts on the next frame.
LEMMA TakeKeeps ==
    ASSUME StreamInv, Take
    PROVE  /\ StreamInv' /\ ~ rx.err /\ Len(delivered) < Len(sent)
           /\ Head(rx.frames) = sent[Len(delivered) + 1]
  <1>1. StreamTypeOK /\ tx' = tx /\ sent' = sent  BY DEF StreamInv, Take
  <1>2. /\ rx.frames # <<>> /\ rx.phase = "run" /\ rx.frames \in Seq(Frame) /\ delivered \in Seq(Frame)
        /\ delivered' = Append(delivered, Head(rx.frames))
        /\ rx' = [buf |-> rx.buf, err |-> rx.err, frames |-> Tail(rx.frames), phase |-> rx.phase]
    BY <1>1 DEF Take, StreamTypeOK
  <1>3. ~ rx.err  BY <1>2 DEF StreamInv, OrderInv
  <1>4. /\ Parsed <= Len(sent)
        /\ \A i \in 1 .. Len(rx.frames) : rx.frames[i] = sent[Len(delivered) + i]
    BY <1>3, Zenon DEF StreamInv, OrderInv
  <1>5. PICK off : Layout(off) /\ Faithful(off)
    BY <1>3, Zenon DEF StreamInv, OrderInv
  <1>6. /\ Len(rx.frames) \in Nat /\ Len(rx.frames) >= 1 /\ Len(delivered) \in Nat /\ Len(sent) \in Nat
        /\ Head(rx.frames) = rx.frames[1] /\ Head(rx.frames) \in Frame
        /\ Tail(rx.frames) \in Seq(Frame) /\ Len(Tail(rx.frames)) = Len(rx.frames) - 1
        /\ Len(delivered') = Len(delivered) + 1 /\ delivered' \in Seq(Frame)
    BY <1>1, <1>2 DEF StreamTypeOK
  <1>7. \A i \in 1 .. Len(rx.frames) - 1 : Tail(rx.frames)[i] = rx.frames[i + 1]
    BY <1>2
  <1>8. Head(rx.frames) = sent[Len(delivered) + 1]
    BY <1>4, <1>6
  <1>9. Len(delivered) < Len(sent)  BY <1>4, <1>6 DEF Parsed
  <1>10. StreamTypeOK'  BY <1>1, <1>2, <1>6 DEF StreamTypeOK
  <1>11. rx'.frames = Tail(rx.frames) /\ rx'.err = rx.err /\ rx'.buf = rx.buf /\ rx'.phase = rx.phase
    BY <1>2
  <1>12. Parsed' = Parsed
    <2>1. Len(rx'.frames) = Len(rx.frames) - 1  BY <1>6, <1>11, Zenon
    <2>2. /\ Len(delivered') = Len(delivered) + 1
          /\ Len(delivered) \in Nat /\ Len(rx.frames) \in Nat
      BY <1>6, Zenon
    <2> DEFINE u == rx.frames
               v == rx'.frames
               d == delivered'
    <2> HIDE DEF u, v, d
    <2>3. Len(v) = Len(u) - 1 /\ Len(u) \in Nat /\ Len(d) = Len(delivered) + 1
      BY <2>1, <2>2 DEF u, v, d
    <2>4. Len(d) + Len(v) = Len(delivered) + Len(u)  BY <2>2, <2>3
    <2>5. QED  BY <2>4 DEF Parsed, u, v, d
  <1>13. InFlight' = InFlight  BY <1>1, <1>11, Zenon DEF InFlight
  <1>14. Layout(off)'  BY <1>1, <1>5, Zenon DEF Layout
  <1>15. Faithful(off)'
    <2>1. tx'.open = tx.open  BY <1>1
    <2>2. QED  BY <1>1, <1>5, <1>12, <1>13, <2>1, Zenon DEF Faithful
  <1>16. ASSUME NEW i \in 1 .. Len(rx'.frames)
         PROVE  rx'.frames[i] = sent'[Len(delivered') + i]
    <2>1. i \in 1 .. Len(rx.frames) - 1 /\ i + 1 \in 1 .. Len(rx.frames)
      BY <1>6, <1>11
    <2>2. rx'.frames[i] = rx.frames[i + 1]  BY <1>7, <1>11, <2>1
    <2>3. rx.frames[i + 1] = sent[Len(delivered) + (i + 1)]  BY <1>4, <2>1, Zenon
    <2>4. Len(delivered) + (i + 1) = Len(delivered') + i  BY <1>6, <2>1
    <2>5. QED  BY <1>1, <2>2, <2>3, <2>4
  <1>17. Len(delivered') <= Len(sent') /\ Parsed' <= Len(sent')
    BY <1>1, <1>4, <1>6, <1>9, <1>12
  <1>18. OrderInv'
    BY <1>3, <1>11, <1>14, <1>15, <1>16, <1>17, Zenon DEF OrderInv
  <1>19. QED  BY <1>3, <1>8, <1>9, <1>10, <1>18 DEF StreamInv

\* feed finds a frame: it is the next one sent.
LEMMA ParseFrameKeeps ==
    ASSUME StreamInv, ParseFrame
    PROVE  StreamInv'
  <1> DEFINE b == rx.buf
             n == Total(b)
             g == [type |-> b[2][1], payload |-> Payload(b)]
             k == Parsed + 1
             f == sent[k]
             r == Rest(b, n)
             w == tx.wire
             t == tx.todo
  <1>1. /\ StreamTypeOK /\ rx.phase = "parse" /\ Intact(b) /\ tx' = tx /\ sent' = sent
        /\ delivered' = delivered
        /\ rx' = [rx EXCEPT !.buf = r, !.frames = Append(rx.frames, g)]
    BY DEF StreamInv, ParseFrame
  <1>2. ~ rx.err  BY <1>1 DEF StreamInv, OrderInv
  <1>3. /\ Len(delivered) <= Len(sent) /\ Parsed <= Len(sent)
        /\ \A i \in 1 .. Len(rx.frames) : rx.frames[i] = sent[Len(delivered) + i]
    BY <1>2, Zenon DEF StreamInv, OrderInv
  <1>4. PICK off : Layout(off) /\ Faithful(off)
    BY <1>2, Zenon DEF StreamInv, OrderInv
  <1>5. /\ t \in Seq(Unit) /\ w \in Seq(Unit) /\ b \in Seq(Unit)
        /\ Len(InFlight) \in Nat /\ Len(sent) \in Nat /\ Len(delivered) \in Nat
        /\ Len(rx.frames) \in Nat /\ Parsed \in Nat
        /\ Flows(InFlight, b, w, t)
    BY <1>1, Parts, Zenon
  <1>6. Len(b) \in Nat /\ Len(w) \in Nat /\ Len(t) \in Nat  BY <1>5
  <1>7. Len(b) >= 4  BY <1>1 DEF Intact, Incomplete, kHeader
  <1>8. Len(InFlight) = Len(b) + Len(w) + Len(t)  BY <1>5, Zenon DEF Flows
  <1>9. /\ off \in [1 .. Len(sent) + 1 -> Nat]
        /\ \A i \in 1 .. Len(sent) : off[i + 1] = off[i] + Size(sent[i])
    BY <1>4, Zenon DEF Layout
  <1>10. /\ off[k] + Len(InFlight) <= off[Len(sent) + 1]
         /\ tx.open => off[k] + Len(InFlight) = off[Len(sent) + 1]
         /\ \A i \in k .. Len(sent) : \A j \in 1 .. Size(sent[i]) :
               Carries(InFlight, off[i] - off[k] + j, sent[i], j)
    BY <1>4, Zenon DEF Faithful
  <1> HIDE DEF b, n, g, k, f, r, w, t
  <1>11. k \in 1 .. Len(sent) + 1 /\ k = Parsed + 1  BY <1>3, <1>5 DEF k
  <1>12. off[k] \in Nat /\ off[Len(sent) + 1] \in Nat
    <2>1. Len(sent) + 1 \in 1 .. Len(sent) + 1  BY <1>5
    <2>2. QED  BY <1>9, <1>11, <2>1, Zenon
  <1>13. k \in 1 .. Len(sent)
    <2>1. Len(InFlight) >= 4  BY <1>6, <1>7, <1>8
    <2>2. off[k] # off[Len(sent) + 1]  BY <1>5, <1>10, <1>12, <2>1
    <2>3. k # Len(sent) + 1  BY <2>2
    <2>4. QED  BY <1>5, <1>11, <2>3
  <1>14. f \in Frame  BY <1>1, <1>13 DEF StreamTypeOK, f
  <1>15. Size(f) \in Nat  BY <1>14, Encoded
  <1>16. ASSUME NEW j \in 1 .. Size(f)  PROVE Carries(b, j, f, j)
    <2>1. Carries(InFlight, off[k] - off[k] + j, f, j)
      <3>1. k \in k .. Len(sent)  BY <1>13
      <3>2. QED  BY <1>10, <3>1, Zenon DEF f
    <2>2. off[k] - off[k] + j = j  BY <1>12, <1>15
    <2>3. \A i \in 1 .. Len(b) : InFlight[i] = b[i]  BY <1>5, Zenon DEF Flows
    <2>4. j \in 1 .. Len(b) => j \in 1 .. Len(InFlight)  BY <1>6, <1>8
    <2>5. QED  BY <2>1, <2>2, <2>3, <2>4, Zenon DEF Carries
  <1>17. n = Size(f) /\ n <= Len(b) /\ g = f
    BY <1>1, <1>5, <1>14, <1>16, IntactIsSent, Zenon DEF n, g
  <1>18. n \in 0 .. Len(b)  BY <1>6, <1>15, <1>17
  <1>19. r \in Seq(Unit) /\ Len(r) = Len(b) - n /\ \A i \in 1 .. Len(b) - n : r[i] = b[n + i]
    BY <1>5, <1>18, Cut, Zenon DEF r
  <1>20. rx' = [buf |-> r, err |-> rx.err, frames |-> Append(rx.frames, f), phase |-> rx.phase]
    BY <1>1, <1>17 DEF StreamTypeOK
  <1>21. StreamTypeOK'
    <2>1. Append(rx.frames, f) \in Seq(Frame)  BY <1>1, <1>14 DEF StreamTypeOK
    <2>2. rx.err \in BOOLEAN /\ r \in Seq(Unit) /\ rx.phase \in {"run", "parse", "false", "end"}
      BY <1>1, <1>19 DEF StreamTypeOK
    <2>3. rx' \in [buf : Seq(Unit), err : BOOLEAN, frames : Seq(Frame),
                   phase : {"run", "parse", "false", "end"}]
      BY <1>20, <2>1, <2>2
    <2>4. QED  BY <1>1, <2>3, Zenon DEF StreamTypeOK
  <1>22. rx'.buf = r /\ rx'.err = rx.err /\ rx'.frames = Append(rx.frames, f)
    BY <1>20
  <1>23. rx.frames \in Seq(Frame) BY <1>1 DEF StreamTypeOK
  <1>24. Len(rx'.frames) = Len(rx.frames) + 1  BY <1>14, <1>22, <1>23
  <1>25. Parsed' = k
    <2>1. Len(delivered') + Len(rx'.frames) = (Len(delivered) + Len(rx.frames)) + 1
      BY <1>1, <1>5, <1>24
    <2>2. QED  BY <2>1 DEF Parsed, k
  <1>26. \A i \in 1 .. Len(rx'.frames) : rx'.frames[i] = sent'[Len(delivered') + i]
    <2>1. SUFFICES ASSUME NEW i \in 1 .. Len(rx'.frames)
                   PROVE  rx'.frames[i] = sent[Len(delivered) + i]
      BY <1>1
    <2>2. CASE i \in 1 .. Len(rx.frames)
      <3>1. rx'.frames[i] = rx.frames[i]  BY <1>14, <1>22, <1>23, <2>2
      <3>2. QED  BY <1>3, <2>2, <3>1, Zenon
    <2>3. CASE i = Len(rx.frames) + 1
      <3>1. rx'.frames[i] = f  BY <1>14, <1>22, <1>23, <2>3
      <3>2. Len(delivered) + i = k  BY <1>5, <2>3 DEF k, Parsed
      <3>3. QED  BY <3>1, <3>2, Zenon DEF f
    <2>4. QED  BY <1>5, <1>24, <2>2, <2>3
  <1>27. Layout(off)'  BY <1>1, <1>4, Zenon DEF Layout
  <1>28. Faithful(off)'
    <2> DEFINE s == InFlight'
    <2>1. Flows(s, r, w, t)  BY <1>1, <1>5, <1>19, <1>22, Flow, Zenon DEF InFlight, w, t
    <2> HIDE DEF s
    <2>2. Len(s) = Len(r) + Len(w) + Len(t)  BY <2>1, Zenon DEF Flows
    <2>3. Len(s) = Len(InFlight) - n /\ Len(s) \in Nat  BY <1>6, <1>8, <1>18, <1>19, <2>2
    <2>4. off[k + 1] = off[k] + n  BY <1>9, <1>13, <1>17 DEF f
    <2>5. /\ off[k + 1] + Len(s) <= off[Len(sent) + 1]
          /\ tx.open => off[k + 1] + Len(s) = off[Len(sent) + 1]
      <3>1. off[k + 1] + Len(s) = off[k] + Len(InFlight)
        BY <1>5, <1>12, <1>18, <2>3, <2>4
      <3>2. QED  BY <1>10, <3>1, Zenon
    <2>6. \A q \in 1 .. Len(s) : s[q] = InFlight[n + q]
      <3>1. SUFFICES ASSUME NEW q \in 1 .. Len(s)  PROVE s[q] = InFlight[n + q]  OBVIOUS
      <3>2. CASE q <= Len(r)
        <4>1. q \in 1 .. Len(r) /\ n + q \in 1 .. Len(b)  BY <1>6, <1>18, <1>19, <3>2
        <4>2. s[q] = r[q] /\ r[q] = b[n + q] /\ InFlight[n + q] = b[n + q]
          BY <1>5, <1>19, <2>1, <4>1 DEF Flows
        <4>3. QED  BY <4>2
      <3>3. CASE q > Len(r) /\ q <= Len(r) + Len(w)
        <4> DEFINE i == q - Len(r)
        <4>1. i \in 1 .. Len(w) /\ q = Len(r) + i /\ n + q = Len(b) + i
          BY <1>6, <1>18, <1>19, <3>3
        <4> HIDE DEF i
        <4>2. s[Len(r) + i] = w[i]  BY <2>1, <4>1, Zenon DEF Flows
        <4>3. InFlight[Len(b) + i] = w[i]  BY <1>5, <4>1, Zenon DEF Flows
        <4>4. QED  BY <4>1, <4>2, <4>3
      <3>4. CASE q > Len(r) + Len(w)
        <4> DEFINE i == q - (Len(r) + Len(w))
        <4>1. /\ i \in 1 .. Len(t) /\ q = Len(r) + Len(w) + i
              /\ n + q = Len(b) + Len(w) + i
          BY <1>6, <1>18, <1>19, <2>2, <3>4
        <4> HIDE DEF i
        <4>2. s[Len(r) + Len(w) + i] = t[i]  BY <2>1, <4>1, Zenon DEF Flows
        <4>3. InFlight[Len(b) + Len(w) + i] = t[i]  BY <1>5, <4>1, Zenon DEF Flows
        <4>4. QED  BY <4>1, <4>2, <4>3
      <3>5. QED  BY <1>6, <1>18, <1>19, <3>2, <3>3, <3>4
    <2>7. ASSUME NEW i \in k + 1 .. Len(sent), NEW j \in 1 .. Size(sent[i])
          PROVE  Carries(s, off[i] - off[k + 1] + j, sent[i], j)
      <3> DEFINE q == off[i] - off[k + 1] + j
      <3>1. i \in k .. Len(sent) /\ i \in 1 .. Len(sent)  BY <1>13
      <3>2. Carries(InFlight, off[i] - off[k] + j, sent[i], j)  BY <1>10, <3>1, Zenon
      <3>3. off[i] \in Nat /\ sent[i] \in Frame  BY <1>1, <1>9, <3>1 DEF StreamTypeOK
      <3>4. Size(sent[i]) \in Nat  BY <3>3, Encoded
      <3>5. off[i] - off[k] + j = n + q  BY <1>12, <1>18, <2>4, <3>3, <3>4
      <3> HIDE DEF q
      <3>6. ASSUME q \in 1 .. Len(s)  PROVE n + q \in 1 .. Len(InFlight) /\ s[q] = InFlight[n + q]
        BY <1>5, <1>18, <2>3, <2>6, <3>6
      <3>7. Carries(s, q, sent[i], j)  BY <3>2, <3>5, <3>6, Zenon DEF Carries
      <3>8. QED  BY <3>7 DEF q
    <2>8. tx'.open = tx.open  BY <1>1
    <2>9. QED  BY <1>1, <1>25, <2>5, <2>7, <2>8, Zenon DEF Faithful, s
  <1>29. Parsed' <= Len(sent') /\ Len(delivered') <= Len(sent')
    BY <1>1, <1>3, <1>13, <1>25
  <1>30. OrderInv'
    BY <1>2, <1>22, <1>26, <1>27, <1>28, <1>29, Zenon DEF OrderInv
  <1>31. QED  BY <1>21, <1>30 DEF StreamInv

\* A new frame is laid out behind the others.
LEMMA BeginSendKeeps ==
    ASSUME StreamInv, NEW f \in Frame, BeginSend(f)
    PROVE  StreamInv'
  <1> DEFINE e == encodeFrame(f)
             n == Len(sent)
             k == Parsed + 1
             c == InFlight
             s == InFlight'
  <1>1. /\ StreamTypeOK /\ tx.open /\ tx.todo = <<>> /\ rx' = rx /\ delivered' = delivered
        /\ sent' = Append(sent, f) /\ sent \in Seq(Frame)
        /\ tx' = [tx EXCEPT !.todo = e]
    BY DEF StreamInv, StreamTypeOK, BeginSend
  <1>2. /\ n \in Nat /\ Parsed \in Nat /\ c \in Seq(Unit) /\ Len(c) \in Nat
        /\ rx.buf \in Seq(Unit) /\ tx.wire \in Seq(Unit) /\ Len(delivered) \in Nat
    BY <1>1, Parts, Zenon
  <1>3. e \in Seq(Unit) /\ Len(e) = Size(f) /\ Size(f) \in Nat /\ Size(f) >= 5
    BY Encoded, Zenon
  <1>4. tx' = [todo |-> e, wire |-> tx.wire, open |-> TRUE]
    BY <1>1 DEF StreamTypeOK
  <1>5. sent' \in Seq(Frame) /\ Len(sent') = n + 1 /\ sent'[n + 1] = f
        /\ \A i \in 1 .. n : sent'[i] = sent[i]
    BY <1>1
  <1>6. StreamTypeOK'
    <2>1. tx.wire \in Seq(Unit) /\ TRUE \in BOOLEAN  BY <1>2
    <2> HIDE DEF e
    <2>2. tx' \in [todo : Seq(Unit), wire : Seq(Unit), open : BOOLEAN]
      BY <1>3, <1>4, <2>1
    <2>3. QED  BY <1>1, <1>5, <2>2 DEF StreamTypeOK
  <1>7. Parsed' = Parsed  BY <1>1, Zenon DEF Parsed
  <1>8. /\ Len(delivered) <= n
        /\ rx.err => rx.frames = <<>> /\ rx.phase # "parse"
    BY DEF StreamInv, OrderInv
  <1>9. Len(delivered') <= Len(sent')
    <2> HIDE DEF n
    <2>1. QED  BY <1>1, <1>2, <1>5, <1>8
  <1>10. ASSUME ~ rx.err
         PROVE  /\ Parsed' <= Len(sent')
                /\ \A i \in 1 .. Len(rx'.frames) : rx'.frames[i] = sent'[Len(delivered') + i]
                /\ \E off : Layout(off)' /\ Faithful(off)'
    <2>1. /\ Parsed <= n
          /\ \A i \in 1 .. Len(rx.frames) : rx.frames[i] = sent[Len(delivered) + i]
      BY <1>10, Zenon DEF StreamInv, OrderInv
    <2>2. PICK off : Layout(off) /\ Faithful(off)
      BY <1>10, Zenon DEF StreamInv, OrderInv
    <2>3. off \in [1 .. n + 1 -> Nat]  BY <2>2, Zenon DEF Layout
    <2>4. \A i \in 1 .. n : off[i + 1] = off[i] + Size(sent[i])  BY <2>2, Zenon DEF Layout
    <2>5. \A i \in 1 .. n + 1 : off[i] <= off[n + 1]  BY <2>2, Zenon DEF Layout
    <2>6. off[k] + Len(c) = off[n + 1]  BY <1>1, <2>2, Zenon DEF Faithful
    <2>7. \A i \in k .. n : \A j \in 1 .. Size(sent[i]) :
              Carries(c, off[i] - off[k] + j, sent[i], j)
      BY <2>2, Zenon DEF Faithful
    <2>8. s = Cat(c, e)
      <3>1. tx'.todo = e /\ tx'.wire = tx.wire  BY <1>4
      <3>2. s = Cat(Cat(rx.buf, tx.wire), e)  BY <1>1, <3>1, Zenon DEF InFlight
      <3>3. Cat(rx.buf, tx.wire) \in Seq(Unit)  BY <1>2, Joined, Zenon
      <3>4. c = Cat(rx.buf, tx.wire)  BY <1>1, <3>3, CatEmpty, Zenon DEF InFlight
      <3>5. QED  BY <3>2, <3>4, Zenon
    <2>9. /\ Len(Cat(c, e)) = Len(c) + Len(e)
          /\ \A i \in 1 .. Len(c) : Cat(c, e)[i] = c[i]
          /\ \A i \in 1 .. Len(e) : Cat(c, e)[Len(c) + i] = e[i]
      <3> HIDE DEF c, e
      <3>1. QED  BY <1>2, <1>3, Joined, Zenon
    <2> DEFINE z == Cat(c, e)
    <2> HIDE DEF e, n, k, c, s, z
    <2>10. /\ s = z /\ Len(z) = Len(c) + Size(f) /\ Len(z) \in Nat
           /\ \A i \in 1 .. Len(c) : z[i] = c[i]
           /\ \A i \in 1 .. Size(f) : z[Len(c) + i] = e[i]
      BY <1>2, <1>3, <2>8, <2>9 DEF z
    <2>11. k \in 1 .. n + 1 /\ k = Parsed + 1 /\ n + 1 \in 1 .. n + 1  BY <1>2, <2>1 DEF k
    <2>12. off[k] \in Nat /\ off[n + 1] \in Nat  BY <2>3, <2>11, Zenon
    <2>new. PICK new : /\ \A i \in 1 .. n + 1 : new[i] = off[i]
                       /\ new[n + 2] = off[n + 1] + Size(f)
                       /\ new \in [1 .. n + 2 -> Nat]
      <3> DEFINE h == [i \in 1 .. n + 2 |-> IF i <= n + 1 THEN off[i] ELSE off[n + 1] + Size(f)]
      <3>1. (\A i \in 1 .. n + 1 : h[i] = off[i]) /\ h[n + 2] = off[n + 1] + Size(f)
        BY <1>2
      <3>2. h \in [1 .. n + 2 -> Nat]  BY <1>2, <1>3, <2>3, <2>12
      <3> HIDE DEF h
      <3>3. QED  BY <3>1, <3>2, Zenon
    <2>13. (\A i \in 1 .. n + 1 : new[i] = off[i]) /\ new[n + 2] = off[n + 1] + Size(f)
      BY <2>new
    <2>14. new \in [1 .. n + 2 -> Nat]  BY <2>new
    <2>15. Layout(new)'
      <3>1. \A i \in 1 .. n + 1 : new[i + 1] = new[i] + Size(sent'[i])
        <4>1. SUFFICES ASSUME NEW i \in 1 .. n + 1  PROVE new[i + 1] = new[i] + Size(sent'[i])
          OBVIOUS
        <4>2. CASE i \in 1 .. n
          <5>1. i + 1 \in 1 .. n + 1  BY <1>2, <4>2
          <5>2. QED  BY <1>5, <2>4, <2>13, <4>2, <5>1, Zenon DEF n
        <4>3. CASE i = n + 1
          <5>1. new[i + 1] = off[n + 1] + Size(f)  BY <1>2, <2>13, <4>3
          <5>2. new[i] = off[n + 1]  BY <2>11, <2>13, <4>3, Zenon
          <5>3. sent'[i] = f  BY <1>5, <4>3 DEF n
          <5>4. QED  BY <5>1, <5>2, <5>3, Zenon
        <4>4. QED  BY <1>2, <4>2, <4>3
      <3>2. \A i \in 1 .. n + 2 : new[i] <= new[n + 2]
        <4>1. SUFFICES ASSUME NEW i \in 1 .. n + 2  PROVE new[i] <= new[n + 2]  OBVIOUS
        <4>2. new[n + 2] \in Nat /\ new[n + 2] = off[n + 1] + Size(f)  BY <1>2, <2>13, <2>14
        <4>3. CASE i \in 1 .. n + 1
          <5>1. new[i] = off[i] /\ off[i] <= off[n + 1] /\ off[i] \in Nat
            BY <2>3, <2>5, <2>13, <4>3, Zenon
          <5>2. QED  BY <1>3, <2>12, <4>2, <5>1
        <4>4. CASE i = n + 2  BY <4>2, <4>4
        <4>5. QED  BY <1>2, <4>3, <4>4
      <3>3. Len(sent') = n + 1 /\ n + 2 = (n + 1) + 1  BY <1>2, <1>5 DEF n
      <3>4. /\ new \in [1 .. Len(sent') + 1 -> Nat]
            /\ \A i \in 1 .. Len(sent') : new[i + 1] = new[i] + Size(sent'[i])
            /\ \A i \in 1 .. Len(sent') + 1 : new[i] <= new[Len(sent') + 1]
        BY <2>14, <3>1, <3>2, <3>3
      <3>5. QED  BY <3>4, Zenon DEF Layout
    <2>16. /\ new[k] + Len(z) <= new[n + 2] /\ new[k] + Len(z) = new[n + 2]
      <3>1. new[k] = off[k]  BY <2>11, <2>13, Zenon
      <3>2. new[n + 2] = off[n + 1] + Size(f)  BY <2>13, Zenon
      <3> DEFINE a == off[k]
                 b == off[n + 1]
                 m == Len(c)
                 w == Len(z)
                 g == Size(f)
      <3>3. /\ a \in Nat /\ b \in Nat /\ m \in Nat /\ g \in Nat
            /\ a + m = b /\ w = m + g
        BY <1>2, <1>3, <2>6, <2>10, <2>12, Zenon
      <3> HIDE DEF a, b, m, w, g
      <3>4. a + w = b + g /\ b + g \in Nat  BY <3>3
      <3>5. a + w <= b + g  BY <3>4
      <3>6. QED  BY <3>1, <3>2, <3>4, <3>5, Zenon DEF a, b, w, g
    <2>17. ASSUME NEW i \in k .. n + 1, NEW j \in 1 .. Size(sent'[i])
           PROVE  Carries(z, new[i] - new[k] + j, sent'[i], j)
      <3>1. new[k] = off[k]  BY <2>11, <2>13, Zenon
      <3>2. CASE i \in 1 .. n
        <4>1. i \in k .. n /\ i \in 1 .. n + 1 /\ i + 1 \in 1 .. n + 1  BY <1>2, <2>11, <3>2
        <4>2. sent'[i] = sent[i] /\ new[i] = off[i]
          BY <1>5, <2>13, <3>2, <4>1, Zenon DEF n
        <4>3. sent[i] \in Frame  BY <1>1, <3>2 DEF n
        <4>4. Size(sent[i]) \in Nat  BY <4>3, Encoded
        <4>5. j \in 1 .. Size(sent[i])  BY <4>2
        <4> DEFINE p == off[i] - off[k] + j
        <4>6. Carries(c, p, sent[i], j)  BY <2>7, <4>1, <4>5, Zenon
        <4>7. off[i] \in Nat /\ off[i + 1] <= off[n + 1] /\ off[i + 1] = off[i] + Size(sent[i])
          BY <2>3, <2>4, <2>5, <3>2, <4>1, Zenon
        <4>8. p <= Len(c)
          BY <1>2, <2>6, <2>12, <4>4, <4>5, <4>7
        <4>9. p \in 1 .. Len(z) => p \in 1 .. Len(c)  BY <1>2, <2>10, <4>8
        <4> HIDE DEF p
        <4>10. Carries(z, p, sent[i], j)  BY <2>10, <4>6, <4>9, Zenon DEF Carries
        <4>11. QED  BY <3>1, <4>2, <4>10, Zenon DEF p
      <3>3. CASE i = n + 1
        <4>1. sent'[i] = f /\ new[i] = off[n + 1]
          BY <1>5, <2>11, <2>13, <3>3, Zenon DEF n
        <4>2. j \in 1 .. Size(f)  BY <4>1
        <4>3. new[i] - new[k] + j = Len(c) + j
          BY <1>2, <1>3, <2>6, <2>12, <3>1, <4>1, <4>2
        <4>4. z[Len(c) + j] = e[j]  BY <2>10, <4>2, Zenon
        <4>5. QED  BY <4>1, <4>3, <4>4, Zenon DEF Carries, e
      <3>4. QED  BY <1>2, <2>11, <3>2, <3>3
    <2>18. Faithful(new)'
      <3>1. Len(sent') = n + 1 /\ n + 2 = (n + 1) + 1  BY <1>2, <1>5 DEF n
      <3>2. s = z  BY <2>10, Zenon
      <3>3. Parsed' + 1 = k  BY <1>7 DEF k
      <3>4. /\ new[Parsed' + 1] + Len(s) <= new[Len(sent') + 1]
            /\ new[Parsed' + 1] + Len(s) = new[Len(sent') + 1]
        BY <2>16, <3>1, <3>2, <3>3
      <3>5. \A i \in Parsed' + 1 .. Len(sent') : \A j \in 1 .. Size(sent'[i]) :
                Carries(s, new[i] - new[Parsed' + 1] + j, sent'[i], j)
        BY <2>17, <3>1, <3>2, <3>3, Zenon
      <3>6. QED  BY <3>4, <3>5, Zenon DEF Faithful, s
    <2>19. \A i \in 1 .. Len(rx'.frames) : rx'.frames[i] = sent'[Len(delivered') + i]
      <3>1. SUFFICES ASSUME NEW i \in 1 .. Len(rx.frames)
                     PROVE  rx.frames[i] = sent'[Len(delivered) + i]
        BY <1>1
      <3>2. Len(rx.frames) \in Nat  BY <1>1, Parts
      <3>3. Len(delivered) + i \in 1 .. n
        <4> DEFINE u == rx.frames
        <4>1. Len(delivered) + Len(u) <= n /\ Len(u) \in Nat  BY <2>1, <3>2 DEF Parsed
        <4>2. i \in 1 .. Len(u)  OBVIOUS
        <4> HIDE DEF u
        <4>3. QED  BY <1>2, <4>1, <4>2
      <3>4. QED  BY <1>5, <2>1, <3>3, Zenon DEF n
    <2>20. Parsed' <= Len(sent')  BY <1>2, <1>5, <1>7, <2>1 DEF n
    <2>21. QED  BY <2>15, <2>18, <2>19, <2>20, Zenon
  <1>11. OrderInv'  BY <1>1, <1>8, <1>9, <1>10, Zenon DEF OrderInv
  <1>12. QED  BY <1>6, <1>11 DEF StreamInv

-----------------------------------------------------------------------------
(* The theorem. *)

\* A connection that has just been made.
LEMMA StreamInitially == StreamInit => StreamInv
  <1> SUFFICES ASSUME StreamInit PROVE StreamInv  OBVIOUS
  <1>1. /\ tx = [todo |-> <<>>, wire |-> <<>>, open |-> TRUE]
        /\ rx = [buf |-> <<>>, err |-> FALSE, frames |-> <<>>, phase |-> "run"]
        /\ sent = <<>> /\ delivered = <<>>
    BY DEF StreamInit
  <1>2. StreamTypeOK  BY <1>1 DEF StreamTypeOK
  <1>3. tx.todo = <<>> /\ tx.wire = <<>> /\ rx.buf = <<>> /\ rx.frames = <<>> /\ ~ rx.err
    BY <1>1
  <1>4. Len(sent) = 0 /\ Len(delivered) = 0 /\ Len(rx.frames) = 0  BY <1>1
  <1>5. Parsed = 0  BY <1>4 DEF Parsed
  <1>6. InFlight = <<>>
    <2>1. <<>> \in Seq(Unit)  OBVIOUS
    <2>2. QED  BY <1>3, <2>1, CatEmpty, Zenon DEF InFlight
  <1>7. Len(InFlight) = 0  BY <1>6
  <1> DEFINE off == [i \in 1 .. 1 |-> 0]
  <1>8. Layout(off)  BY <1>4 DEF Layout
  <1>9. Faithful(off)
    <2>1. off[1] = 0  OBVIOUS
    <2> HIDE DEF off
    <2>2. off[Parsed + 1] + Len(InFlight) = off[Len(sent) + 1]  BY <1>4, <1>5, <1>7, <2>1
    <2>3. off[Parsed + 1] + Len(InFlight) <= off[Len(sent) + 1]  BY <1>4, <1>5, <1>7, <2>1
    <2>4. Parsed + 1 .. Len(sent) = {}  BY <1>4, <1>5
    <2>5. QED  BY <2>2, <2>3, <2>4, Zenon DEF Faithful
  <1> HIDE DEF off
  <1>10. Len(delivered) <= Len(sent) /\ Parsed <= Len(sent) /\ 1 .. Len(rx.frames) = {}
    BY <1>4, <1>5
  <1>11. QED  BY <1>2, <1>3, <1>8, <1>9, <1>10, Zenon DEF StreamInv, OrderInv

\* Steps that touch nothing.
LEMMA StreamStutters == StreamInv /\ UNCHANGED streamVars => StreamInv'
  <1> SUFFICES ASSUME StreamInv, UNCHANGED streamVars PROVE StreamInv'  OBVIOUS
  <1>1. tx' = tx /\ rx' = rx /\ sent' = sent /\ delivered' = delivered  BY DEF streamVars
  <1>2. Parsed' = Parsed /\ InFlight' = InFlight  BY <1>1, Zenon DEF Parsed, InFlight
  <1>3. StreamTypeOK'  BY <1>1 DEF StreamInv, StreamTypeOK
  <1>4. \A off : Layout(off) /\ Faithful(off) => Layout(off)' /\ Faithful(off)'
    BY <1>1, <1>2, Zenon DEF Layout, Faithful
  <1>5. OrderInv'
    BY <1>1, <1>2, <1>4, Zenon DEF StreamInv, OrderInv
  <1>6. QED  BY <1>3, <1>5 DEF StreamInv

\* Every step of the stream keeps the invariant and is a step of the channel.
LEMMA StreamStep ==
    ASSUME StreamInv, [StreamNext]_streamVars
    PROVE  StreamInv' /\ [Channel!ChannelNext]_Channel!channelVars
  <1> USE DEF Channel!channelVars
  <1>0. StreamTypeOK  BY DEF StreamInv
  <1>1. ASSUME NEW f \in Frame, BeginSend(f)
        PROVE  StreamInv' /\ Channel!ChannelNext
    <2>1. Channel!Send(f)  BY <1>1 DEF BeginSend, Channel!Send
    <2>2. QED  BY <1>1, <2>1, BeginSendKeeps, Zenon DEF Channel!ChannelNext
  <1>2. CASE SendSome
    BY <1>2, SendSomeKeeps, Zenon DEF SendSome
  <1>3. CASE SendFails \/ CloseTx \/ Corrupt
    <2>1. UNCHANGED <<rx, sent, delivered>>  BY <1>3 DEF SendFails, CloseTx, Corrupt
    <2>2. QED  BY <1>3, <2>1, FaultsKeep
  <1>4. CASE Recv
    <2>1. rx'.err = rx.err /\ UNCHANGED <<sent, delivered>>
      BY <1>0, <1>4 DEF Recv, StreamTypeOK
    <2>2. QED  BY <1>4, <2>1, RecvKeeps
  <1>5. CASE RecvEnd \/ ParseWait
    <2>1. rx'.err = rx.err /\ UNCHANGED <<sent, delivered>>
      BY <1>0, <1>5 DEF RecvEnd, ParseWait, StreamTypeOK
    <2>2. QED  BY <1>5, <2>1, TurnsKeep
  <1>6. CASE ParseError
    <2>1. Channel!Break
      BY <1>0, <1>6 DEF ParseError, StreamTypeOK, Channel!Break
    <2>2. QED  BY <1>6, <2>1, TurnsKeep DEF Channel!ChannelNext
  <1>7. CASE ParseFrame
    <2>1. rx'.err = rx.err /\ UNCHANGED <<sent, delivered>>
      BY <1>0, <1>7 DEF ParseFrame, StreamTypeOK
    <2>2. QED  BY <1>7, <2>1, ParseFrameKeeps
  <1>8. CASE Take
    <2>1. /\ StreamInv' /\ ~ rx.err /\ Len(delivered) < Len(sent)
          /\ Head(rx.frames) = sent[Len(delivered) + 1]
      BY <1>8, TakeKeeps
    <2>2. rx'.err = rx.err /\ sent' = sent /\ delivered' = Append(delivered, Head(rx.frames))
      BY <1>0, <1>8 DEF Take, StreamTypeOK
    <2>3. Channel!Deliver  BY <2>1, <2>2 DEF Channel!Deliver
    <2>4. QED  BY <2>1, <2>3 DEF Channel!ChannelNext
  <1>9. CASE UNCHANGED streamVars
    BY <1>9, StreamStutters DEF streamVars
  <1>10. QED
    BY <1>1, <1>2, <1>3, <1>4, <1>5, <1>6, <1>7, <1>8, <1>9, Zenon DEF StreamNext, Parse

\* One direction of a connection, over sockets that cut the stream anywhere,
\* lose its end and change its units, implements FrameChannel: feed hands on
\* the frames that encodeFrame was given, in order, and none after an error.
THEOREM StreamImplementsChannel == StreamSpec => InOrder
  <1>1. StreamInit => StreamInv  BY StreamInitially
  <1>2. StreamInit => Channel!ChannelInit  BY DEF StreamInit, Channel!ChannelInit
  <1>3. StreamInv /\ [StreamNext]_streamVars => StreamInv' /\ [Channel!ChannelNext]_Channel!channelVars
    BY StreamStep
  <1>4. QED  BY <1>1, <1>2, <1>3, PTL DEF StreamSpec, InOrder, Channel!ChannelSpec

=============================================================================
