----------------------------- MODULE UartProofs -----------------------------
(***************************************************************************)
(* Theorems about UartXmodem, for files, packets and block numbers of any  *)
(* size and any faults of the line: types; with a patient board the end of *)
(* the transfer and of the file; and with any board the order of what is   *)
(* stored, as long as that can be.                                         *)
(***************************************************************************)
EXTENDS UartXmodem, TLAPS, SequenceTheorems, FiniteSetTheorems

-----------------------------------------------------------------------------
(* Types.                                                                    *)

Lines == Piece \cup Signals

\* A function on 1 .. n is a sequence.
LEMMA FunctionIsSeq ==
  ASSUME NEW S, NEW n \in Nat, NEW f \in [1 .. n -> S] PROVE f \in Seq(S) /\ Len(f) = n
  OBVIOUS

\* Removing an element leaves a sequence.
LEMMA RemoveType ==
  ASSUME NEW S, NEW s \in Seq(S), NEW i \in 1 .. Len(s) PROVE RemoveAt(s, i) \in Seq(S)
<1>1. SubSeq(s, 1, i - 1) \in Seq(S) /\ SubSeq(s, i + 1, Len(s)) \in Seq(S)
  BY SubSeqProperties
<1>2. QED
  BY <1>1, ConcatProperties DEF RemoveAt

\* The two chunks of the prompt.
LEMMA PromptIs ==
  Prompt = <<"press", "stop">> /\ Prompt \in Seq(Text) /\ ToSet(Prompt) = {"press", "stop"}
  <1>1. ToSet(Prompt) = {"press", "stop"}
  BY DEF Prompt, ToSet
<1>2. QED
  BY <1>1 DEF Prompt, Text

\* What div and mod are.
LEMMA Division ==
  ASSUME NEW n \in Nat, NEW p \in Nat \ {0}
  PROVE  n \div p \in Nat /\ n % p \in 0 .. p - 1 /\ n = p * (n \div p) + (n % p)
<1>1. n \div p \in Nat /\ n % p \in 0 .. p - 1
  OBVIOUS
<1>2. n = p * (n \div p) + (n % p)
  OBVIOUS
<1> QED
  BY <1>1, <1>2

\* A block and the one after it have different numbers on the line.
LEMMA Neighbours ==
  ASSUME NEW n \in Nat PROVE n % Wrap \in 0 .. Wrap - 1 /\ (n + 1) % Wrap # n % Wrap
<1> USE XmodemAssumption
<1>0. Wrap \in Nat \ {0} /\ n + 1 \in Nat
  OBVIOUS
<1> DEFINE d == (n + 1) \div Wrap - n \div Wrap
<1>1. n % Wrap \in 0 .. Wrap - 1
  BY <1>0
<1>2. n = Wrap * (n \div Wrap) + (n % Wrap)
  BY <1>0, Division
<1>3. n + 1 = Wrap * ((n + 1) \div Wrap) + ((n + 1) % Wrap)
  BY <1>0, Division
<1>4. n \div Wrap \in Int /\ (n + 1) \div Wrap \in Int /\ d \in Int
  BY <1>0
<1>5. ASSUME (n + 1) % Wrap = n % Wrap PROVE FALSE
  <2>1. Wrap * d = 1
    BY <1>2, <1>3, <1>4, <1>5
  <2>2. d >= 1 \/ d <= 0
    BY <1>4
  <2>3. Wrap >= 2 /\ Wrap \in Nat
    OBVIOUS
  <2> HIDE DEF d
  <2>4. CASE d >= 1
    BY <1>4, <2>1, <2>3, <2>4
  <2>5. CASE d <= 0
    BY <1>4, <2>1, <2>3, <2>5
  <2>6. QED
    BY <2>2, <2>4, <2>5
<1>6. QED
  BY <1>1, <1>5

\* A packet is a number and a block.
LEMMA PacketType == ASSUME NEW b \in Nat PROVE Packet(b) \in Packets
  BY Neighbours DEF Packet, Packets

\* Cutting the front off a text.
LEMMA KeepType ==
  ASSUME NEW S, NEW s \in Seq(S)
  PROVE  /\ Keep(s) \in Seq(S) /\ Len(Keep(s)) <= RingSize
         /\ \E c \in Nat : Len(Keep(s)) = Len(s) - c /\ \A i \in 1 .. Len(Keep(s)) : Keep(s)[i] = s[i + c]
<1> USE XmodemAssumption
<1>1. CASE Len(s) > RingSize
  <2> DEFINE m == Len(s) - RingSize + 1
  <2>1. m \in 1 .. Len(s) /\ RingSize \in Nat /\ Len(s) \in Nat
    BY <1>1
  <2>3. \A i \in m .. Len(s) : s[i] \in S
    BY <2>1
  <2> HIDE DEF m
  <2>4. /\ SubSeq(s, m, Len(s)) \in Seq(S) /\ Len(SubSeq(s, m, Len(s))) = Len(s) - m + 1
        /\ \A i \in 1 .. Len(s) - m + 1 : SubSeq(s, m, Len(s))[i] = s[m + i - 1]
    BY <2>1, <2>3, SubSeqProperties
  <2>5. Keep(s) = SubSeq(s, m, Len(s))
    BY <1>1 DEF Keep, m
  <2>6. \A i \in 1 .. Len(Keep(s)) : Keep(s)[i] = s[i + (m - 1)]
    <3> TAKE i \in 1 .. Len(Keep(s))
    <3>1. i \in 1 .. Len(s) - m + 1 /\ m + i - 1 = i + (m - 1)
      BY <2>1, <2>4, <2>5
    <3>2. QED BY <3>1, <2>4, <2>5
  <2>7. m - 1 \in Nat /\ Len(Keep(s)) = Len(s) - (m - 1)
    BY <2>1, <2>4, <2>5
  <2>8. Len(Keep(s)) <= RingSize
    BY <2>1, <2>4, <2>5 DEF m
  <2> QED BY <2>4, <2>5, <2>6, <2>7, <2>8
<1>2. CASE ~(Len(s) > RingSize)
  <2>1. Keep(s) = s /\ Len(s) = Len(s) - 0 /\ 0 \in Nat /\ Len(s) <= RingSize
    BY <1>2 DEF Keep
  <2>2. \A i \in 1 .. Len(s) : i = i + 0
    OBVIOUS
  <2>3. QED BY <2>1, <2>2
<1>3. QED
  BY <1>1, <1>2

InDown(kinds) == \E i \in 1 .. Len(down) : down[i].kind \in kinds
HasUp(texts)  == \E i \in 1 .. Len(up) : up[i] \in texts
Answered      == HasUp(Answers)

\* Nobody has typed an X.
Plain == "X" \notin typed

\* Without a prompt there is no X, and without an X no answer; so none is in the buffer.
Unprompted ==
  /\ \A i \in 1 .. Len(ring) : ring[i] \notin Answers
  /\ ~xmodem => ~InDown({"X"}) /\ ~Answered /\ mode \notin {"recv", "done"}

TypeInv == TypeOK /\ Plain /\ Unprompted

\* What a step does to it.
StaysClear == Plain' => Plain /\ (Unprompted => Unprompted')

TextOf(n) == Keep(ring \o SubSeq(up, 1, n))
RestOf(n) == SubSeq(up, n + 1, Len(up))

\* A chunk of text, what is in the buffer before and after, and what the line keeps.
LEMMA ChunkIs ==
  ASSUME TypeOK, NEW n \in 1 .. Len(up)
  PROVE  /\ TextOf(n) \in Seq(Text) /\ Len(TextOf(n)) <= RingSize
         /\ \A i \in 1 .. Len(TextOf(n)) : \/ \E j \in 1 .. Len(ring) : TextOf(n)[i] = ring[j]
                                           \/ \E j \in 1 .. n : TextOf(n)[i] = up[j]
         /\ RestOf(n) \in Seq(Text) /\ Len(RestOf(n)) = Len(up) - n
         /\ \A i \in 1 .. Len(up) - n : RestOf(n)[i] = up[i + n]
<1>1. ring \in Seq(Text) /\ up \in Seq(Text) /\ Len(up) \in Nat /\ n \in Nat
  BY DEF TypeOK, Text
<1>2. /\ SubSeq(up, 1, n) \in Seq(Text) /\ Len(SubSeq(up, 1, n)) = n
      /\ \A i \in 1 .. n : SubSeq(up, 1, n)[i] = up[i]
  <2>1. \A i \in 1 .. n : up[i] \in Text
    BY <1>1
  <2>2. QED
    BY <1>1, <2>1, SubSeqProperties
<1>3. /\ RestOf(n) \in Seq(Text) /\ Len(RestOf(n)) = Len(up) - n
      /\ \A i \in 1 .. Len(up) - n : RestOf(n)[i] = up[i + n]
  <2>1. \A i \in n + 1 .. Len(up) : up[i] \in Text
    BY <1>1
  <2>2. /\ RestOf(n) \in Seq(Text)
        /\ Len(RestOf(n)) = IF n + 1 <= Len(up) THEN Len(up) - (n + 1) + 1 ELSE 0
        /\ \A i \in 1 .. Len(up) - (n + 1) + 1 : RestOf(n)[i] = up[n + 1 + i - 1]
    BY <1>1, <2>1, SubSeqProperties DEF RestOf
  <2>3. \A i \in Nat : n + 1 + i - 1 = i + n
    BY <1>1
  <2>4. Len(up) - (n + 1) + 1 = Len(up) - n
    BY <1>1
  <2>5. Len(RestOf(n)) = Len(up) - n
    BY <1>1, <2>2
  <2>6. \A i \in 1 .. Len(up) - n : RestOf(n)[i] = up[i + n]
    <3> TAKE i \in 1 .. Len(up) - n
    <3>1. i \in Nat /\ i \in 1 .. Len(up) - (n + 1) + 1
      BY <1>1, <2>4
    <3>2. QED
      BY <2>2, <2>3, <3>1
  <2>7. QED
    BY <2>2, <2>5, <2>6
<1> DEFINE all == ring \o SubSeq(up, 1, n)
<1>4. /\ all \in Seq(Text) /\ Len(all) = Len(ring) + n
      /\ \A i \in 1 .. Len(ring) + n :
           all[i] = IF i <= Len(ring) THEN ring[i] ELSE SubSeq(up, 1, n)[i - Len(ring)]
  BY <1>1, <1>2, ConcatProperties
<1>5. \A i \in 1 .. Len(all) : \/ \E j \in 1 .. Len(ring) : all[i] = ring[j]
                               \/ \E j \in 1 .. n : all[i] = up[j]
  <2> TAKE i \in 1 .. Len(all)
  <2>1. Len(ring) \in Nat /\ i \in Nat
    BY <1>1, <1>4
  <2>2. CASE i <= Len(ring)
    BY <1>4, <2>1, <2>2
  <2>3. CASE i > Len(ring)
    <3>1. i - Len(ring) \in 1 .. n
      BY <1>4, <2>1, <2>3
    <3>2. QED
      BY <1>2, <1>4, <2>1, <2>3, <3>1
  <2>4. QED
    BY <2>1, <2>2, <2>3
<1> HIDE DEF all
<1>6. /\ TextOf(n) = Keep(all) /\ Keep(all) \in Seq(Text) /\ Len(Keep(all)) <= RingSize
  BY <1>4, KeepType DEF TextOf, all
<1>7. PICK c \in Nat : /\ Len(Keep(all)) = Len(all) - c
                       /\ \A i \in 1 .. Len(Keep(all)) : Keep(all)[i] = all[i + c]
  BY <1>4, KeepType
<1>8. \A i \in 1 .. Len(Keep(all)) : i + c \in 1 .. Len(all)
  BY <1>4, <1>6, <1>7
<1>9. \A i \in 1 .. Len(Keep(all)) : \/ \E j \in 1 .. Len(ring) : Keep(all)[i] = ring[j]
                                     \/ \E j \in 1 .. n : Keep(all)[i] = up[j]
  <2> TAKE i \in 1 .. Len(Keep(all))
  <2>1. PICK k \in 1 .. Len(all) : Keep(all)[i] = all[k]
    BY <1>7, <1>8
  <2>2. CASE \E j \in 1 .. Len(ring) : all[k] = ring[j]
    BY <2>1, <2>2
  <2>3. CASE \E j \in 1 .. n : all[k] = up[j]
    BY <2>1, <2>3
  <2>4. QED
    BY <1>5, <2>2, <2>3
<1>10. QED
  BY <1>3, <1>6, <1>9

\* At the start.
LEMMA TypeInit == Init => TypeInv
<1> SUFFICES ASSUME Init PROVE TypeInv
  OBVIOUS
<1>1. \A S : <<>> \in Seq(S)
  BY EmptySeq
<1>2. Len(<<>>) = 0
  OBVIOUS
<1>3. TypeOK
  <2>1. /\ ring \in Seq(Text)
        /\ writers \in Seq([packet : Packets, sent : 0 .. Pieces - 1])
        /\ down \in Seq(Piece \cup Signals) /\ up \in Seq(Text)
        /\ got \in Seq(Piece \cup Signals) /\ stored \in Seq(Nat)
    BY <1>1 DEF Init
  <2>2. Len(ring) <= RingSize /\ Len(got) < Pieces
    BY <1>2, XmodemAssumption DEF Init
  <2>3. run \in BOOLEAN /\ xmodem \in BOOLEAN
    BY DEF Init
  <2>4. /\ blockNr \in Nat /\ expect \in Nat
        /\ faults \in 0 .. MaxFaults /\ resets \in 0 .. MaxResets /\ hurries \in 0 .. MaxHurries
    BY XmodemAssumption DEF Init
  <2>5. /\ mode \in {"boot", "wait", "recv", "done", "gone"}
        /\ lost \in SUBSET Unrepeated /\ typed \in SUBSET Keys
    BY DEF Init
  <2>6. QED
    BY <2>1, <2>2, <2>3, <2>4, <2>5 DEF TypeOK
<1>4. QED
  BY <1>2, <1>3 DEF Init, TypeInv, Plain, Unprompted, InDown, Answered, HasUp

\* The main loop.
LEMMA TypeReadUart == TypeOK /\ ReadUart => TypeOK' /\ StaysClear
<1> SUFFICES ASSUME TypeOK, NEW n \in 1 .. Len(up), run,
                    up' = RestOf(n), UNCHANGED <<run, boardVars, pastVars>>,
                    \/ Begin(TextOf(n)) \/ Resend(TextOf(n))
                    \/ Advance(TextOf(n)) \/ Listen(TextOf(n))
             PROVE  TypeOK' /\ StaysClear
  BY DEF ReadUart, TextOf, RestOf
<1>1. TypeOK /\ TextOf(n) \in Seq(Text) /\ Len(TextOf(n)) <= RingSize /\ RestOf(n) \in Seq(Text)
  BY ChunkIs
<1> DEFINE text == TextOf(n)
<1> HIDE DEF text
<1>t. /\ text \in Seq(Text) /\ Len(text) <= RingSize /\ up' \in Seq(Text)
      /\ Begin(text) \/ Resend(text) \/ Advance(text) \/ Listen(text)
  BY <1>1 DEF text
<1>2. /\ UNCHANGED <<run, mode, expect, got, stored, faults, resets, typed, hurries, lost>>
  BY DEF boardVars, pastVars
<1>3. ASSUME NEW b \in Nat, SendBlock(b)
      PROVE  writers' \in Seq([packet : Packets, sent : 0 .. Pieces - 1])
  <2>1. [packet |-> Packet(b), sent |-> 0] \in [packet : Packets, sent : 0 .. Pieces - 1]
    BY PacketType, XmodemAssumption
  <2>2. QED
    BY <1>1, <1>3, <2>1, AppendProperties DEF SendBlock, TypeOK
<1>4. \A c \in {"X", "EOT"} : Append(down, Byte(c)) \in Seq(Lines)
  BY <1>1 DEF TypeOK, Lines, Byte, Signals
<1>5. ASSUME Listen(text), Unprompted, NEW i \in 1 .. Len(text) PROVE text[i] \notin Answers
  <2>1. CASE xmodem
    BY <1>5, <2>1 DEF Listen, Contains, Answers
  <2>2. CASE ~xmodem
    <3>1. \A j \in 1 .. n : up[j] \notin Answers
      BY <1>1, <1>5, <2>2 DEF Unprompted, Answered, HasUp, TypeOK
    <3>2. \A j \in 1 .. Len(ring) : ring[j] \notin Answers
      BY <1>5 DEF Unprompted
    <3>3. \/ \E j \in 1 .. Len(ring) : text[i] = ring[j]
          \/ \E j \in 1 .. n : text[i] = up[j]
      BY <1>1, ChunkIs DEF text
    <3>4. QED
      BY <3>1, <3>2, <3>3
  <2>3. QED
    BY <1>1, <2>1, <2>2 DEF TypeOK
<1>6. ring' \in Seq(Text) /\ Len(ring') <= RingSize /\ (ring' = <<>> \/ (Listen(text) /\ ring' = text))
  <2>1. CASE Listen(text)
    BY <1>t, <2>1 DEF Listen
  <2>2. CASE ring' = <<>>
    BY <2>2, EmptySeq, XmodemAssumption
  <2>3. QED
    BY <1>t, <2>1, <2>2 DEF Begin, Resend, Advance
<1>7. xmodem' \in BOOLEAN /\ blockNr' \in Nat
  <2>1. xmodem \in BOOLEAN /\ blockNr \in Nat /\ blockNr + 1 \in Nat
    BY <1>1 DEF TypeOK
  <2>2. \/ xmodem' = TRUE /\ blockNr' = 1
        \/ xmodem' = xmodem /\ blockNr' \in {blockNr, blockNr + 1}
    BY <1>t DEF Begin, Resend, Advance, Listen
  <2>3. xmodem' \in BOOLEAN
    BY <2>1, <2>2, Zenon
  <2>4. QED
    BY <2>1, <2>2, <2>3
<1>8. writers' \in Seq([packet : Packets, sent : 0 .. Pieces - 1])
  <2>1. CASE Resend(text)
    BY <1>1, <1>3, <2>1 DEF Resend, TypeOK
  <2>2. CASE Advance(text)
    <3>1. blockNr + 1 \in Nat
      BY <1>1 DEF TypeOK
    <3>2. CASE UNCHANGED writers
      BY <1>1, <3>2 DEF TypeOK
    <3>3. QED
      BY <1>3, <2>2, <3>1, <3>2 DEF Advance
  <2>3. QED
    BY <1>1, <1>t, <2>1, <2>2 DEF Begin, Listen, TypeOK
<1>9. down' \in Seq(Lines)
  BY <1>1, <1>t, <1>4 DEF TypeOK, Begin, Resend, Advance, Listen, Lines
<1>10. TypeOK'
  BY <1>1, <1>t, <1>2, <1>6, <1>7, <1>8, <1>9 DEF TypeOK, Lines
<1>11. ASSUME Unprompted PROVE Unprompted'
  <2>1. xmodem' \/ (~xmodem /\ Listen(text))
    BY <1>1, <1>t DEF TypeOK, Begin, Resend, Advance, Listen
  <2>2. ASSUME NEW i \in 1 .. Len(ring') PROVE ring'[i] \notin Answers
    <3>1. Len(<<>>) = 0
      OBVIOUS
    <3>2. Listen(text) /\ ring' = text
      BY <1>6, <2>2, <3>1
    <3>3. QED
      BY <1>5, <1>11, <2>2, <3>2
  <2>3. ASSUME ~xmodem, Listen(text) PROVE Unprompted'
    <3>1. down' = down /\ mode' = mode
      BY <1>2, <2>3 DEF Listen
    <3>2. ~Answered'
      <4>1. Len(up) \in Nat /\ n \in Nat
        BY <1>1 DEF TypeOK
      <4>2. \A i \in 1 .. Len(up) - n : i + n \in 1 .. Len(up)
        BY <4>1
      <4>3. Len(up') = Len(up) - n /\ \A i \in 1 .. Len(up) - n : up'[i] = up[i + n]
        BY <1>1, ChunkIs
      <4>4. ~Answered
        BY <1>11, <2>3 DEF Unprompted
      <4>5. QED
        BY <4>2, <4>3, <4>4 DEF Answered, HasUp
    <3>3. ~InDown({"X"})' /\ mode' \notin {"recv", "done"}
      BY <1>11, <2>3, <3>1 DEF Unprompted, InDown
    <3>4. QED
      BY <2>2, <3>2, <3>3 DEF Unprompted
  <2>4. QED
    BY <2>1, <2>2, <2>3 DEF Unprompted
<1>12. QED
  BY <1>2, <1>10, <1>11 DEF StaysClear, Plain


\* The keyboard, a writer, SIGINT.
LEMMA TypeTool == TypeOK /\ (ReadStdin \/ Write \/ Interrupt) => TypeOK' /\ StaysClear
<1> SUFFICES ASSUME TypeOK, ReadStdin \/ Write \/ Interrupt PROVE TypeOK' /\ StaysClear
  OBVIOUS
<1> USE DEF StaysClear, Plain, Unprompted, InDown, Answered, HasUp, hostVars, lineVars, boardVars, pastVars
<1>1. CASE ReadStdin
  <2>1. PICK key \in {"junk"} \cup Keys :
          down' = Append(down, Byte(key)) /\ typed' = typed \cup ({key} \cap Keys)
    BY <1>1 DEF ReadStdin
  <2>2. down \in Seq(Lines) /\ Byte(key) \in Lines /\ Byte(key).kind = key
    BY DEF TypeOK, Byte, Lines, Signals, Keys
  <2>3. /\ down' \in Seq(Lines) /\ Len(down') = Len(down) + 1
        /\ \A i \in 1 .. Len(down) : down'[i] = down[i]
        /\ down'[Len(down) + 1] = Byte(key)
    BY <2>1, <2>2, AppendProperties
  <2>4. faults' \in 0 .. MaxFaults /\ typed' \in SUBSET Keys
    BY <1>1, <2>1, XmodemAssumption DEF ReadStdin, TypeOK
  <2>5. TypeOK'
    BY <1>1, <2>3, <2>4 DEF ReadStdin, TypeOK, Lines
  <2>6. Plain' => Plain /\ key # "X"
    BY <2>1 DEF Keys
  <2>7. key # "X" => (InDown({"X"})' => InDown({"X"}))
    <3>1. ASSUME key # "X", NEW j \in 1 .. Len(down'), down'[j].kind \in {"X"}
          PROVE  j \in 1 .. Len(down) /\ down'[j] = down[j]
      <4>1. j \in 1 .. Len(down) \/ j = Len(down) + 1
        BY <2>2, <2>3
      <4>2. QED
        BY <2>2, <2>3, <3>1, <4>1
    <3>2. QED
      BY <3>1
  <2>8. QED
    BY <1>1, <2>5, <2>6, <2>7 DEF ReadStdin
<1>2. ASSUME NEW i \in 1 .. Len(writers), WritePiece(i) PROVE TypeOK' /\ StaysClear
  <2> DEFINE w == writers[i]
  <2>1. w \in [packet : Packets, sent : 0 .. Pieces - 1]
    BY ElementOfSeq DEF TypeOK
  <2>2. PICK n \in w.sent + 1 .. Pieces :
          /\ down' = down \o [k \in 1 .. n - w.sent |-> PieceOf(w.packet, w.sent + k)]
          /\ writers' = IF n = Pieces THEN RemoveAt(writers, i)
                                      ELSE [writers EXCEPT ![i].sent = n]
    BY <1>2 DEF WritePiece
  <2> DEFINE new == [k \in 1 .. n - w.sent |-> PieceOf(w.packet, w.sent + k)]
  <2> HIDE DEF w
  <2>3. w.packet \in Packets /\ w.sent \in Nat /\ n \in Nat /\ n - w.sent \in Nat
        /\ n \in 1 .. Pieces
    BY <2>1, XmodemAssumption
  <2>4. ASSUME NEW k \in 1 .. n - w.sent
        PROVE  PieceOf(w.packet, w.sent + k) \in Lines /\ PieceOf(w.packet, w.sent + k).kind = "piece"
    <3>1. w.sent + k \in 1 .. Pieces
      BY <2>3, XmodemAssumption, SMTT(30)
    <3>2. QED
      BY <2>3, <3>1 DEF PieceOf, Lines, Piece
  <2>5. new \in Seq(Lines) /\ Len(new) = n - w.sent /\ \A k \in 1 .. n - w.sent : new[k].kind = "piece"
    <3>1. new \in [1 .. n - w.sent -> Lines] /\ \A k \in 1 .. n - w.sent : new[k].kind = "piece"
      BY <2>4
    <3> HIDE DEF new
    <3>2. new \in Seq(Lines) /\ Len(new) = n - w.sent
      BY <2>3, <3>1, FunctionIsSeq
    <3>3. QED
      BY <3>1, <3>2
  <2> HIDE DEF new
  <2>6. down \in Seq(Lines)
    BY DEF TypeOK, Lines
  <2>7. /\ down' \in Seq(Lines) /\ Len(down') = Len(down) + Len(new)
        /\ \A j \in 1 .. Len(down) + Len(new) :
             down'[j] = IF j <= Len(down) THEN down[j] ELSE new[j - Len(down)]
    <3>1. down' = down \o new
      BY <2>2 DEF new
    <3>2. QED
      BY <2>5, <2>6, <3>1, ConcatProperties
  <2>8. writers' \in Seq([packet : Packets, sent : 0 .. Pieces - 1])
    <3>1. CASE n = Pieces
      BY <2>2, <3>1, RemoveType DEF TypeOK
    <3>2. CASE n # Pieces
      <4>1. [w EXCEPT !.sent = n] \in [packet : Packets, sent : 0 .. Pieces - 1]
        BY <2>1, <2>3, <3>2, XmodemAssumption, SMTT(30)
      <4>2. writers' = [writers EXCEPT ![i] = [w EXCEPT !.sent = n]]
        BY <2>2, <3>2 DEF w
      <4>3. QED
        BY <4>1, <4>2, ExceptSeq DEF TypeOK
    <3>3. QED
      BY <3>1, <3>2
  <2>9. TypeOK'
    BY <1>2, <2>7, <2>8 DEF WritePiece, TypeOK, Lines
  <2>10. InDown({"X"})' => InDown({"X"})
    <3>1. ASSUME NEW j \in 1 .. Len(down'), down'[j].kind \in {"X"} PROVE j \in 1 .. Len(down) /\ down'[j] = down[j]
      <4>1. Len(down) \in Nat /\ Len(new) \in Nat
        BY <2>5, <2>6
      <4>2. CASE j <= Len(down)
        BY <2>7, <4>1, <4>2
      <4>3. CASE j > Len(down)
        <5>1. j - Len(down) \in 1 .. Len(new) /\ down'[j] = new[j - Len(down)]
          BY <2>7, <4>1, <4>3
        <5>2. QED
          BY <2>5, <3>1, <5>1
      <4>4. QED
        BY <2>7, <4>1, <4>2, <4>3
    <3>2. QED
      BY <3>1
  <2>11. QED
    BY <1>2, <2>9, <2>10 DEF WritePiece
<1>3. CASE Interrupt
  <2>1. writers' \in Seq([packet : Packets, sent : 0 .. Pieces - 1]) /\ run' \in BOOLEAN
    BY <1>3, EmptySeq DEF Interrupt
  <2>2. TypeOK'
    BY <1>3, <2>1 DEF Interrupt, TypeOK
  <2>3. QED
    BY <1>3, <2>2 DEF Interrupt
<1>4. QED
  BY <1>1, <1>2, <1>3 DEF Write


\* What Append and Tail do to the elements.
LEMMA Appended ==
  ASSUME NEW S, NEW s \in Seq(S), NEW x \in S
  PROVE  /\ Append(s, x) \in Seq(S) /\ Len(Append(s, x)) = Len(s) + 1 /\ Len(s) \in Nat
         /\ \A i \in 1 .. Len(s) : Append(s, x)[i] = s[i]
         /\ Append(s, x)[Len(s) + 1] = x
         /\ \A i \in 1 .. Len(Append(s, x)) : i \in 1 .. Len(s) \/ i = Len(s) + 1
  BY AppendProperties

\* The same for Tail.
LEMMA Shifted ==
  ASSUME NEW S, NEW s \in Seq(S), s # <<>>
  PROVE  /\ Head(s) \in S /\ Head(s) = s[1] /\ Tail(s) \in Seq(S)
         /\ Len(Tail(s)) = Len(s) - 1 /\ Len(s) \in Nat \ {0}
         /\ \A i \in 1 .. Len(Tail(s)) : Tail(s)[i] = s[i + 1] /\ i + 1 \in 1 .. Len(s)
  BY HeadTailProperties

\* What is logged before the prompt.
LEMMA LogText == <<>> \in Seq({"text"}) /\ <<"text">> \in Seq({"text"})
  OBVIOUS

\* The prompt, with or without text before it, adds no answer.
LEMMA BootText ==
  ASSUME NEW s \in Seq(Text), NEW log \in Seq({"text"})
  PROVE  /\ s \o log \o Prompt \in Seq(Text)
         /\ \A i \in 1 .. Len(s \o log \o Prompt) :
              (s \o log \o Prompt)[i] \in Answers => i \in 1 .. Len(s) /\ (s \o log \o Prompt)[i] = s[i]
<1>1. /\ log \in Seq(Text) /\ Len(s) \in Nat /\ Len(log) \in Nat
      /\ \A i \in 1 .. Len(log) : log[i] \notin Answers
  BY DEF Text, Answers
<1>2. /\ s \o log \in Seq(Text) /\ Len(s \o log) = Len(s) + Len(log)
      /\ \A i \in 1 .. Len(s) + Len(log) :
           (s \o log)[i] = IF i <= Len(s) THEN s[i] ELSE log[i - Len(s)]
  BY <1>1, ConcatProperties
<1>3. Len(Prompt) = 2 /\ \A i \in 1 .. 2 : Prompt[i] \notin Answers
  BY DEF Prompt, Answers
<1> DEFINE t == s \o log
<1> HIDE DEF t
<1>4. /\ t \o Prompt \in Seq(Text) /\ Len(t \o Prompt) = Len(t) + 2
      /\ \A i \in 1 .. Len(t) + 2 :
           (t \o Prompt)[i] = IF i <= Len(t) THEN t[i] ELSE Prompt[i - Len(t)]
  BY <1>2, <1>3, PromptIs, ConcatProperties DEF t
<1>5. ASSUME NEW i \in 1 .. Len(t \o Prompt), (t \o Prompt)[i] \in Answers
      PROVE  i \in 1 .. Len(s) /\ (t \o Prompt)[i] = s[i]
  <2>1. i \in Nat /\ Len(t) \in Nat /\ Len(t) = Len(s) + Len(log)
    BY <1>1, <1>2, <1>4 DEF t
  <2>2. i <= Len(t)
    <3> SUFFICES ASSUME i > Len(t) PROVE FALSE
      BY <2>1
    <3>1. i - Len(t) \in 1 .. 2 /\ ~(i <= Len(t)) /\ i \in 1 .. Len(t) + 2
      BY <1>4, <2>1
    <3>2. (t \o Prompt)[i] = Prompt[i - Len(t)]
      BY <1>4, <3>1
    <3>3. QED
      BY <1>3, <1>5, <3>1, <3>2
  <2>3. (t \o Prompt)[i] = t[i]
    BY <1>4, <2>1, <2>2
  <2>4. i <= Len(s)
    <3> SUFFICES ASSUME i > Len(s) PROVE FALSE
      BY <1>1, <2>1
    <3>1. i - Len(s) \in 1 .. Len(log) /\ t[i] = log[i - Len(s)]
      BY <1>1, <1>2, <2>1, <2>2 DEF t
    <3>2. QED
      BY <1>1, <1>5, <2>3, <3>1
  <2>5. t[i] = s[i]
    BY <1>1, <1>2, <2>1, <2>2, <2>4 DEF t
  <2>6. QED
    BY <2>1, <2>3, <2>4, <2>5
<1>6. QED
  BY <1>4, <1>5 DEF t

\* Something else at the front of what was on the line.
LEMMA Garbled ==
  ASSUME NEW S, NEW s \in Seq(S), s # <<>>, NEW c \in Seq(S), Len(c) = 1
  PROVE  /\ c \o Tail(s) \in Seq(S) /\ Len(c \o Tail(s)) = Len(s)
         /\ \A i \in 1 .. Len(c \o Tail(s)) :
              \/ (c \o Tail(s))[i] = c[1]
              \/ i \in 1 .. Len(s) /\ (c \o Tail(s))[i] = s[i]
<1>1. /\ Tail(s) \in Seq(S) /\ Len(Tail(s)) = Len(s) - 1 /\ Len(s) \in Nat \ {0}
      /\ \A i \in 1 .. Len(Tail(s)) : Tail(s)[i] = s[i + 1] /\ i + 1 \in 1 .. Len(s)
  BY Shifted
<1>3. /\ c \o Tail(s) \in Seq(S) /\ Len(c \o Tail(s)) = 1 + Len(Tail(s))
      /\ \A i \in 1 .. 1 + Len(Tail(s)) :
           (c \o Tail(s))[i] = IF i <= 1 THEN c[i] ELSE Tail(s)[i - 1]
  <2>1. /\ c \o Tail(s) \in Seq(S) /\ Len(c \o Tail(s)) = Len(c) + Len(Tail(s))
        /\ \A i \in 1 .. Len(c) + Len(Tail(s)) :
             (c \o Tail(s))[i] = IF i <= Len(c) THEN c[i] ELSE Tail(s)[i - Len(c)]
    BY <1>1, ConcatProperties
  <2>2. QED
    BY <2>1
<1>4. ASSUME NEW i \in 1 .. Len(c \o Tail(s))
      PROVE  \/ (c \o Tail(s))[i] = c[1]
             \/ i \in 1 .. Len(s) /\ (c \o Tail(s))[i] = s[i]
  <2>1. i \in Nat /\ Len(Tail(s)) \in Nat
    BY <1>1, <1>3
  <2>2. CASE i <= 1
    <3>1. i = 1
      BY <2>1, <2>2
    <3>2. QED
      BY <1>1, <1>3, <3>1
  <2>3. CASE i > 1
    <3>1. i - 1 \in 1 .. Len(Tail(s)) /\ (c \o Tail(s))[i] = Tail(s)[i - 1]
      BY <1>3, <2>1, <2>3
    <3>2. i - 1 + 1 = i
      BY <2>1
    <3>3. QED
      BY <1>1, <3>1, <3>2
  <2>4. QED
    BY <2>1, <2>2, <2>3
<1>5. QED
  BY <1>1, <1>3, <1>4

\* What Disturb leaves on the way to the board.
LEMMA DownDisturbed ==
  ASSUME down \in Seq(Lines), down # <<>>, NEW c \in {<<>>, <<Byte("junk")>>},
         down' = c \o Tail(down)
  PROVE  /\ down' \in Seq(Lines)
         /\ \A i \in 1 .. Len(down') :
              \/ down'[i] = Byte("junk")
              \/ i \in 1 .. Len(down) /\ c = <<Byte("junk")>> /\ down'[i] = down[i]
              \/ i + 1 \in 1 .. Len(down) /\ c = <<>> /\ down'[i] = down[i + 1]
<1> DEFINE x == Byte("junk")
<1>1. x \in Lines
  BY DEF Byte, Lines, Signals
<1>2. CASE c = <<>>
  <2>1. Tail(down) \in Seq(Lines)
    BY Shifted
  <2>2. down' = Tail(down)
    BY <1>2, <2>1, ConcatEmptySeq
  <2>3. QED
    BY <1>2, <2>2, Shifted
<1>3. CASE c = <<Byte("junk")>>
  <2>1. c \in Seq(Lines) /\ Len(c) = 1 /\ c[1] = x
    BY <1>1, <1>3
  <2> HIDE DEF x
  <2>2. /\ down' \in Seq(Lines)
        /\ \A i \in 1 .. Len(down') : down'[i] = x \/ (i \in 1 .. Len(down) /\ down'[i] = down[i])
    BY <2>1, Garbled
  <2>3. QED
    BY <1>3, <2>2 DEF x
<1>4. QED
  BY <1>2, <1>3

\* ... and on the way to the host.
LEMMA UpDisturbed ==
  ASSUME up \in Seq(Text), up # <<>>, NEW c \in {<<>>, <<"text">>}, up' = c \o Tail(up)
  PROVE  /\ up' \in Seq(Text)
         /\ \A i \in 1 .. Len(up') :
              \/ up'[i] = "text"
              \/ i \in 1 .. Len(up) /\ c = <<"text">> /\ up'[i] = up[i]
              \/ i + 1 \in 1 .. Len(up) /\ c = <<>> /\ up'[i] = up[i + 1]
         /\ Len(up') = Len(c) + Len(up) - 1 /\ Len(up) \in Nat
<1>1. /\ "text" \in Text /\ Tail(up) \in Seq(Text)
      /\ Len(up) \in Nat /\ Len(Tail(up)) = Len(up) - 1
  BY Shifted DEF Text
<1>2. CASE c = <<>>
  <2>1. up' = Tail(up)
    BY <1>1, <1>2, ConcatEmptySeq
  <2>2. Len(c) = 0
    BY <1>2
  <2>3. QED
    BY <1>1, <1>2, <2>1, <2>2, Shifted
<1>3. CASE c = <<"text">>
  <2>1. c \in Seq(Text) /\ Len(c) = 1 /\ c[1] = "text"
    BY <1>1, <1>3
  <2>2. /\ up' \in Seq(Text) /\ Len(up') = Len(up)
        /\ \A i \in 1 .. Len(up') : up'[i] = "text" \/ (i \in 1 .. Len(up) /\ up'[i] = up[i])
    BY <2>1, Garbled
  <2>3. QED
    BY <1>1, <1>3, <2>1, <2>2
<1>4. QED
  BY <1>2, <1>3

\* One byte is put before others.
LEMMA PutBefore ==
  ASSUME NEW S, NEW t \in Seq(S), NEW x \in S
  PROVE  /\ Len(<<x>> \o t) = Len(t) + 1
         /\ \A j \in 1 .. Len(t) : (<<x>> \o t)[j + 1] = t[j]
<1> DEFINE c == <<x>>
<1>1. c \in Seq(S) /\ Len(c) = 1
  OBVIOUS
<1> HIDE DEF c
<1>2. /\ Len(c \o t) = Len(c) + Len(t)
      /\ \A j \in 1 .. Len(c) + Len(t) :
           (c \o t)[j] = IF j <= Len(c) THEN c[j] ELSE t[j - Len(c)]
  BY <1>1, ConcatProperties
<1>3. ASSUME NEW j \in 1 .. Len(t) PROVE (c \o t)[j + 1] = t[j]
  <2>1. j + 1 \in 1 .. Len(c) + Len(t) /\ ~(j + 1 <= Len(c)) /\ j + 1 - Len(c) = j
    BY <1>1
  <2>2. QED
    BY <1>2, <2>1
<1>4. Len(c \o t) = Len(t) + 1
  BY <1>1, <1>2
<1>5. QED
  BY <1>3, <1>4 DEF c

\* The board, step by step.
LEMMA TypeBoard ==
  TypeOK /\ (Board \/ Autoboot \/ TimeOut \/ ResetBoard) => TypeOK' /\ StaysClear
<1> SUFFICES ASSUME TypeOK, Board \/ Autoboot \/ TimeOut \/ ResetBoard PROVE TypeOK' /\ StaysClear
  OBVIOUS
<1> USE DEF StaysClear, Plain, Unprompted, InDown, Answered, HasUp, hostVars, lineVars, boardVars, pastVars
<1>1. /\ down \in Seq(Lines) /\ up \in Seq(Text) /\ got \in Seq(Lines)
      /\ <<>> \in Seq(Lines) /\ <<>> \in Seq(Nat) /\ Len(<<>>) = 0 /\ 0 < Pieces
  BY XmodemAssumption, EmptySeq DEF TypeOK, Lines
<1>2. ASSUME NEW c \in {"NAK", "ACK"} PROVE Append(up, c) \in Seq(Text)
  BY <1>1 DEF Text, Answers
<1>4. ASSUME down # <<>>
      PROVE  /\ Head(down) \in Lines /\ Head(down) = down[1] /\ Tail(down) \in Seq(Lines)
             /\ Len(Tail(down)) = Len(down) - 1 /\ Len(down) \in Nat \ {0}
             /\ \A i \in 1 .. Len(Tail(down)) : Tail(down)[i] = down[i + 1] /\ i + 1 \in 1 .. Len(down)
  BY <1>1, <1>4, Shifted
<1>6. CASE Boot
  <2>1. PICK log \in Seq({"text"}) : up' = up \o log \o Prompt
    BY <1>6, LogText DEF Boot
  <2>2. up' \in Seq(Text)
    BY <1>1, <2>1, BootText
  <2>t. ASSUME NEW i \in 1 .. Len(up'), up'[i] \in Answers PROVE Answered
    <3>1. i \in 1 .. Len(up) /\ up'[i] = up[i]
      <4>1. i \in 1 .. Len(up \o log \o Prompt) /\ (up \o log \o Prompt)[i] \in Answers
        BY <2>1, <2>t
      <4>2. i \in 1 .. Len(up) /\ (up \o log \o Prompt)[i] = up[i]
        BY <1>1, <4>1, BootText
      <4>3. QED
        BY <2>1, <4>2
    <3>2. QED
      BY <2>t, <3>1
  <2>3. QED
    BY <1>6, <2>2, <2>t DEF Boot, TypeOK
<1>7. CASE StopAutoboot
  <2>1. down # <<>> /\ down' = Tail(down)
    BY <1>7 DEF StopAutoboot
  <2>2. down' \in Seq(Lines) /\ (InDown({"X"})' => InDown({"X"}))
    BY <1>4, <2>1
  <2>3. CASE Head(down).kind = "X"
    <3>1. InDown({"X"})
      BY <1>4, <2>1, <2>3
    <3>2. Unprompted => xmodem
      BY <3>1
    <3>3. up' \in Seq(Text) /\ mode' = "recv"
      BY <1>2, <1>7, <2>3 DEF StopAutoboot
    <3>4. QED
      BY <1>7, <2>2, <3>2, <3>3 DEF StopAutoboot, TypeOK, Lines
  <2>4. CASE Head(down).kind # "X"
    BY <1>7, <2>2, <2>4 DEF StopAutoboot, TypeOK, Lines
  <2>5. QED
    BY <2>3, <2>4
<1>8. CASE Ignore
  <2>1. down' \in Seq(Lines) /\ (InDown({"X"})' => InDown({"X"}))
    BY <1>4, <1>8 DEF Ignore
  <2>2. QED
    BY <1>8, <2>1 DEF Ignore, TypeOK, Lines
<1>9. CASE SkipByte
  <2>1. down' \in Seq(Lines) /\ (Unprompted => xmodem) /\ xmodem' = xmodem
    BY <1>4, <1>9 DEF SkipByte
  <2>2. up' \in Seq(Text) /\ mode' \in {"recv", "done"}
    BY <1>1, <1>2, <1>9 DEF SkipByte
  <2>3. QED
    BY <1>9, <2>1, <2>2 DEF SkipByte, TypeOK, Lines
<1>10. CASE ReceiveByte
  <2>1. (Unprompted => xmodem) /\ xmodem' = xmodem /\ down # <<>>
    BY <1>10 DEF ReceiveByte
  <2>2. Append(got, Head(down)) \in Seq(Lines) /\ Len(Append(got, Head(down))) = Len(got) + 1
    BY <1>1, <1>4, <2>1, Appended
  <2>3. /\ down' \in {<<>>, Tail(down)} /\ up' \in {up, Append(up, "ACK"), Append(up, "NAK")}
        /\ expect' \in {expect, expect + 1} /\ UNCHANGED <<run, ring, xmodem, blockNr, writers>>
        /\ got' = <<>> \/ (got' = Append(got, Head(down)) /\ Len(Append(got, Head(down))) < Pieces)
        /\ UNCHANGED <<mode, faults, resets, typed, lost>>
    BY <1>10 DEF ReceiveByte
  <2>7. /\ down' \in Seq(Lines) /\ up' \in Seq(Text) /\ expect' \in Nat
    <3>1. /\ Append(up, "ACK") \in Seq(Text) /\ Append(up, "NAK") \in Seq(Text)
          /\ Tail(down) \in Seq(Lines) /\ expect \in Nat /\ expect + 1 \in Nat
      BY <1>2, <1>4, <2>1 DEF TypeOK
    <3>2. QED
      BY <1>1, <2>3, <3>1
  <2>8. got' \in Seq(Lines) /\ Len(got') < Pieces
    BY <1>1, <2>2, <2>3
  <2>4. hurries' \in 0 .. MaxHurries
    <3>1. hurries' = hurries \/ (hurries < MaxHurries /\ hurries' = hurries + 1)
      BY <1>10 DEF ReceiveByte, HurryIf
    <3>2. QED
      BY <3>1, XmodemAssumption DEF TypeOK
  <2>5. stored' \in Seq(Nat)
    <3> DEFINE bytes == Append(got, Head(down))
    <3>1. \/ stored' = stored
          \/ Whole(bytes) /\ Len(bytes) = Pieces /\ stored' = Append(stored, bytes[1].packet.data)
      <4>1. \A W : ~W => (IF W THEN bytes[1].packet.num ELSE Wrap) = Wrap
        OBVIOUS
      <4>2. Wrap # expect % Wrap
        BY Neighbours, XmodemAssumption DEF TypeOK
      <4>3. QED
        BY <1>10, <4>1, <4>2 DEF ReceiveByte
    <3> HIDE DEF bytes
    <3>2. ASSUME Whole(bytes), Len(bytes) = Pieces PROVE bytes[1].packet.data \in Nat
      <4>1. 1 \in 1 .. Len(bytes) /\ bytes[1] \in Lines
        BY <2>2, <3>2, XmodemAssumption DEF bytes
      <4>2. bytes[1].kind = "piece"
        BY <3>2, <4>1 DEF Whole
      <4>3. bytes[1] \in Piece
        BY <4>1, <4>2 DEF Lines, Signals
      <4>4. QED
        BY <4>3 DEF Piece, Packets
    <3>3. stored \in Seq(Nat)
      BY DEF TypeOK
    <3>4. ASSUME NEW d \in Nat PROVE Append(stored, d) \in Seq(Nat)
      BY <3>3, AppendProperties
    <3>5. CASE stored' = stored
      BY <3>3, <3>5
    <3>6. CASE /\ Whole(bytes) /\ Len(bytes) = Pieces
               /\ stored' = Append(stored, bytes[1].packet.data)
      BY <3>2, <3>4, <3>6
    <3>7. QED
      BY <3>1, <3>5, <3>6
  <2>9. TypeOK'
    BY <2>3, <2>4, <2>5, <2>7, <2>8 DEF TypeOK, Lines
  <2>10. Unprompted => Unprompted'
    BY <2>1, <2>3
  <2>6. QED
    BY <2>3, <2>9, <2>10
<1>11. CASE Autoboot
  BY <1>11, XmodemAssumption DEF Autoboot, TypeOK
<1>12. CASE TimeOut
  <2>1. up' \in Seq(Text) /\ (Unprompted => xmodem) /\ xmodem' = xmodem
    BY <1>2, <1>12 DEF TimeOut
  <2>2. hurries' \in 0 .. MaxHurries
    BY <1>12, XmodemAssumption DEF TimeOut, TypeOK, HurryIf
  <2>3. QED
    BY <1>1, <1>12, <2>1, <2>2 DEF TimeOut, TypeOK, Lines
<1>13. CASE ResetBoard
  <2>2. hurries' \in 0 .. MaxHurries /\ resets' \in 0 .. MaxResets
    BY <1>13, XmodemAssumption DEF ResetBoard, TypeOK, HurryIf
  <2>3. QED
    BY <1>1, <1>13, <2>2 DEF ResetBoard, TypeOK, Lines
<1>15. QED
  BY <1>6, <1>7, <1>8, <1>9, <1>10, <1>11, <1>12, <1>13 DEF Board

\* The line.
LEMMA TypeDisturb == TypeOK /\ Disturb => TypeOK' /\ StaysClear
<1> SUFFICES ASSUME TypeOK, Disturb PROVE TypeOK' /\ StaysClear
  OBVIOUS
<1> USE DEF StaysClear, Plain, Unprompted, InDown, Answered, HasUp, hostVars, lineVars, boardVars, pastVars
<1>1. down \in Seq(Lines) /\ up \in Seq(Text)
  BY DEF TypeOK, Lines
<1>2. faults' \in 0 .. MaxFaults /\ lost' \in SUBSET Unrepeated
  BY XmodemAssumption DEF Disturb, TypeOK
<1>3. ASSUME down # <<>>, NEW c \in {<<>>, <<Byte("junk")>>}, down' = c \o Tail(down), up' = up
      PROVE  TypeOK' /\ StaysClear
  <2>1. Byte("junk") \in Lines /\ Byte("junk").kind = "junk"
    BY DEF Byte, Lines, Signals
  <2>2. down' \in Seq(Lines)
    BY <1>1, <1>3, DownDisturbed
  <2>t. ASSUME NEW i \in 1 .. Len(down'), down'[i].kind = "X" PROVE InDown({"X"})
    BY <1>1, <1>3, <2>1, <2>t, DownDisturbed
  <2>3. QED
    BY <1>2, <1>3, <2>2, <2>t DEF Disturb, TypeOK, Lines
<1>4. ASSUME up # <<>>, NEW c \in {<<>>, <<"text">>}, up' = c \o Tail(up), down' = down
      PROVE  TypeOK' /\ StaysClear
  <2>1. "text" \in Text \ Answers
    BY DEF Text, Answers
  <2>2. up' \in Seq(Text)
    BY <1>1, <1>4, UpDisturbed
  <2>t. ASSUME NEW i \in 1 .. Len(up'), up'[i] \in Answers PROVE Answered
    BY <1>1, <1>4, <2>1, <2>t, UpDisturbed
  <2>3. QED
    BY <1>2, <1>4, <2>2, <2>t DEF Disturb, TypeOK, Lines
<1>5. QED
  BY <1>3, <1>4 DEF Disturb

\* Types, and the unprompted tool until somebody types an X.
Typed == TypeOK /\ (Plain => Unprompted)

\* So it is throughout.
LEMMA TypeInvariant == Spec => []Typed
<1>1. TypeOK /\ UNCHANGED vars => TypeOK' /\ StaysClear
  <2> SUFFICES ASSUME TypeOK, UNCHANGED vars PROVE TypeOK' /\ StaysClear
    OBVIOUS
  <2> USE DEF vars, hostVars, lineVars, boardVars, pastVars
  <2>1. TypeOK'
    BY DEF TypeOK
  <2>2. QED
    BY <2>1 DEF StaysClear, Plain, Unprompted, InDown, Answered, HasUp
<1>2. TypeOK /\ [Next]_vars => TypeOK' /\ StaysClear
  BY <1>1, TypeReadUart, TypeTool, TypeBoard, TypeDisturb DEF Next
<1>3. Typed /\ [Next]_vars => Typed'
  BY <1>2 DEF Typed, StaysClear
<1>4. Init => Typed
  BY TypeInit DEF Typed, TypeInv
<1>5. QED
  BY <1>3, <1>4, PTL DEF Spec

\* What was typed stays typed.
LEMMA TypedGrows == [Next]_vars => typed \subseteq typed'
  BY DEF Next, vars, ReadUart, ReadStdin, Write, WritePiece, Interrupt, Board, Boot, StopAutoboot,
         Ignore, SkipByte, ReceiveByte, Autoboot, TimeOut, ResetBoard, Disturb, pastVars

\* As long as nobody types an X, a step keeps more than types.
LEMMA PlainStep ==
  Typed /\ Typed' /\ [Next]_vars /\ Plain' => TypeInv /\ TypeInv'
  BY TypedGrows DEF Typed, TypeInv, Plain

\* Every variable of the tool, the line and the board keeps its type, for files, packets
\* and block numbers of any size and any faults.
THEOREM TypeCorrect == Spec => []TypeOK
  BY TypeInvariant, PTL DEF Typed


-----------------------------------------------------------------------------
(* One thing at a time: as long as the board is patient, either a block or   *)
(* an EOT is on its way to it, or one answer to the tool, or nothing.        *)

\* The last block that is asked for: of a file that has none, still the first.
LastBlock == IF Blocks = 0 THEN 1 ELSE Blocks

\* Past the first block, it is the end.
LEMMA LastBlockIs ==
  /\ LastBlock \in Nat \ {0} /\ LastBlock >= Blocks
  /\ \A b \in Nat : b >= 2 => (PastEnd(b) <=> b > LastBlock)
  /\ \A b \in Nat : b <= LastBlock => b <= Blocks \/ (Blocks = 0 /\ b = 1)
  BY XmodemAssumption DEF LastBlock, PastEnd

\* No block and no EOT is on its way.
Quiet == writers = <<>> /\ got = <<>> /\ ~InDown({"piece", "EOT"})

\* Part of a prompt has not been answered.
Prompting == HasUp({"press"}) \/ \E i \in 1 .. Len(ring) : ring[i] = "press"

StoredSoFar == expect = Len(stored) + 1 /\ \A k \in 1 .. Len(stored) : stored[k] = k

\* The pieces on the line: of which packet, in which order, up to which one.
Carries(packet) == \A i \in 1 .. Len(down) : down[i].kind = "piece" => down[i].packet = packet
Ascending == \A i, j \in 1 .. Len(down) :
               i < j /\ down[i].kind = "piece" /\ down[j].kind = "piece" => down[i].k < down[j].k
UpTo(k) == \A i \in 1 .. Len(down) : down[i].kind = "piece" => down[i].k <= k

\* What is on its way belongs to the block that the tool is at, each piece once.
OneBlock ==
  /\ Len(writers) <= 1 /\ Carries(Packet(blockNr)) /\ Ascending
  /\ writers # <<>> => writers[1].packet = Packet(blockNr) /\ UpTo(writers[1].sent)
  /\ \A i \in 1 .. Len(got) : got[i].kind = "piece" => got[i].packet = Packet(blockNr)

OneEOT == \A i, j \in 1 .. Len(down) : down[i].kind = "EOT" /\ down[j].kind = "EOT" => i = j

AnswersEnd == \A i \in 1 .. Len(up) : up[i] \in Answers => i = Len(up)

AnswerAlone == Answered => Quiet /\ mode \in {"recv", "done"}

\* Before the board has seen its X.
Waiting ==
  mode \in {"boot", "wait"} =>
    /\ Quiet /\ expect = 1
    /\ InDown({"X"}) => blockNr = 1

Receiving ==
  mode = "recv" =>
    /\ blockNr \in {expect - 1, expect} /\ blockNr >= 1
    /\ Prompting => Quiet /\ expect = 1 /\ blockNr = 1
    /\ HasUp({"ACK"}) => blockNr = expect - 1
    /\ blockNr > LastBlock /\ "EOT" \notin lost => InDown({"EOT"})

Ending ==
  InDown({"EOT"}) =>
    /\ mode \in {"recv", "done"} /\ blockNr > LastBlock
    /\ mode = "recv" => blockNr = expect
    /\ writers = <<>> /\ got = <<>> /\ ~InDown({"piece"})

Done ==
  mode = "done" =>
    /\ Len(stored) >= LastBlock /\ blockNr > LastBlock
    /\ writers = <<>> /\ got = <<>> /\ ~InDown({"piece"})
    /\ ~Prompting /\ ~HasUp({"NAK"})

OneAtATime ==
  /\ mode # "gone" /\ StoredSoFar /\ OneBlock /\ OneEOT
  /\ AnswersEnd /\ AnswerAlone /\ Waiting /\ Receiving /\ Ending /\ Done

\* What is on the line, in two parts; and a line without a block.
LEMMA Parts ==
  /\ InDown({"piece", "EOT"}) <=> InDown({"piece"}) \/ InDown({"EOT"})
  /\ Answered <=> HasUp({"ACK"}) \/ HasUp({"NAK"})
  /\ ~InDown({"piece"}) => Ascending /\ (\A b : Carries(b)) /\ (\A k : UpTo(k))
  /\ ~InDown({"EOT"}) => OneEOT
  /\ ~Answered => AnswersEnd
  BY DEF InDown, Answered, HasUp, Answers, Ascending, Carries, UpTo, OneEOT, AnswersEnd

\* A byte that is no piece goes on the line.
LEMMA LineGrows ==
  ASSUME TypeOK, NEW x \in Lines, down' = Append(down, x), x.kind # "piece"
  PROVE  /\ \A K : x.kind \notin K /\ InDown(K)' => InDown(K)
         /\ \A K : InDown(K) \/ x.kind \in K => InDown(K)'
         /\ Ascending => Ascending'
         /\ \A b : Carries(b) => Carries(b)'
         /\ \A k : UpTo(k) => UpTo(k)'
         /\ x.kind # "EOT" \/ ~InDown({"EOT"}) => (OneEOT => OneEOT')
<1>1. down \in Seq(Lines)
  BY DEF TypeOK, Lines
<1>2. /\ Len(down') = Len(down) + 1 /\ Len(down) \in Nat
      /\ \A i \in 1 .. Len(down) : down'[i] = down[i]
      /\ down'[Len(down) + 1] = x
      /\ \A i \in 1 .. Len(down') : i \in 1 .. Len(down) \/ i = Len(down) + 1
      /\ \A i \in 1 .. Len(down) : i \in 1 .. Len(down')
      /\ Len(down) + 1 \in 1 .. Len(down')
  BY <1>1, Appended
<1>3. \A K : x.kind \notin K /\ InDown(K)' => InDown(K)
  BY <1>2 DEF InDown
<1>4. \A K : InDown(K) \/ x.kind \in K => InDown(K)'
  BY <1>2 DEF InDown
<1>5. \A i \in 1 .. Len(down') : down'[i].kind = "piece" => i \in 1 .. Len(down) /\ down'[i] = down[i]
  BY <1>2
<1>6. Ascending => Ascending'
  BY <1>5 DEF Ascending
<1>7. \A b : Carries(b) => Carries(b)'
  BY <1>5 DEF Carries
<1>8. \A k : UpTo(k) => UpTo(k)'
  BY <1>5 DEF UpTo
<1>9. ASSUME x.kind # "EOT" \/ ~InDown({"EOT"}), OneEOT PROVE OneEOT'
  BY <1>2, <1>9 DEF OneEOT, InDown
<1>10. QED
  BY <1>3, <1>4, <1>6, <1>7, <1>8, <1>9

\* The first byte on the line is taken or lost.
LEMMA LineShrinks ==
  ASSUME TypeOK, down # <<>>, down' = Tail(down)
  PROVE  /\ \A K : InDown(K)' => InDown(K)
         /\ \A K : Head(down).kind \notin K /\ InDown(K) => InDown(K)'
         /\ \A K : Head(down).kind \in K => InDown(K)
         /\ Ascending => Ascending'
         /\ \A b : Carries(b) => Carries(b)'
         /\ \A k : UpTo(k) => UpTo(k)'
         /\ OneEOT => OneEOT'
         /\ OneEOT /\ Head(down).kind = "EOT" => ~InDown({"EOT"})'
<1>1. down \in Seq(Lines)
  BY DEF TypeOK, Lines
<1>2. /\ Head(down) = down[1]
      /\ Len(down') = Len(down) - 1 /\ Len(down) \in Nat \ {0}
      /\ \A i \in 1 .. Len(down') : down'[i] = down[i + 1] /\ i + 1 \in 1 .. Len(down)
  BY <1>1, Shifted
<1>3. \A i \in 1 .. Len(down) : i # 1 => i - 1 \in 1 .. Len(down') /\ down'[i - 1] = down[i]
  <2> TAKE i \in 1 .. Len(down)
  <2> HAVE i # 1
  <2>1. i - 1 \in 1 .. Len(down') /\ i - 1 + 1 = i
    BY <1>2
  <2>2. QED
    BY <1>2, <2>1
<1>4. \A K : InDown(K)' => InDown(K)
  BY <1>2 DEF InDown
<1>5. \A K : Head(down).kind \notin K /\ InDown(K) => InDown(K)'
  BY <1>2, <1>3 DEF InDown
<1>6. \A K : Head(down).kind \in K => InDown(K)
  BY <1>2 DEF InDown
<1>7. Ascending => Ascending'
  <2> SUFFICES ASSUME Ascending, NEW i \in 1 .. Len(down'), NEW j \in 1 .. Len(down'), i < j,
                      down'[i].kind = "piece", down'[j].kind = "piece"
               PROVE  down'[i].k < down'[j].k
    BY DEF Ascending
  <2>1. i + 1 < j + 1 /\ i + 1 \in 1 .. Len(down) /\ j + 1 \in 1 .. Len(down)
    BY <1>2
  <2>2. QED
    BY <1>2, <2>1 DEF Ascending
<1>8. \A b : Carries(b) => Carries(b)'
  BY <1>2 DEF Carries
<1>9. \A k : UpTo(k) => UpTo(k)'
  BY <1>2 DEF UpTo
<1>10. OneEOT => OneEOT'
  <2> SUFFICES ASSUME OneEOT, NEW i \in 1 .. Len(down'), NEW j \in 1 .. Len(down'),
                      down'[i].kind = "EOT", down'[j].kind = "EOT"
               PROVE  i = j
    BY DEF OneEOT
  <2>1. i + 1 = j + 1
    BY <1>2 DEF OneEOT
  <2>2. QED
    BY <2>1
<1>11. ASSUME OneEOT, Head(down).kind = "EOT" PROVE ~InDown({"EOT"})'
  <2> SUFFICES ASSUME NEW i \in 1 .. Len(down'), down'[i].kind = "EOT" PROVE FALSE
    BY DEF InDown
  <2>1. i + 1 = 1
    BY <1>2, <1>11 DEF OneEOT
  <2>2. QED
    BY <2>1
<1>12. QED
  BY <1>4, <1>5, <1>6, <1>7, <1>8, <1>9, <1>10, <1>11

\* A text comes after what is on its way to the tool.
LEMMA TextComes ==
  ASSUME TypeOK, NEW c \in Text, up' = Append(up, c)
  PROVE  /\ \A T : c \notin T /\ HasUp(T)' => HasUp(T)
         /\ ~Answered => AnswersEnd'
<1>1. up \in Seq(Text)
  BY DEF TypeOK
<1>2. /\ Len(up') = Len(up) + 1 /\ Len(up) \in Nat
      /\ \A i \in 1 .. Len(up) : up'[i] = up[i]
      /\ up'[Len(up) + 1] = c
      /\ \A i \in 1 .. Len(up') : i \in 1 .. Len(up) \/ i = Len(up) + 1
  BY <1>1, Appended
<1>3. \A T : c \notin T /\ HasUp(T)' => HasUp(T)
  BY <1>2 DEF HasUp
<1>4. ~Answered => AnswersEnd'
  BY <1>2 DEF Answered, HasUp, AnswersEnd
<1>5. QED
  BY <1>3, <1>4


\* Nothing changes on the line to the board, or on the one to the tool.
LEMMA LineStays ==
  down' = down => /\ \A K : InDown(K)' <=> InDown(K)
                  /\ Ascending' <=> Ascending
                  /\ \A b : Carries(b)' <=> Carries(b)
                  /\ \A k : UpTo(k)' <=> UpTo(k)
                  /\ OneEOT' <=> OneEOT
  BY DEF InDown, Ascending, Carries, UpTo, OneEOT

\* The same on the way to the tool.
LEMMA TextStays == up' = up => (\A T : HasUp(T)' <=> HasUp(T)) /\ (AnswersEnd' <=> AnswersEnd)
  BY DEF HasUp, AnswersEnd

\* What a chunk of text says of the state it was sent in.
LEMMA ChunkSays ==
  ASSUME TypeOK, Unprompted, AnswersEnd, NEW n \in 1 .. Len(up), up' = RestOf(n)
  PROVE  /\ \A T : HasUp(T)' => HasUp(T)
         /\ AnswersEnd'
         /\ Prompted(TextOf(n)) => Prompting
         /\ (\E i \in 1 .. Len(TextOf(n)) : TextOf(n)[i] = "press") => Prompting
         /\ \A c \in Answers : Contains(TextOf(n), c) => HasUp({c}) /\ up' = <<>>
<1>1. /\ Len(up) \in Nat /\ Len(ring) \in Nat /\ n \in Nat
      /\ \A i \in 1 .. Len(TextOf(n)) : \/ \E j \in 1 .. Len(ring) : TextOf(n)[i] = ring[j]
                                        \/ \E j \in 1 .. n : TextOf(n)[i] = up[j]
      /\ TextOf(n) \in Seq(Text) /\ up' \in Seq(Text) /\ Len(up') = Len(up) - n
      /\ \A i \in 1 .. Len(up) - n : up'[i] = up[i + n]
  <2>1. Len(up) \in Nat /\ Len(ring) \in Nat /\ n \in Nat
    BY DEF TypeOK
  <2>2. QED
    BY <2>1, ChunkIs
<1>2. \A i \in 1 .. Len(up') : i + n \in 1 .. Len(up) /\ up'[i] = up[i + n]
  BY <1>1
<1>3. \A T : HasUp(T)' => HasUp(T)
  BY <1>2 DEF HasUp
<1>4. AnswersEnd'
  <2> SUFFICES ASSUME NEW i \in 1 .. Len(up'), up'[i] \in Answers PROVE i = Len(up')
    BY DEF AnswersEnd
  <2>1. i + n = Len(up)
    BY <1>2 DEF AnswersEnd
  <2>2. i \in Nat /\ n \in Nat /\ Len(up) \in Nat /\ Len(up') = Len(up) - n
    BY <1>1
  <2>3. QED
    BY <2>1, <2>2
<1>5. ASSUME NEW i \in 1 .. Len(TextOf(n)), TextOf(n)[i] = "press" PROVE Prompting
  <2>1. \A j \in 1 .. n : j \in 1 .. Len(up)
    BY <1>1
  <2>2. CASE \E j \in 1 .. Len(ring) : TextOf(n)[i] = ring[j]
    BY <1>5, <2>2 DEF Prompting
  <2>3. CASE \E j \in 1 .. n : TextOf(n)[i] = up[j]
    BY <1>5, <2>1, <2>3 DEF Prompting, HasUp
  <2>4. QED
    BY <1>1, <2>2, <2>3
<1>6. Prompted(TextOf(n)) => Prompting
  <2> SUFFICES ASSUME NEW i \in 1 .. Len(TextOf(n)) - 1, SubSeq(TextOf(n), i, i + 1) = Prompt
               PROVE  Prompting
    BY DEF Prompted
  <2>1. i \in Int /\ i + 1 \in Int /\ i \in 1 .. Len(TextOf(n)) /\ i + 1 \in 1 .. Len(TextOf(n))
    BY <1>1
  <2>2. \A j \in i .. i + 1 : TextOf(n)[j] \in Text
    BY <1>1, <2>1
  <2>3. \A j \in 1 .. i + 1 - i + 1 : SubSeq(TextOf(n), i, i + 1)[j] = TextOf(n)[i + j - 1]
    BY <2>1, <2>2, SubSeqProperties
  <2>4. Prompt[1] = TextOf(n)[i]
    <3>1. 1 \in 1 .. i + 1 - i + 1 /\ i + 1 - 1 = i
      BY <2>1
    <3>2. QED
      BY <2>3, <3>1
  <2>5. Prompt[1] = "press"
    BY DEF Prompt
  <2>6. QED
    BY <1>5, <2>1, <2>4, <2>5
<1>7. ASSUME NEW c \in Answers, Contains(TextOf(n), c) PROVE HasUp({c}) /\ up' = <<>>
  <2>1. PICK i \in 1 .. Len(TextOf(n)) : TextOf(n)[i] = c
    BY <1>7 DEF Contains
  <2>2. \A j \in 1 .. Len(ring) : ring[j] # c
    BY DEF Unprompted
  <2>3. PICK j \in 1 .. n : up[j] = c
    BY <1>1, <2>1, <2>2
  <2>4. j \in 1 .. Len(up)
    BY <1>1
  <2>5. j = Len(up)
    BY <2>3, <2>4 DEF AnswersEnd
  <2>6. Len(up') = 0
    BY <1>1, <2>5
  <2>7. QED
    BY <1>1, <2>3, <2>4, <2>6 DEF HasUp
<1>8. QED
  BY <1>3, <1>4, <1>5, <1>6, <1>7

\* The main loop: a prompt is answered when nothing is on its way, an answer is alone.
LEMMA OneReadUart == TypeInv /\ OneAtATime /\ ReadUart => OneAtATime'
<1> SUFFICES ASSUME TypeInv, OneAtATime, NEW n \in 1 .. Len(up), up' = RestOf(n),
                    UNCHANGED <<run, boardVars, pastVars>>,
                    \/ Begin(TextOf(n)) \/ Resend(TextOf(n))
                    \/ Advance(TextOf(n)) \/ Listen(TextOf(n))
             PROVE  OneAtATime'
  BY DEF ReadUart, TextOf, RestOf
<1> DEFINE text == TextOf(n)
<1>1. /\ \A T : HasUp(T)' => HasUp(T)
      /\ AnswersEnd'
      /\ Prompted(text) => Prompting
      /\ (\E i \in 1 .. Len(text) : text[i] = "press") => Prompting
      /\ \A c \in Answers : Contains(text, c) => HasUp({c}) /\ up' = <<>>
  BY ChunkSays DEF OneAtATime, TypeInv
<1> HIDE DEF text
<1>2. Begin(text) \/ Resend(text) \/ Advance(text) \/ Listen(text)
  BY DEF text
<1>3. /\ UNCHANGED <<mode, expect, got, stored, lost>>
      /\ blockNr \in Nat /\ expect \in Nat /\ LastBlock \in Nat \ {0} /\ writers \in Seq([packet : Packets, sent : 0 .. Pieces - 1])
  BY LastBlockIs, XmodemAssumption DEF boardVars, pastVars, TypeInv, TypeOK
<1>4. mode \in {"boot", "wait", "recv", "done"}
  BY DEF TypeInv, TypeOK, OneAtATime
<1>5. StoredSoFar'
  BY <1>3 DEF OneAtATime, StoredSoFar
<1>6. ASSUME NEW b \in Nat, SendBlock(b), writers = <<>>
      PROVE  Len(writers') = 1 /\ writers' # <<>> /\ writers'[1].packet = Packet(b)
  <2>1. writers' = <<[packet |-> Packet(b), sent |-> 0]>>
    BY <1>6 DEF SendBlock
  <2>2. QED
    BY <2>1
<1>7. up' = <<>> => \A T : ~HasUp(T)'
  BY DEF HasUp
<1>8. ring' = <<>> => (Prompting' => HasUp({"press"})')
  BY DEF Prompting
<1>9. CASE Begin(text)
  <2>1. Prompting /\ ring' = <<>> /\ blockNr' = 1 /\ writers' = writers /\ down' = Append(down, Byte("X"))
    BY <1>1, <1>9 DEF Begin
  <2>2. Quiet /\ mode \in {"boot", "wait", "recv"} /\ expect = 1
    BY <1>4, <2>1 DEF OneAtATime, Waiting, Receiving, Done
  <2>3. Byte("X") \in Lines /\ Byte("X").kind = "X"
    BY DEF Byte, Lines, Signals
  <2>4. ~InDown({"piece"})' /\ ~InDown({"EOT"})' /\ ~InDown({"piece", "EOT"})'
    BY <2>1, <2>2, <2>3, Parts, LineGrows DEF Quiet, TypeInv
  <2>5. Ascending' /\ (\A b : Carries(b)') /\ OneEOT'
    BY <2>4 DEF InDown, Ascending, Carries, OneEOT
  <2>6. Quiet' /\ OneBlock'
    BY <1>3, <2>1, <2>2, <2>4, <2>5 DEF Quiet, OneBlock
  <2>7. AnswerAlone'
    BY <1>1, <1>3, <2>6 DEF OneAtATime, AnswerAlone, Answered
  <2>8. Waiting'
    BY <1>3, <2>1, <2>2, <2>6 DEF Waiting
  <2>9. Receiving'
    <3>1. mode = "recv" => ~HasUp({"ACK"})
      BY <1>3, <2>1, <2>2 DEF OneAtATime, Receiving
    <3>2. QED
      BY <1>1, <1>3, <2>1, <2>2, <2>6, <3>1 DEF Receiving
  <2>10. Ending' /\ Done'
    BY <1>3, <2>2, <2>4 DEF Ending, Done
  <2>11. QED
    BY <1>1, <1>3, <1>5, <2>2, <2>5, <2>6, <2>7, <2>8, <2>9, <2>10 DEF OneAtATime
<1>10. CASE Resend(text)
  <2>1. ring' = <<>> /\ SendBlock(blockNr) /\ UNCHANGED <<blockNr, down>> /\ HasUp({"NAK"}) /\ up' = <<>>
    BY <1>1, <1>10 DEF Resend, Answers
  <2>2. Quiet /\ mode = "recv"
    BY <1>4, <2>1, Parts DEF OneAtATime, AnswerAlone, Done
  <2>3. Len(writers') = 1 /\ writers' # <<>> /\ writers'[1].packet = Packet(blockNr)
    BY <1>3, <1>6, <2>1, <2>2 DEF Quiet
  <2>4. ~InDown({"piece"})' /\ ~InDown({"EOT"})'
    BY <2>1, <2>2, Parts, LineStays DEF Quiet
  <2>5. Ascending' /\ (\A b : Carries(b)') /\ (\A k : UpTo(k)') /\ OneEOT'
    BY <2>4 DEF InDown, Ascending, Carries, UpTo, OneEOT
  <2>6. UpTo(writers[1].sent)'
    BY <2>4 DEF InDown, UpTo
  <2>7. OneBlock'
    BY <1>3, <2>1, <2>2, <2>3, <2>5, <2>6 DEF OneBlock, Quiet
  <2>8. ~Prompting' /\ ~Answered' /\ ~HasUp({"ACK"})'
    BY <1>7, <1>8, <2>1 DEF Answered
  <2>9. AnswerAlone' /\ Waiting' /\ Ending' /\ Done'
    BY <1>3, <2>2, <2>4, <2>8 DEF AnswerAlone, Waiting, Ending, Done
  <2>10. Receiving'
    <3>1. blockNr > LastBlock /\ "EOT" \notin lost => FALSE
      BY <2>2, Parts DEF OneAtATime, Receiving, Quiet
    <3>2. QED
      BY <1>3, <2>1, <2>2, <2>8, <3>1 DEF OneAtATime, Receiving
  <2>11. QED
    BY <1>1, <1>3, <1>5, <2>2, <2>5, <2>7, <2>9, <2>10 DEF OneAtATime
<1>11. CASE Advance(text)
  <2>1. ring' = <<>> /\ blockNr' = blockNr + 1 /\ HasUp({"ACK"}) /\ up' = <<>>
    BY <1>1, <1>11 DEF Advance, Answers
  <2>2. Quiet /\ mode \in {"recv", "done"}
    BY <2>1, Parts DEF OneAtATime, AnswerAlone
  <2>p. PastEnd(blockNr + 1) <=> blockNr + 1 > LastBlock
    <3>1. blockNr >= 1
      BY <1>3, <2>2 DEF OneAtATime, Receiving, Done
    <3>2. blockNr + 1 \in Nat /\ blockNr + 1 >= 2
      BY <1>3, <3>1
    <3>3. QED
      BY <3>2, LastBlockIs
  <2>3. ~Prompting' /\ ~Answered' /\ ~HasUp({"ACK"})' /\ ~HasUp({"NAK"})'
    BY <1>7, <1>8, <2>1 DEF Answered
  <2>4. mode = "recv" => blockNr + 1 = expect
    BY <1>3, <2>1 DEF OneAtATime, Receiving
  <2>5. mode = "done" => blockNr > LastBlock /\ Len(stored) >= LastBlock
    BY DEF OneAtATime, Done
  <2>6. \A i \in 1 .. Len(got') : got'[i].kind = "piece" => got'[i].packet = Packet(blockNr')
    BY <1>3, <2>2 DEF Quiet
  <2>7. CASE PastEnd(blockNr + 1)
    <3>1. down' = Append(down, Byte("EOT")) /\ writers' = writers /\ blockNr' > LastBlock
      BY <1>11, <2>1, <2>p, <2>7 DEF Advance
    <3>2. Byte("EOT") \in Lines /\ Byte("EOT").kind = "EOT"
      BY DEF Byte, Lines, Signals
    <3>3. InDown({"EOT"})' /\ ~InDown({"piece"})' /\ OneEOT'
      BY <2>2, <3>1, <3>2, Parts, LineGrows DEF Quiet, TypeInv, OneAtATime
    <3>4. Ascending' /\ (\A b : Carries(b)')
      BY <3>3 DEF InDown, Ascending, Carries
    <3>5. OneBlock'
      BY <1>3, <2>2, <2>6, <3>1, <3>4 DEF OneBlock, Quiet
    <3>6. AnswerAlone' /\ Waiting' /\ Ending'
      BY <1>3, <2>1, <2>2, <2>3, <2>4, <3>1, <3>3 DEF AnswerAlone, Waiting, Ending, Quiet
    <3>7. Receiving' /\ Done'
      BY <1>3, <2>1, <2>2, <2>3, <2>4, <2>5, <3>1, <3>3 DEF Receiving, Done, Quiet
    <3>8. QED
      BY <1>1, <1>3, <1>5, <2>2, <3>3, <3>5, <3>6, <3>7 DEF OneAtATime
  <2>8. CASE ~PastEnd(blockNr + 1)
    <3>1. down' = down /\ SendBlock(blockNr + 1) /\ ~(blockNr' > LastBlock) /\ mode = "recv"
      BY <1>3, <1>11, <2>1, <2>2, <2>p, <2>5, <2>8 DEF Advance
    <3>2. Len(writers') = 1 /\ writers' # <<>> /\ writers'[1].packet = Packet(blockNr')
      BY <1>3, <1>6, <2>1, <2>2, <3>1 DEF Quiet
    <3>3. ~InDown({"piece"})' /\ ~InDown({"EOT"})'
      BY <2>2, <3>1, Parts, LineStays DEF Quiet
    <3>4. Ascending' /\ (\A b : Carries(b)') /\ OneEOT'
      BY <3>3 DEF InDown, Ascending, Carries, OneEOT
    <3>5. UpTo(writers[1].sent)' /\ Carries(Packet(blockNr))'
      BY <3>3 DEF InDown, UpTo, Carries
    <3>6. OneBlock'
      BY <1>3, <2>6, <3>2, <3>4, <3>5 DEF OneBlock
    <3>7. AnswerAlone' /\ Waiting' /\ Ending' /\ Done'
      BY <1>3, <2>3, <3>1, <3>3 DEF AnswerAlone, Waiting, Ending, Done
    <3>8. Receiving'
      BY <1>3, <2>1, <2>3, <2>4, <3>1 DEF Receiving
    <3>9. QED
      BY <1>1, <1>3, <1>5, <3>1, <3>4, <3>6, <3>7, <3>8 DEF OneAtATime
  <2>9. QED
    BY <2>7, <2>8
<1>12. CASE Listen(text)
  <2>1. ring' = text /\ UNCHANGED <<blockNr, down, writers>>
    BY <1>12 DEF Listen
  <2>2. Prompting' => Prompting
    BY <1>1, <2>1 DEF Prompting
  <2>3. OneBlock' /\ OneEOT' /\ (Quiet' <=> Quiet)
    BY <1>3, <2>1, LineStays DEF OneAtATime, OneBlock, Quiet, Carries, UpTo
  <2>4. AnswerAlone' /\ Waiting' /\ Receiving'
    BY <1>1, <1>3, <2>1, <2>2, <2>3, LineStays
       DEF OneAtATime, AnswerAlone, Answered, Waiting, Receiving
  <2>5. Ending' /\ Done'
    BY <1>1, <1>3, <2>1, <2>2, LineStays DEF OneAtATime, Ending, Done
  <2>6. QED
    BY <1>1, <1>3, <1>5, <2>3, <2>4, <2>5 DEF OneAtATime
<1>13. QED
  BY <1>2, <1>9, <1>10, <1>11, <1>12


\* The only place in a sequence that is not longer than one.
LEMMA OneOfOne == \A l \in Nat : \A k \in 1 .. l : l <= 1 => k = 1 /\ l = 1
  OBVIOUS

\* The keyboard adds what no block is made of.
LEMMA OneReadStdin == TypeInv /\ OneAtATime /\ ReadStdin /\ Plain' => OneAtATime'
<1> SUFFICES ASSUME TypeInv, OneAtATime, ReadStdin, Plain' PROVE OneAtATime'
  OBVIOUS
<1>k. PICK key \in {"junk"} \cup Keys :
        down' = Append(down, Byte(key)) /\ typed' = typed \cup ({key} \cap Keys)
  BY DEF ReadStdin
<1>1. /\ key \in {"junk", "^D"} /\ Byte(key) \in Lines /\ Byte(key).kind = key
      /\ down' = Append(down, Byte(key))
  BY <1>k DEF Byte, Lines, Signals, Keys, Plain
<1>2. /\ \A K : key \notin K /\ InDown(K)' => InDown(K)
      /\ \A K : InDown(K) => InDown(K)'
      /\ Ascending => Ascending'
      /\ \A b : Carries(b) => Carries(b)'
      /\ \A k : UpTo(k) => UpTo(k)'
      /\ OneEOT => OneEOT'
  BY <1>1, LineGrows DEF TypeInv
<1>3. /\ UNCHANGED <<writers, blockNr, ring, up, mode, expect, got, stored, lost>>
  BY DEF ReadStdin, hostVars, boardVars
<1>9. /\ InDown({"piece", "EOT"})' => InDown({"piece", "EOT"})
      /\ InDown({"piece"})' => InDown({"piece"})
      /\ InDown({"X"})' => InDown({"X"})
      /\ InDown({"EOT"})' => InDown({"EOT"})
  <2>1. key \notin {"piece", "EOT"} /\ key \notin {"piece"} /\ key \notin {"X"} /\ key \notin {"EOT"}
    BY <1>1
  <2>2. QED
    BY <1>2, <2>1
<1>4. Quiet => Quiet'
  BY <1>3, <1>9 DEF Quiet
<1>5. OneBlock' /\ StoredSoFar' /\ (Prompting' <=> Prompting)
  BY <1>2, <1>3, TextStays DEF OneAtATime, OneBlock, StoredSoFar, Prompting, Carries, UpTo
<1>6. AnswersEnd' /\ AnswerAlone' /\ Waiting'
  BY <1>2, <1>3, <1>4, <1>9, TextStays DEF OneAtATime, AnswerAlone, Answered, Waiting
<1>7. Receiving' /\ Ending' /\ Done'
  BY <1>2, <1>3, <1>4, <1>5, <1>9, TextStays DEF OneAtATime, Receiving, Ending, Done
<1>8. QED
  BY <1>2, <1>3, <1>5, <1>6, <1>7 DEF OneAtATime

\* Only one thread has something to write, and it goes on where it was.
LEMMA OneWrite == TypeInv /\ OneAtATime /\ Write => OneAtATime'
<1> SUFFICES ASSUME TypeInv, OneAtATime, NEW m \in 1 .. Len(writers), WritePiece(m)
             PROVE  OneAtATime'
  BY DEF Write
<1> DEFINE w == writers[1]
<1>1. m = 1 /\ Len(writers) = 1 /\ writers # <<>> /\ w.packet = Packet(blockNr) /\ UpTo(w.sent)
      /\ w \in [packet : Packets, sent : 0 .. Pieces - 1] /\ down \in Seq(Lines)
  <2>1. /\ writers \in Seq([packet : Packets, sent : 0 .. Pieces - 1]) /\ down \in Seq(Lines)
        /\ Len(writers) <= 1 /\ Len(writers) \in Nat
    BY DEF TypeInv, TypeOK, OneAtATime, OneBlock, Lines
  <2>2. m = 1 /\ Len(writers) = 1 /\ writers # <<>>
    <3>1. m = 1 /\ Len(writers) = 1
      BY <2>1, OneOfOne
    <3>2. Len(<<>>) = 0
      OBVIOUS
    <3>3. QED
      BY <3>1, <3>2
  <2>3. w \in [packet : Packets, sent : 0 .. Pieces - 1]
    BY <2>1, <2>2, ElementOfSeq
  <2>4. w.packet = Packet(blockNr) /\ UpTo(w.sent)
    BY <2>2 DEF OneAtATime, OneBlock
  <2>5. QED
    BY <2>1, <2>2, <2>3, <2>4
<1>2. PICK n \in w.sent + 1 .. Pieces :
        /\ down' = down \o [k \in 1 .. n - w.sent |-> PieceOf(w.packet, w.sent + k)]
        /\ writers' = IF n = Pieces THEN RemoveAt(writers, 1)
                                    ELSE [writers EXCEPT ![1].sent = n]
  <2>1. WritePiece(1)
    BY <1>1
  <2>2. QED
    BY <2>1 DEF WritePiece
<1> DEFINE new == [k \in 1 .. n - w.sent |-> PieceOf(w.packet, w.sent + k)]
<1> HIDE DEF w
<1>3. /\ w.packet \in Packets /\ w.sent \in Nat /\ n \in Nat /\ n - w.sent \in Nat
      /\ n \in 1 .. Pieces
  BY <1>1, <1>2, XmodemAssumption
<1>4. ASSUME NEW k \in 1 .. n - w.sent
      PROVE  /\ PieceOf(w.packet, w.sent + k) \in Lines
             /\ PieceOf(w.packet, w.sent + k).kind = "piece"
             /\ PieceOf(w.packet, w.sent + k).packet = Packet(blockNr)
             /\ PieceOf(w.packet, w.sent + k).k = w.sent + k
  <2>1. w.sent + k \in 1 .. Pieces
    BY <1>3, XmodemAssumption
  <2>2. QED
    BY <1>1, <1>3, <2>1 DEF PieceOf, Lines, Piece
<1>5. /\ new \in Seq(Lines) /\ Len(new) = n - w.sent
      /\ \A k \in 1 .. Len(new) : /\ new[k].kind = "piece" /\ new[k].packet = Packet(blockNr)
                                  /\ new[k].k = w.sent + k
  <2>1. /\ new \in [1 .. n - w.sent -> Lines]
        /\ \A k \in 1 .. n - w.sent : /\ new[k].kind = "piece" /\ new[k].packet = Packet(blockNr)
                                      /\ new[k].k = w.sent + k
    BY <1>4
  <2> HIDE DEF new
  <2>2. new \in Seq(Lines) /\ Len(new) = n - w.sent
    <3> DEFINE l == n - w.sent
    <3>1. l \in Nat /\ new \in [1 .. l -> Lines]
      BY <1>3, <2>1
    <3> HIDE DEF l
    <3>2. new \in Seq(Lines) /\ Len(new) = l
      BY <3>1, FunctionIsSeq
    <3>3. QED
      BY <3>2 DEF l
  <2>3. QED
    BY <2>1, <2>2
<1> HIDE DEF new
<1>6. /\ Len(down') = Len(down) + Len(new) /\ Len(down) \in Nat /\ Len(new) \in Nat
      /\ \A j \in 1 .. Len(down) + Len(new) :
           down'[j] = IF j <= Len(down) THEN down[j] ELSE new[j - Len(down)]
  BY <1>1, <1>2, <1>5, ConcatProperties DEF new
<1>7. \A j \in 1 .. Len(down') :
        \/ j \in 1 .. Len(down) /\ down'[j] = down[j]
        \/ /\ j > Len(down) /\ down'[j].kind = "piece" /\ down'[j].packet = Packet(blockNr)
           /\ down'[j].k = w.sent + (j - Len(down)) /\ j - Len(down) \in 1 .. Len(new)
  <2> TAKE j \in 1 .. Len(down')
  <2>1. CASE j <= Len(down)
    BY <1>6, <2>1
  <2>2. CASE j > Len(down)
    <3>1. j - Len(down) \in 1 .. Len(new) /\ down'[j] = new[j - Len(down)]
      BY <1>6, <2>2
    <3>2. QED
      BY <1>5, <2>2, <3>1
  <2>3. QED
    BY <1>6, <2>1, <2>2
<1>8. UNCHANGED <<run, ring, blockNr, up, mode, expect, got, stored, lost>>
  BY DEF WritePiece, boardVars, pastVars
<1>9. mode = "recv" /\ ~Answered /\ ~Prompting /\ ~InDown({"EOT"})
  BY <1>1 DEF TypeInv, TypeOK, OneAtATime, AnswerAlone, Waiting, Receiving, Ending, Done, Quiet
<1>10. ~InDown({"EOT"})'
  BY <1>7, <1>9 DEF InDown
<1>11. Carries(Packet(blockNr))'
  BY <1>7, <1>8 DEF OneAtATime, OneBlock, Carries
<1>12. Ascending'
  <2> SUFFICES ASSUME NEW i \in 1 .. Len(down'), NEW j \in 1 .. Len(down'), i < j,
                      down'[i].kind = "piece", down'[j].kind = "piece"
               PROVE  down'[i].k < down'[j].k
    BY DEF Ascending
  <2>1. CASE j \in 1 .. Len(down) /\ down'[j] = down[j]
    <3>1. i \in 1 .. Len(down) /\ down'[i] = down[i]
      BY <1>6, <1>7, <2>1
    <3>2. QED
      BY <2>1, <3>1 DEF OneAtATime, OneBlock, Ascending
  <2>2. CASE j > Len(down) /\ down'[j].k = w.sent + (j - Len(down))
    <3>1. CASE i \in 1 .. Len(down) /\ down'[i] = down[i]
      <4>1. down'[i].k <= w.sent
        BY <1>1, <3>1 DEF UpTo
      <4>2. down'[i].k \in Nat
        BY <1>1, <3>1 DEF Lines, Piece, Signals
      <4>3. QED
        BY <1>3, <1>6, <2>2, <4>1, <4>2, SMTT(30)
    <3>2. CASE i > Len(down) /\ down'[i].k = w.sent + (i - Len(down))
      BY <1>3, <1>6, <2>2, <3>2
    <3>3. QED
      BY <1>7, <3>1, <3>2
  <2>3. QED
    BY <1>7, <2>1, <2>2
<1>13. UpTo(n)'
  <2> SUFFICES ASSUME NEW i \in 1 .. Len(down'), down'[i].kind = "piece" PROVE down'[i].k <= n
    BY DEF UpTo
  <2>1. CASE i \in 1 .. Len(down) /\ down'[i] = down[i]
    <3>1. down'[i].k <= w.sent /\ down'[i].k \in Nat
      BY <1>1, <2>1 DEF UpTo, Lines, Piece, Signals
    <3>2. w.sent <= n
      BY <1>2, <1>3
    <3>3. QED
      BY <1>3, <3>1, <3>2
  <2>2. CASE i - Len(down) \in 1 .. Len(new) /\ down'[i].k = w.sent + (i - Len(down))
    BY <1>3, <1>5, <1>6, <2>2, SMTT(30)
  <2>3. QED
    BY <1>7, <2>1, <2>2
<1>14. \/ writers' = <<>>
       \/ Len(writers') = 1 /\ writers'[1].packet = Packet(blockNr) /\ writers'[1].sent = n
  <2>1. CASE n = Pieces
    <3>1. SubSeq(writers, 1, 1 - 1) = <<>> /\ SubSeq(writers, 1 + 1, 1) = <<>>
      BY SubSeqEmpty
    <3>2. writers' = <<>> \o <<>>
      BY <1>1, <1>2, <2>1, <3>1 DEF RemoveAt
    <3>3. QED
      BY <3>2
  <2>2. CASE n # Pieces
    <3>1. writers' = [writers EXCEPT ![1] = [w EXCEPT !.sent = n]]
      BY <1>2, <2>2 DEF w
    <3>2. [w EXCEPT !.sent = n].packet = w.packet /\ [w EXCEPT !.sent = n].sent = n
      BY <1>1
    <3>3. Len(writers') = 1 /\ writers'[1] = [w EXCEPT !.sent = n]
      BY <1>1, <3>1 DEF TypeInv, TypeOK
    <3>4. QED
      BY <1>1, <3>2, <3>3
  <2>3. QED
    BY <2>1, <2>2
<1>15. writers' # <<>> => UpTo(writers[1].sent)'
  BY <1>13, <1>14 DEF UpTo
<1>16. OneBlock' /\ StoredSoFar'
  <2>1. Len(writers') <= 1 /\ (writers' # <<>> => writers'[1].packet = Packet(blockNr))
    <3>1. Len(<<>>) = 0
      OBVIOUS
    <3>2. CASE writers' = <<>>
      BY <3>1, <3>2
    <3>3. CASE Len(writers') = 1 /\ writers'[1].packet = Packet(blockNr)
      BY <3>3
    <3>4. QED
      BY <1>14, <3>2, <3>3
  <2>2. QED
    BY <1>8, <1>11, <1>12, <1>15, <2>1 DEF OneAtATime, OneBlock, StoredSoFar
<1>17. ~Answered' /\ ~Prompting' /\ (\A T : HasUp(T)' <=> HasUp(T))
  BY <1>8, <1>9, TextStays DEF Answered, Prompting
<1>18. AnswerAlone' /\ Waiting' /\ Ending' /\ Done' /\ AnswersEnd' /\ OneEOT'
  BY <1>8, <1>9, <1>10, <1>17, Parts, TextStays
     DEF AnswerAlone, Waiting, Ending, Done, OneAtATime, OneEOT, InDown
<1>19. Receiving'
  BY <1>8, <1>9, <1>17 DEF OneAtATime, Receiving
<1>20. QED
  BY <1>8, <1>16, <1>18, <1>19 DEF OneAtATime

\* A thread less changes nothing for the rest.
LEMMA OneInterrupt == TypeInv /\ OneAtATime /\ Interrupt => OneAtATime'
<1> SUFFICES ASSUME TypeInv, OneAtATime, Interrupt PROVE OneAtATime'
  OBVIOUS
<1>1. writers' = <<>> /\ UNCHANGED <<blockNr, ring, up, down, mode, expect, got, stored, lost>>
  BY DEF Interrupt, lineVars, boardVars, pastVars
<1>2. (Quiet => Quiet') /\ (Prompting' <=> Prompting) /\ OneEOT' /\ AnswersEnd'
  BY <1>1, LineStays, TextStays DEF Quiet, Prompting, OneAtATime
<1>3. OneBlock' /\ StoredSoFar'
  BY <1>1, LineStays DEF OneAtATime, OneBlock, StoredSoFar, Carries
<1>4. AnswerAlone' /\ Waiting'
  BY <1>1, <1>2, LineStays, TextStays DEF OneAtATime, AnswerAlone, Answered, Waiting
<1>5. Receiving' /\ Ending' /\ Done'
  BY <1>1, <1>2, LineStays, TextStays DEF OneAtATime, Receiving, Ending, Done
<1>6. QED
  BY <1>1, <1>2, <1>3, <1>4, <1>5 DEF OneAtATime


\* A reset, when nothing is on its way, begins from the beginning.
LEMMA OneReset == TypeInv /\ hurries = 0 /\ hurries' = 0 /\ ResetBoard => OneAtATime'
<1> SUFFICES ASSUME TypeInv, hurries = 0, hurries' = 0, ResetBoard PROVE OneAtATime'
  OBVIOUS
<1>1. /\ ~UnderWay /\ mode' = "boot" /\ expect' = 1 /\ got' = <<>> /\ stored' = <<>>
      /\ UNCHANGED <<ring, writers, blockNr, down, up, lost>>
  BY DEF ResetBoard, HurryIf, hostVars, lineVars
<1>2. writers = <<>> /\ down = <<>> /\ ~Answered /\ Len(<<>>) = 0
  BY <1>1, Parts DEF UnderWay, Contains, HasUp
<1>3. \A K : ~InDown(K)'
  BY <1>1, <1>2 DEF InDown
<1>4. ~Answered' /\ AnswersEnd'
  BY <1>1, <1>2, TextStays, Parts DEF Answered
<1>5. Quiet' /\ OneEOT' /\ StoredSoFar'
  BY <1>1, <1>2, <1>3 DEF Quiet, OneEOT, StoredSoFar
<1>6. OneBlock'
  BY <1>1, <1>2 DEF OneBlock, Carries, Ascending
<1>7. AnswerAlone' /\ Waiting' /\ Receiving' /\ Ending' /\ Done'
  BY <1>1, <1>3, <1>4, <1>5 DEF AnswerAlone, Waiting, Receiving, Ending, Done
<1>8. QED
  BY <1>1, <1>4, <1>5, <1>6, <1>7 DEF OneAtATime

\* The board boots, asks and listens.
LEMMA OneBoot ==
  TypeInv /\ OneAtATime /\ hurries = 0 /\ hurries' = 0
    /\ (Boot \/ StopAutoboot \/ Ignore \/ Autoboot \/ TimeOut \/ ResetBoard) => OneAtATime'
<1> SUFFICES ASSUME TypeInv, OneAtATime, hurries = 0, hurries' = 0,
                    Boot \/ StopAutoboot \/ Ignore \/ Autoboot \/ TimeOut \/ ResetBoard
             PROVE  OneAtATime'
  OBVIOUS
<1>1. up \in Seq(Text) /\ down \in Seq(Lines) /\ "NAK" \in Text /\ "NAK" \in Answers /\ LastBlock \in Nat \ {0}
  BY LastBlockIs, XmodemAssumption DEF TypeInv, TypeOK, Lines, Text, Answers
<1>2. CASE Boot
  <2>1. /\ mode = "boot" /\ mode' = "wait"
        /\ UNCHANGED <<ring, writers, blockNr, down, expect, got, stored, lost>>
    BY <1>2 DEF Boot, hostVars, pastVars
  <2>2. PICK log \in Seq({"text"}) : up' = up \o log \o Prompt
    BY <1>2, LogText DEF Boot
  <2>3. ~Answered /\ Quiet /\ expect = 1
    BY <2>1 DEF OneAtATime, AnswerAlone, Waiting
  <2>4. ~Answered'
    <3>1. \A i \in 1 .. Len(up \o log \o Prompt) :
             (up \o log \o Prompt)[i] \in Answers
               => i \in 1 .. Len(up) /\ (up \o log \o Prompt)[i] = up[i]
      BY <1>1, BootText
    <3>2. QED
      BY <2>2, <2>3, <3>1 DEF Answered, HasUp
  <2>5. AnswersEnd'
    BY <2>4 DEF Answered, HasUp, AnswersEnd
  <2>6. Quiet' /\ OneEOT' /\ StoredSoFar' /\ OneBlock'
    BY <2>1, <2>3, LineStays DEF Quiet, OneAtATime, StoredSoFar, OneBlock, Carries, UpTo
  <2>7. AnswerAlone' /\ Waiting' /\ Receiving' /\ Ending' /\ Done'
    BY <2>1, <2>3, <2>4, <2>6, LineStays, Parts
       DEF OneAtATime, AnswerAlone, Waiting, Receiving, Ending, Done, Quiet
  <2>8. QED
    BY <2>1, <2>5, <2>6, <2>7 DEF OneAtATime
<1>3. CASE StopAutoboot
  <2>1. /\ mode = "wait" /\ down # <<>> /\ down' = Tail(down)
        /\ UNCHANGED <<ring, writers, blockNr, expect, got, stored, lost>>
        /\ \/ Head(down).kind = "X" /\ mode' = "recv" /\ up' = Append(up, "NAK")
           \/ mode' = mode /\ up' = up
    BY <1>3 DEF StopAutoboot, hostVars, pastVars
  <2>2. ~Answered /\ Quiet /\ expect = 1
    BY <2>1 DEF OneAtATime, AnswerAlone, Waiting
  <2>3. /\ \A K : InDown(K)' => InDown(K)
        /\ Head(down).kind = "X" => InDown({"X"})
        /\ Ascending => Ascending'
        /\ \A b : Carries(b) => Carries(b)'
        /\ OneEOT => OneEOT'
    BY <2>1, LineShrinks DEF TypeInv
  <2>4. Quiet' /\ OneEOT' /\ StoredSoFar' /\ OneBlock'
    BY <2>1, <2>2, <2>3 DEF Quiet, OneAtATime, StoredSoFar, OneBlock, Carries
  <2>5. ~InDown({"EOT"})'
    BY <2>2, <2>3, Parts DEF Quiet
  <2>6. CASE mode' = mode /\ up' = up
    <3>1. ~Answered' /\ AnswersEnd'
      BY <2>2, <2>6, TextStays DEF Answered, OneAtATime
    <3>2. AnswerAlone' /\ Waiting' /\ Receiving' /\ Ending' /\ Done'
      BY <2>1, <2>2, <2>3, <2>4, <2>5, <2>6, <3>1
         DEF OneAtATime, AnswerAlone, Waiting, Receiving, Ending, Done
    <3>3. QED
      BY <2>1, <2>4, <2>6, <3>1, <3>2 DEF OneAtATime
  <2>7. CASE Head(down).kind = "X" /\ mode' = "recv" /\ up' = Append(up, "NAK")
    <3>1. blockNr = 1
      BY <2>1, <2>3, <2>7 DEF OneAtATime, Waiting
    <3>2. /\ \A T : "NAK" \notin T /\ HasUp(T)' => HasUp(T)
          /\ AnswersEnd'
      BY <1>1, <2>2, <2>7, TextComes DEF TypeInv
    <3>3. ~HasUp({"ACK"})'
      BY <2>2, <3>2, Parts
    <3>4. AnswerAlone' /\ Waiting' /\ Receiving' /\ Ending' /\ Done'
      BY <1>1, <2>1, <2>2, <2>4, <2>5, <2>7, <3>1, <3>3 DEF AnswerAlone, Waiting, Receiving, Ending, Done
    <3>5. QED
      BY <2>4, <2>7, <3>2, <3>4 DEF OneAtATime
  <2>8. QED
    BY <2>1, <2>6, <2>7
<1>4. CASE Ignore
  <2>1. /\ mode = "done" /\ down # <<>> /\ down' = Tail(down)
        /\ UNCHANGED <<ring, writers, blockNr, up, mode, expect, got, stored, lost>>
    BY <1>4 DEF Ignore, hostVars, boardVars, pastVars, OneAtATime
  <2>2. /\ \A K : InDown(K)' => InDown(K)
        /\ Ascending => Ascending'
        /\ \A b : Carries(b) => Carries(b)'
        /\ OneEOT => OneEOT'
    BY <2>1, LineShrinks DEF TypeInv
  <2>3. (Quiet => Quiet') /\ OneEOT' /\ StoredSoFar' /\ AnswersEnd'
    BY <2>1, <2>2, TextStays DEF Quiet, OneAtATime, StoredSoFar
  <2>4. writers = <<>> /\ (Prompting' <=> Prompting)
    BY <2>1, TextStays DEF OneAtATime, Done, Prompting
  <2>5. OneBlock'
    BY <2>1, <2>2, <2>4 DEF OneAtATime, OneBlock
  <2>6. AnswerAlone' /\ Waiting' /\ Receiving' /\ Ending' /\ Done'
    BY <2>1, <2>2, <2>3, <2>4, TextStays
       DEF OneAtATime, AnswerAlone, Answered, Waiting, Receiving, Ending, Done
  <2>7. QED
    BY <2>1, <2>3, <2>5, <2>6 DEF OneAtATime
<1>5. CASE Autoboot
  BY <1>5 DEF Autoboot
<1>6. CASE TimeOut
  <2>1. /\ mode = "recv" /\ down = <<>> /\ got' = <<>> /\ up' = Append(up, "NAK") /\ ~UnderWay
        /\ UNCHANGED <<ring, writers, blockNr, down, mode, expect, stored, lost>>
    BY <1>6 DEF TimeOut, HurryIf, hostVars
  <2>2. writers = <<>> /\ ~Answered
    BY <2>1, Parts DEF UnderWay, Contains, HasUp
  <2>3. \A K : ~InDown(K)'
    BY <2>1 DEF InDown
  <2>4. Quiet' /\ OneEOT' /\ StoredSoFar'
    BY <2>1, <2>2, <2>3, LineStays DEF Quiet, OneAtATime, StoredSoFar
  <2>5. OneBlock'
    BY <2>1, <2>2, LineStays DEF OneAtATime, OneBlock
  <2>6. /\ \A T : "NAK" \notin T /\ HasUp(T)' => HasUp(T)
        /\ AnswersEnd'
    BY <1>1, <2>1, <2>2, TextComes DEF TypeInv
  <2>7. ~HasUp({"ACK"})' /\ (Prompting' => Prompting)
    BY <2>1, <2>2, <2>6, Parts DEF Prompting
  <2>8. AnswerAlone' /\ Waiting' /\ Ending' /\ Done'
    BY <2>1, <2>3, <2>4 DEF AnswerAlone, Waiting, Ending, Done
  <2>9. Receiving'
    BY <2>1, <2>3, <2>4, <2>7, LineStays DEF OneAtATime, Receiving
  <2>10. QED
    BY <2>1, <2>4, <2>5, <2>6, <2>8, <2>9 DEF OneAtATime
<1>7. CASE ResetBoard
  BY <1>7, OneReset
<1>8. QED
  BY <1>2, <1>3, <1>4, <1>5, <1>6, <1>7

\* What lies between packets; the tool's EOT ends the transfer.
LEMMA OneSkipByte ==
  TypeInv /\ OneAtATime /\ SkipByte /\ Head(down).kind # "^D" => OneAtATime'
<1> SUFFICES ASSUME TypeInv, OneAtATime, SkipByte, Head(down).kind # "^D" PROVE OneAtATime'
  OBVIOUS
<1>1. /\ mode = "recv" /\ got = <<>> /\ down # <<>> /\ down' = Tail(down)
      /\ UNCHANGED <<ring, writers, blockNr, expect, got, stored, lost>>
      /\ \/ Head(down).kind = "EOT" /\ mode' = "done" /\ up' = Append(up, "ACK")
         \/ Head(down).kind # "EOT" /\ mode' = mode /\ up' = up
  BY DEF SkipByte, Ends, hostVars, pastVars
<1>2. /\ \A K : InDown(K)' => InDown(K)
      /\ \A K : Head(down).kind \notin K /\ InDown(K) => InDown(K)'
      /\ \A K : Head(down).kind \in K => InDown(K)
      /\ Ascending => Ascending'
      /\ \A b : Carries(b) => Carries(b)'
      /\ \A k : UpTo(k) => UpTo(k)'
      /\ OneEOT => OneEOT'
      /\ OneEOT /\ Head(down).kind = "EOT" => ~InDown({"EOT"})'
  BY <1>1, LineShrinks DEF TypeInv
<1>3. (Quiet => Quiet') /\ OneEOT' /\ StoredSoFar'
  BY <1>1, <1>2 DEF Quiet, OneAtATime, StoredSoFar
<1>4. OneBlock'
  BY <1>1, <1>2 DEF OneAtATime, OneBlock, UpTo
<1>5. CASE Head(down).kind # "EOT" /\ mode' = mode /\ up' = up
  <2>1. AnswersEnd' /\ (Prompting' <=> Prompting)
    BY <1>1, <1>5, TextStays DEF OneAtATime, Prompting
  <2>2. AnswerAlone' /\ Waiting' /\ Receiving' /\ Ending' /\ Done'
    BY <1>1, <1>2, <1>3, <1>5, <2>1, TextStays
       DEF OneAtATime, AnswerAlone, Answered, Waiting, Receiving, Ending, Done
  <2>3. QED
    BY <1>1, <1>3, <1>4, <1>5, <2>1, <2>2 DEF OneAtATime
<1>6. CASE Head(down).kind = "EOT" /\ mode' = "done" /\ up' = Append(up, "ACK")
  <2>1. /\ InDown({"EOT"}) /\ ~InDown({"EOT"})' /\ ~InDown({"piece"})'
        /\ blockNr > LastBlock /\ blockNr = expect /\ writers = <<>>
    BY <1>1, <1>2, <1>6 DEF OneAtATime, Ending
  <2>2. ~Prompting /\ ~Answered
    BY <1>1, <2>1, Parts DEF OneAtATime, Receiving, AnswerAlone, Quiet
  <2>3. "ACK" \in Text /\ "press" # "ACK" /\ LastBlock \in Nat /\ blockNr \in Nat /\ Len(stored) \in Nat
    BY LastBlockIs, XmodemAssumption DEF Text, Answers, TypeInv, TypeOK
  <2>4. /\ \A T : "ACK" \notin T /\ HasUp(T)' => HasUp(T)
        /\ AnswersEnd'
    BY <1>6, <2>2, <2>3, TextComes DEF TypeInv
  <2>5. ~HasUp({"NAK"})' /\ ~Prompting'
    BY <1>1, <2>2, <2>3, <2>4, Parts DEF Prompting
  <2>6. Quiet' /\ Len(stored') >= LastBlock
    BY <1>1, <2>1, <2>3, Parts DEF Quiet, OneAtATime, StoredSoFar, InDown
  <2>7. AnswerAlone' /\ Waiting' /\ Receiving' /\ Ending' /\ Done'
    BY <1>1, <1>6, <2>1, <2>5, <2>6 DEF AnswerAlone, Waiting, Receiving, Ending, Done
  <2>8. QED
    BY <1>3, <1>4, <1>6, <2>4, <2>7 DEF OneAtATime
<1>7. QED
  BY <1>1, <1>5, <1>6

\* A packet that arrived whole is the block the tool is at, and nothing follows it.
LEMMA WholePacket ==
  ASSUME TypeInv, OneAtATime, down # <<>>, NEW bytes, bytes = Append(got, Head(down)),
         Len(bytes) = Pieces, Whole(bytes), down' = Tail(down)
  PROVE  /\ bytes[1].packet = Packet(blockNr)
         /\ writers = <<>> /\ ~InDown({"piece"})'
<1>1. /\ got \in Seq(Lines) /\ down \in Seq(Lines) /\ Pieces \in Nat \ {0}
  BY XmodemAssumption DEF TypeInv, TypeOK, Lines
<1>2. /\ Head(down) \in Lines /\ Head(down) = down[1] /\ Len(down) \in Nat \ {0}
      /\ Len(down') = Len(down) - 1
      /\ \A i \in 1 .. Len(down') : down'[i] = down[i + 1] /\ i + 1 \in 1 .. Len(down)
  BY <1>1, Shifted
<1>3. /\ bytes \in Seq(Lines) /\ Len(bytes) = Len(got) + 1 /\ Len(got) \in Nat
      /\ \A i \in 1 .. Len(got) : bytes[i] = got[i]
      /\ bytes[Len(got) + 1] = Head(down)
  BY <1>1, <1>2, Appended
<1>4. 1 \in 1 .. Len(bytes) /\ Pieces \in 1 .. Len(bytes) /\ 1 \in 1 .. Len(down)
  BY <1>1, <1>2
<1>5. bytes[1].kind = "piece" /\ bytes[Pieces].kind = "piece" /\ bytes[Pieces].k = Pieces
  BY <1>4 DEF Whole
<1>6. bytes[Pieces] = down[1]
  BY <1>2, <1>3
<1>7. bytes[1].packet = Packet(blockNr)
  <2>1. CASE Len(got) = 0
    <3>1. bytes[1] = down[1]
      BY <1>2, <1>3, <2>1
    <3>2. QED
      BY <1>4, <1>5, <3>1 DEF OneAtATime, OneBlock, Carries
  <2>2. CASE Len(got) # 0
    <3>1. 1 \in 1 .. Len(got) /\ bytes[1] = got[1]
      BY <1>3, <2>2
    <3>2. QED
      BY <1>5, <3>1 DEF OneAtATime, OneBlock
  <2>3. QED
    BY <2>1, <2>2
<1>8. writers = <<>>
  <2> SUFFICES ASSUME writers # <<>> PROVE FALSE
    OBVIOUS
  <2>1. Pieces <= writers[1].sent
    BY <1>4, <1>5, <1>6 DEF OneAtATime, OneBlock, UpTo
  <2>2. writers[1] \in [packet : Packets, sent : 0 .. Pieces - 1]
    <3>1. writers \in Seq([packet : Packets, sent : 0 .. Pieces - 1]) /\ 1 \in 1 .. Len(writers)
      BY DEF TypeInv, TypeOK
    <3>2. QED
      BY <3>1, ElementOfSeq
  <2>3. QED
    BY <1>1, <2>1, <2>2
<1>9. ~InDown({"piece"})'
  <2> SUFFICES ASSUME NEW i \in 1 .. Len(down'), down'[i].kind = "piece" PROVE FALSE
    BY DEF InDown
  <2>1. down[i + 1].kind = "piece" /\ i + 1 \in 1 .. Len(down) /\ 1 < i + 1
    BY <1>2
  <2>2. Pieces < down[i + 1].k
    BY <1>4, <1>5, <1>6, <2>1 DEF OneAtATime, OneBlock, Ascending
  <2>3. down[i + 1].k \in 1 .. Pieces
    BY <1>1, <2>1, SMTT(30) DEF Lines, Piece, Signals
  <2>4. QED
    BY <1>1, <2>2, <2>3
<1>10. QED
  BY <1>7, <1>8, <1>9

\* A packet takes another byte: it is not full yet, or it is stored, known or refused.
LEMMA OneReceiveByte ==
  TypeInv /\ OneAtATime /\ hurries = 0 /\ hurries' = 0 /\ ReceiveByte => OneAtATime'
<1> SUFFICES ASSUME TypeInv, OneAtATime, hurries = 0, hurries' = 0, ReceiveByte PROVE OneAtATime'
  OBVIOUS
<1> DEFINE bytes  == Append(got, Head(down))
           number == IF Whole(bytes) THEN bytes[1].packet.num ELSE Wrap
           wanted == number = expect % Wrap
           before == number = (expect + Wrap - 1) % Wrap
<1>1. /\ mode = "recv" /\ mode' = mode /\ down # <<>>
      /\ got # <<>> \/ Head(down).kind = "piece"
      /\ UNCHANGED <<ring, writers, blockNr, lost>>
      /\ \/ /\ got' = bytes /\ down' = Tail(down) /\ UNCHANGED <<up, expect, stored>>
         \/ /\ Len(bytes) = Pieces /\ wanted
            /\ got' = <<>> /\ down' = Tail(down) /\ up' = Append(up, "ACK")
            /\ stored' = Append(stored, bytes[1].packet.data) /\ expect' = expect + 1
         \/ /\ Len(bytes) = Pieces /\ before /\ ~wanted
            /\ got' = <<>> /\ down' = Tail(down) /\ up' = Append(up, "ACK")
            /\ UNCHANGED <<expect, stored>>
         \/ /\ got' = <<>> /\ down' = <<>> /\ up' = Append(up, "NAK")
            /\ HurryIf(writers # <<>>)
            /\ UNCHANGED <<expect, stored>>
  BY DEF ReceiveByte, hostVars
<1>2. /\ blockNr \in Nat /\ expect \in Nat /\ LastBlock \in Nat \ {0} /\ Wrap \in Nat \ {0, 1}
      /\ got \in Seq(Lines) /\ down \in Seq(Lines) /\ stored \in Seq(Nat)
      /\ "ACK" \in Text /\ "NAK" \in Text /\ expect >= 1
  BY LastBlockIs, XmodemAssumption DEF TypeInv, TypeOK, OneAtATime, StoredSoFar, Text, Answers, Lines
<1>3. Head(down).kind = "piece" => InDown({"piece"})
  BY <1>1, <1>2, Shifted DEF InDown
<1>4. ~Answered /\ ~Prompting /\ ~InDown({"EOT"})
  BY <1>1, <1>3, Parts DEF OneAtATime, AnswerAlone, Receiving, Ending, Quiet
<1>5. blockNr \in {expect - 1, expect} /\ blockNr >= 1 /\ ~(blockNr > LastBlock /\ "EOT" \notin lost)
  BY <1>1, <1>4 DEF OneAtATime, Receiving
<1>6. /\ Len(bytes) = Len(got) + 1 /\ Len(got) \in Nat
      /\ \A i \in 1 .. Len(got) : bytes[i] = got[i]
      /\ bytes[Len(got) + 1] = Head(down) /\ Head(down) = down[1] /\ 1 \in 1 .. Len(down)
      /\ \A i \in 1 .. Len(bytes) : i \in 1 .. Len(got) \/ i = Len(got) + 1
  BY <1>1, <1>2, Shifted, Appended
<1>7. \A i \in 1 .. Len(bytes) : bytes[i].kind = "piece" => bytes[i].packet = Packet(blockNr)
  BY <1>6 DEF OneAtATime, OneBlock, Carries
<1>8. ASSUME down' = Tail(down)
      PROVE  /\ \A K : InDown(K)' => InDown(K)
             /\ Ascending' /\ OneEOT' /\ Carries(Packet(blockNr))'
             /\ \A k : UpTo(k) => UpTo(k)'
             /\ ~InDown({"EOT"})'
  BY <1>1, <1>4, <1>8, LineShrinks DEF TypeInv, OneAtATime, OneBlock
<1>9. CASE got' = bytes /\ down' = Tail(down) /\ UNCHANGED <<up, expect, stored>>
  <2>1. StoredSoFar' /\ AnswersEnd' /\ ~Answered' /\ ~Prompting' /\ ~HasUp({"ACK"})'
    BY <1>1, <1>4, <1>9, TextStays, Parts DEF OneAtATime, StoredSoFar, Answered, Prompting
  <2>2. \A i \in 1 .. Len(got') : got'[i].kind = "piece" => got'[i].packet = Packet(blockNr)
    BY <1>7, <1>9
  <2>3. writers' # <<>> => writers'[1].packet = Packet(blockNr) /\ UpTo(writers[1].sent)'
    BY <1>1, <1>8, <1>9 DEF OneAtATime, OneBlock, UpTo
  <2>4. OneBlock'
    BY <1>1, <1>8, <1>9, <2>2, <2>3 DEF OneAtATime, OneBlock
  <2>5. AnswerAlone' /\ Waiting' /\ Ending' /\ Done'
    BY <1>1, <1>8, <1>9, <2>1 DEF AnswerAlone, Waiting, Ending, Done
  <2>6. Receiving'
    BY <1>1, <1>5, <1>9, <2>1 DEF Receiving
  <2>7. QED
    BY <1>1, <1>8, <1>9, <2>1, <2>4, <2>5, <2>6 DEF OneAtATime
<1>10. ASSUME Len(bytes) = Pieces, Whole(bytes), down' = Tail(down), got' = <<>>,
              up' = Append(up, "ACK"), StoredSoFar', blockNr = expect' - 1, expect' \in Nat
       PROVE  OneAtATime'
  <2>1. writers = <<>> /\ ~InDown({"piece"})' /\ ~InDown({"EOT"})'
    BY <1>1, <1>8, <1>10, WholePacket
  <2>2. Quiet'
    BY <1>1, <1>10, <2>1 DEF Quiet, InDown
  <2>3. (\A T : "ACK" \notin T /\ HasUp(T)' => HasUp(T)) /\ AnswersEnd'
    BY <1>2, <1>4, <1>10, TextComes DEF TypeInv
  <2>4. ~Prompting'
    BY <1>1, <1>4, <2>3 DEF Prompting
  <2>5. OneBlock'
    BY <1>1, <1>8, <1>10, <2>1 DEF OneBlock, OneAtATime
  <2>6. AnswerAlone' /\ Waiting' /\ Ending' /\ Done'
    BY <1>1, <2>1, <2>2 DEF AnswerAlone, Waiting, Ending, Done
  <2>7. Receiving'
    BY <1>1, <1>5, <1>10, <2>4 DEF Receiving
  <2>8. QED
    BY <1>1, <1>8, <1>10, <2>3, <2>5, <2>6, <2>7 DEF OneAtATime
<1>11. expect % Wrap # Wrap /\ (expect + Wrap - 1) % Wrap # Wrap
  <2>1. expect + Wrap - 1 \in Nat
    BY <1>2
  <2>2. expect % Wrap \in 0 .. Wrap - 1 /\ (expect + Wrap - 1) % Wrap \in 0 .. Wrap - 1
    BY <1>2, <2>1, Neighbours
  <2>3. QED
    BY <1>2, <2>2
<1>12. ASSUME Len(bytes) = Pieces, Whole(bytes), down' = Tail(down)
       PROVE  number = blockNr % Wrap /\ bytes[1].packet.data = blockNr
  <2>1. bytes[1].packet = Packet(blockNr)
    BY <1>1, <1>12, WholePacket
  <2>2. number = bytes[1].packet.num
    BY <1>12
  <2>3. QED
    BY <2>1, <2>2 DEF Packet
<1>13. ASSUME Len(bytes) = Pieces, wanted, got' = <<>>, down' = Tail(down),
              up' = Append(up, "ACK"), stored' = Append(stored, bytes[1].packet.data),
              expect' = expect + 1
       PROVE  OneAtATime'
  <2>1. Whole(bytes)
    BY <1>11, <1>13
  <2>2. number = blockNr % Wrap /\ bytes[1].packet.data = blockNr
    BY <1>12, <1>13, <2>1
  <2>3. blockNr = expect
    <3> SUFFICES ASSUME blockNr = expect - 1 PROVE FALSE
      BY <1>5
    <3>1. blockNr + 1 = expect
      BY <1>2
    <3>2. QED
      BY <1>2, <1>13, <2>2, <3>1, Neighbours
  <2>4. StoredSoFar'
    <3>1. /\ Len(stored') = Len(stored) + 1 /\ Len(stored) \in Nat
          /\ \A i \in 1 .. Len(stored) : stored'[i] = stored[i]
          /\ stored'[Len(stored) + 1] = blockNr
      BY <1>2, <1>13, <2>2, AppendProperties
    <3>2. expect = Len(stored) + 1 /\ \A k \in 1 .. Len(stored) : stored[k] = k
      BY DEF OneAtATime, StoredSoFar
    <3>3. \A k \in 1 .. Len(stored') : k \in 1 .. Len(stored) \/ k = Len(stored) + 1
      BY <3>1
    <3>4. QED
      BY <1>13, <2>3, <3>1, <3>2, <3>3 DEF StoredSoFar
  <2>5. blockNr = expect' - 1 /\ expect' \in Nat
    BY <1>2, <1>13, <2>3
  <2>6. QED
    BY <1>10, <1>13, <2>1, <2>4, <2>5
<1>14. ASSUME Len(bytes) = Pieces, before, ~wanted, got' = <<>>, down' = Tail(down),
              up' = Append(up, "ACK"), UNCHANGED <<expect, stored>>
       PROVE  OneAtATime'
  <2>1. Whole(bytes)
    BY <1>11, <1>14
  <2>2. blockNr = expect - 1
    BY <1>5, <1>12, <1>14, <2>1
  <2>3. StoredSoFar'
    BY <1>14 DEF OneAtATime, StoredSoFar
  <2>4. blockNr = expect' - 1 /\ expect' \in Nat
    BY <1>2, <1>14, <2>2
  <2>5. QED
    BY <1>10, <1>14, <2>1, <2>3, <2>4
<1>15. ASSUME got' = <<>>, down' = <<>>, up' = Append(up, "NAK"), HurryIf(writers # <<>>),
              UNCHANGED <<expect, stored>>
       PROVE  OneAtATime'
  <2>1. writers = <<>>
    BY <1>15 DEF HurryIf
  <2>2. \A K : ~InDown(K)'
    BY <1>15 DEF InDown
  <2>3. Quiet' /\ OneEOT' /\ Ascending' /\ (\A b : Carries(b)')
    BY <1>1, <1>15, <2>1, <2>2 DEF Quiet, OneEOT, Ascending, Carries
  <2>4. (\A T : "NAK" \notin T /\ HasUp(T)' => HasUp(T)) /\ AnswersEnd'
    BY <1>2, <1>4, <1>15, TextComes DEF TypeInv
  <2>5. ~Prompting' /\ ~HasUp({"ACK"})'
    BY <1>1, <1>4, <2>4, Parts DEF Prompting
  <2>6. OneBlock' /\ StoredSoFar'
    BY <1>1, <1>15, <2>1, <2>3 DEF OneBlock, OneAtATime, StoredSoFar
  <2>7. AnswerAlone' /\ Waiting' /\ Ending' /\ Done'
    BY <1>1, <2>2, <2>3 DEF AnswerAlone, Waiting, Ending, Done
  <2>8. Receiving'
    BY <1>1, <1>5, <1>15, <2>5 DEF Receiving
  <2>9. QED
    BY <1>1, <2>3, <2>4, <2>6, <2>7, <2>8 DEF OneAtATime
<1> HIDE DEF bytes, number, wanted, before
<1>16. QED
  BY <1>1, <1>9, <1>13, <1>14, <1>15


\* The line eats or garbles what is at its front.
LEMMA OneDisturb == TypeInv /\ OneAtATime /\ Disturb => OneAtATime'
<1> SUFFICES ASSUME TypeInv, OneAtATime, Disturb PROVE OneAtATime'
  OBVIOUS
<1>1. UNCHANGED <<ring, writers, blockNr, mode, expect, got, stored>>
  BY DEF Disturb, hostVars, boardVars
<1>2. /\ down \in Seq(Lines) /\ up \in Seq(Text) /\ "text" \in Text /\ "text" \notin Answers \cup {"press"}
      /\ Byte("junk") \in Lines /\ Byte("junk").kind = "junk"
  BY DEF TypeInv, TypeOK, Lines, Text, Answers, Byte, Signals
<1>3. StoredSoFar'
  BY <1>1 DEF OneAtATime, StoredSoFar
<1>4. ASSUME down # <<>>, NEW c \in {<<>>, <<Byte("junk")>>}, down' = c \o Tail(down),
             lost' = lost \cup ({Head(down).kind} \cap Unrepeated), up' = up
      PROVE  OneAtATime'
  <2>1. /\ \A i \in 1 .. Len(down') :
             \/ down'[i].kind = "junk"
             \/ i \in 1 .. Len(down) /\ c = <<Byte("junk")>> /\ down'[i] = down[i]
             \/ i + 1 \in 1 .. Len(down) /\ c = <<>> /\ down'[i] = down[i + 1]
    BY <1>2, <1>4, DownDisturbed
  <2>2. c # <<>> \/ c # <<Byte("junk")>>
    <3>1. Len(<<>>) = 0 /\ Len(<<Byte("junk")>>) = 1
      OBVIOUS
    <3>2. QED
      BY <3>1
  <2>3. \A K : "junk" \notin K /\ InDown(K)' => InDown(K)
    BY <2>1 DEF InDown
  <2>4. OneEOT'
    <3> SUFFICES ASSUME NEW i \in 1 .. Len(down'), NEW j \in 1 .. Len(down'),
                        down'[i].kind = "EOT", down'[j].kind = "EOT"
                 PROVE  i = j
      BY DEF OneEOT
    <3>1. CASE c = <<>>
      <4>1. i + 1 \in 1 .. Len(down) /\ j + 1 \in 1 .. Len(down)
            /\ down'[i] = down[i + 1] /\ down'[j] = down[j + 1]
        BY <2>1, <2>2, <3>1
      <4>2. i + 1 = j + 1
        BY <4>1 DEF OneAtATime, OneEOT
      <4>3. QED
        BY <4>2
    <3>2. CASE c # <<>>
      BY <2>1, <3>2 DEF OneAtATime, OneEOT
    <3>3. QED
      BY <3>1, <3>2
  <2>5. Ascending'
    <3> SUFFICES ASSUME NEW i \in 1 .. Len(down'), NEW j \in 1 .. Len(down'), i < j,
                        down'[i].kind = "piece", down'[j].kind = "piece"
                 PROVE  down'[i].k < down'[j].k
      BY DEF Ascending
    <3>1. CASE c = <<>>
      <4>1. i + 1 \in 1 .. Len(down) /\ j + 1 \in 1 .. Len(down)
            /\ down'[i] = down[i + 1] /\ down'[j] = down[j + 1]
        BY <2>1, <2>2, <3>1
      <4>2. i + 1 < j + 1
        OBVIOUS
      <4>3. QED
        BY <4>1, <4>2 DEF OneAtATime, OneBlock, Ascending
    <3>2. CASE c # <<>>
      BY <2>1, <3>2 DEF OneAtATime, OneBlock, Ascending
    <3>3. QED
      BY <3>1, <3>2
  <2>6. (\A b : Carries(b) => Carries(b)') /\ (\A k : UpTo(k) => UpTo(k)')
    BY <2>1 DEF Carries, UpTo
  <2>7. OneBlock'
    BY <1>1, <2>5, <2>6 DEF OneAtATime, OneBlock, UpTo
  <2>8. Head(down).kind # "EOT" /\ InDown({"EOT"}) => InDown({"EOT"})'
    <3> SUFFICES ASSUME Head(down).kind # "EOT", NEW i \in 1 .. Len(down), down[i].kind = "EOT"
                 PROVE  InDown({"EOT"})'
      BY DEF InDown
    <3>1. /\ Head(down) = down[1] /\ Tail(down) \in Seq(Lines)
          /\ Len(Tail(down)) = Len(down) - 1 /\ Len(down) \in Nat \ {0}
          /\ \A j \in 1 .. Len(Tail(down)) : Tail(down)[j] = down[j + 1]
      BY <1>2, <1>4, Shifted
    <3>2. i - 1 \in 1 .. Len(Tail(down)) /\ Tail(down)[i - 1] = down[i] /\ i - 1 + 1 = i
      <4>1. i # 1
        BY <3>1
      <4>2. i - 1 \in 1 .. Len(Tail(down)) /\ i - 1 + 1 = i
        BY <3>1, <4>1
      <4>3. QED
        BY <3>1, <4>2
    <3>3. CASE c = <<>>
      <4>1. down' = Tail(down)
        BY <1>4, <3>1, <3>3, ConcatEmptySeq
      <4>2. QED
        BY <3>2, <4>1 DEF InDown
    <3>4. CASE c = <<Byte("junk")>>
      <4>1. down' = <<Byte("junk")>> \o Tail(down)
        BY <1>4, <3>4
      <4>2. /\ Len(down') = Len(Tail(down)) + 1
            /\ \A j \in 1 .. Len(Tail(down)) : down'[j + 1] = Tail(down)[j]
        BY <1>2, <3>1, <4>1, PutBefore
      <4>3. i \in 1 .. Len(down') /\ down'[i] = down[i]
        <5> DEFINE j == i - 1
        <5>1. j \in 1 .. Len(Tail(down)) /\ j + 1 = i /\ Tail(down)[j] = down[i]
          BY <3>2
        <5> HIDE DEF j
        <5>2. down'[j + 1] = Tail(down)[j] /\ j + 1 \in 1 .. Len(down')
          BY <3>1, <4>2, <5>1
        <5>3. QED
          BY <5>1, <5>2
      <4>4. QED
        BY <4>3 DEF InDown
    <3>5. QED
      BY <3>3, <3>4
  <2>9. "EOT" \notin lost' => "EOT" \notin lost /\ Head(down).kind # "EOT"
    BY <1>4 DEF Unrepeated
  <2>10. (Quiet => Quiet') /\ AnswersEnd' /\ (Prompting' <=> Prompting)
    BY <1>1, <1>4, <2>3, TextStays DEF Quiet, OneAtATime, Prompting
  <2>11. AnswerAlone' /\ Waiting' /\ Ending' /\ Done'
    BY <1>1, <1>4, <2>3, <2>10, TextStays DEF OneAtATime, AnswerAlone, Answered, Waiting, Ending, Done
  <2>12. Receiving'
    BY <1>1, <1>4, <2>8, <2>9, <2>10, TextStays DEF OneAtATime, Receiving
  <2>13. QED
    BY <1>1, <1>3, <2>4, <2>7, <2>10, <2>11, <2>12 DEF OneAtATime
<1>5. ASSUME up # <<>>, NEW c \in {<<>>, <<"text">>}, up' = c \o Tail(up), down' = down,
             lost \subseteq lost'
      PROVE  OneAtATime'
  <2>1. /\ \A i \in 1 .. Len(up') :
             \/ up'[i] = "text"
             \/ i \in 1 .. Len(up) /\ c = <<"text">> /\ up'[i] = up[i]
             \/ i + 1 \in 1 .. Len(up) /\ c = <<>> /\ up'[i] = up[i + 1]
    BY <1>2, <1>5, UpDisturbed
  <2>l. Len(up') = Len(c) + Len(up) - 1 /\ Len(up) \in Nat
    BY <1>2, <1>5, UpDisturbed
  <2>2. \A T : "text" \notin T /\ HasUp(T)' => HasUp(T)
    BY <2>1 DEF HasUp
  <2>3. AnswersEnd'
    <3> SUFFICES ASSUME NEW i \in 1 .. Len(up'), up'[i] \in Answers PROVE i = Len(up')
      BY DEF AnswersEnd
    <3>1. CASE i \in 1 .. Len(up) /\ c = <<"text">> /\ up'[i] = up[i]
      <4>1. i = Len(up)
        BY <3>1 DEF OneAtATime, AnswersEnd
      <4>2. Len(c) = 1
        BY <3>1
      <4>3. QED
        BY <2>l, <4>1, <4>2
    <3>2. CASE i + 1 \in 1 .. Len(up) /\ c = <<>> /\ up'[i] = up[i + 1]
      <4>1. i + 1 = Len(up)
        BY <3>2 DEF OneAtATime, AnswersEnd
      <4>2. Len(c) = 0
        BY <3>2
      <4>3. QED
        BY <2>l, <4>1, <4>2
    <3>3. QED
      BY <1>2, <2>1, <3>1, <3>2
  <2>4. (Quiet' <=> Quiet) /\ OneEOT' /\ (Prompting' => Prompting) /\ (Answered' => Answered)
    BY <1>1, <1>2, <1>5, <2>2, LineStays DEF Quiet, OneAtATime, Prompting, Answered
  <2>5. OneBlock'
    BY <1>1, <1>5, LineStays DEF OneAtATime, OneBlock
  <2>6. AnswerAlone' /\ Waiting' /\ Ending'
    BY <1>1, <1>5, <2>4, LineStays DEF OneAtATime, AnswerAlone, Waiting, Ending
  <2>7. Receiving' /\ Done'
    BY <1>1, <1>5, <2>2, <2>4, LineStays DEF OneAtATime, Receiving, Done
  <2>8. QED
    BY <1>1, <1>3, <2>3, <2>4, <2>5, <2>6, <2>7 DEF OneAtATime
<1>6. QED
  BY <1>4, <1>5 DEF Disturb

-----------------------------------------------------------------------------
(* Counting in a sequence.                                                   *)

\* How many elements of s are in G, and where.
Where(s, G)   == {i \in 1 .. Len(s) : s[i] \in G}
HowMany(s, G) == Cardinality(Where(s, G))

\* It is a number; zero if there is none.
LEMMA HowManyType ==
  ASSUME NEW S, NEW s \in Seq(S), NEW G
  PROVE  /\ IsFiniteSet(Where(s, G)) /\ HowMany(s, G) \in Nat
         /\ (\A i \in 1 .. Len(s) : s[i] \notin G) <=> HowMany(s, G) = 0
         /\ (\E i \in 1 .. Len(s) : s[i] \in G) => HowMany(s, G) >= 1
<1>1. Len(s) \in Nat /\ IsFiniteSet(1 .. Len(s)) /\ Where(s, G) \in SUBSET (1 .. Len(s))
  BY FS_Interval DEF Where
<1>2. IsFiniteSet(Where(s, G))
  BY <1>1, FS_Subset
<1>3. HowMany(s, G) \in Nat
  BY <1>2, FS_CardinalityType DEF HowMany
<1>4. HowMany(s, G) = 0 <=> Where(s, G) = {}
  BY <1>2, FS_EmptySet DEF HowMany
<1>5. Where(s, G) = {} <=> \A i \in 1 .. Len(s) : s[i] \notin G
  BY DEF Where
<1> QED
  BY <1>2, <1>3, <1>4, <1>5

\* What is found in t is found in s, at a place of its own; if s has one more, it has more.
LEMMA Embedded ==
  ASSUME NEW S, NEW s \in Seq(S), NEW t \in Seq(S), NEW G,
         NEW f, \A i \in 1 .. Len(t) : t[i] \in G => f[i] \in 1 .. Len(s) /\ s[f[i]] \in G,
         \A i, j \in 1 .. Len(t) : f[i] = f[j] => i = j
  PROVE  /\ HowMany(t, G) <= HowMany(s, G)
         /\ \A k \in 1 .. Len(s) :
              s[k] \in G /\ (\A i \in 1 .. Len(t) : f[i] # k) => HowMany(t, G) + 1 <= HowMany(s, G)
<1>1. IsFiniteSet(Where(s, G)) /\ HowMany(s, G) \in Nat /\ HowMany(t, G) \in Nat
  BY HowManyType
<1> DEFINE g == [i \in Where(t, G) |-> f[i]]
<1>2. \A i, j \in Where(t, G) : g[i] = g[j] => i = j
  BY DEF Where
<1>3. g \in [Where(t, G) -> Where(s, G)]
  BY DEF Where
<1>4. g \in Injection(Where(t, G), Where(s, G))
  BY <1>2, <1>3 DEF Injection, IsInjective
<1>5. HowMany(t, G) <= HowMany(s, G)
  BY <1>1, <1>4, FS_Injection DEF HowMany
<1>6. ASSUME NEW k \in 1 .. Len(s), s[k] \in G, \A i \in 1 .. Len(t) : f[i] # k
      PROVE  HowMany(t, G) + 1 <= HowMany(s, G)
  <2> DEFINE R == Where(s, G) \ {k}
  <2>1. k \in Where(s, G)
    BY <1>6 DEF Where
  <2>2. IsFiniteSet(R) /\ Cardinality(R) = HowMany(s, G) - 1
    BY <1>1, <2>1, FS_RemoveElement DEF HowMany
  <2>3. g \in [Where(t, G) -> R]
    <3>1. \A i \in Where(t, G) : f[i] # k
      BY <1>6 DEF Where
    <3>2. QED
      BY <1>3, <3>1
  <2>4. g \in Injection(Where(t, G), R)
    BY <1>2, <2>3 DEF Injection, IsInjective
  <2> HIDE DEF R
  <2>5. Cardinality(Where(t, G)) <= Cardinality(R)
    BY <2>2, <2>4, FS_Injection
  <2>6. QED
    BY <1>1, <2>2, <2>5 DEF HowMany
<1> QED
  BY <1>5, <1>6

\* Elements are changed, but none to one of G.
LEMMA FewerOrAsMany ==
  ASSUME NEW S, NEW s \in Seq(S), NEW t \in Seq(S), NEW G, NEW H, Len(t) <= Len(s),
         \A i \in 1 .. Len(t) : t[i] \in G => s[i] \in H
  PROVE  /\ HowMany(t, G) <= HowMany(s, H)
         /\ \A k \in 1 .. Len(s) :
              s[k] \in H /\ (k \in 1 .. Len(t) => t[k] \notin G) => HowMany(t, G) + 1 <= HowMany(s, H)
<1>1. /\ IsFiniteSet(Where(s, H)) /\ IsFiniteSet(Where(t, G))
      /\ HowMany(s, H) \in Nat /\ HowMany(t, G) \in Nat
  BY HowManyType
<1>2. Where(t, G) \in SUBSET Where(s, H)
  BY DEF Where
<1>3. HowMany(t, G) <= HowMany(s, H)
  BY <1>1, <1>2, FS_Subset DEF HowMany
<1>4. ASSUME NEW k \in 1 .. Len(s), s[k] \in H, k \in 1 .. Len(t) => t[k] \notin G
      PROVE  HowMany(t, G) + 1 <= HowMany(s, H)
  <2>1. k \in Where(s, H) /\ k \notin Where(t, G)
    BY <1>4 DEF Where
  <2>2. HowMany(t, G) # HowMany(s, H)
    BY <1>1, <1>2, <2>1, FS_Subset DEF HowMany
  <2>3. QED
    BY <1>1, <1>3, <2>2
<1> QED
  BY <1>3, <1>4

\* A sequence grows, by one element of G at most.
LEMMA OneMore ==
  ASSUME NEW S, NEW s \in Seq(S), NEW t \in Seq(S), NEW G, Len(s) <= Len(t),
         \A i \in 1 .. Len(s) : t[i] = s[i],
         \A i \in Len(s) + 1 .. Len(t) : t[i] \in G => i = Len(s) + 1
  PROVE  /\ HowMany(t, G) <= HowMany(s, G) + 1
         /\ (\A i \in Len(s) + 1 .. Len(t) : t[i] \notin G) => HowMany(t, G) <= HowMany(s, G)
<1> DEFINE R == Where(s, G) \cup {Len(s) + 1}
<1>1. IsFiniteSet(Where(s, G)) /\ HowMany(s, G) \in Nat /\ HowMany(t, G) \in Nat
  BY HowManyType
<1>2. Len(s) \in Nat /\ Len(t) \in Nat
  OBVIOUS
<1>3. \A i \in 1 .. Len(t) : i \in 1 .. Len(s) \/ i \in Len(s) + 1 .. Len(t)
  BY <1>2
<1>4. Where(t, G) \in SUBSET R
  BY <1>3 DEF Where
<1>5. IsFiniteSet(R) /\ Cardinality(R) <= HowMany(s, G) + 1
  <2>1. /\ IsFiniteSet(R)
        /\ Cardinality(R) \in {Cardinality(Where(s, G)), Cardinality(Where(s, G)) + 1}
    BY <1>1, FS_AddElement
  <2>2. QED
    BY <1>1, <2>1 DEF HowMany
<1>6. HowMany(t, G) <= HowMany(s, G) + 1
  <2> HIDE DEF R
  <2>1. Cardinality(Where(t, G)) <= Cardinality(R) /\ Cardinality(R) \in Nat
    BY <1>4, <1>5, FS_Subset, FS_CardinalityType
  <2>2. QED
    BY <1>1, <1>5, <2>1 DEF HowMany
<1>7. ASSUME \A i \in Len(s) + 1 .. Len(t) : t[i] \notin G PROVE HowMany(t, G) <= HowMany(s, G)
  <2>1. Where(t, G) \in SUBSET Where(s, G)
    BY <1>3, <1>7 DEF Where
  <2>2. QED
    BY <1>1, <2>1, FS_Subset DEF HowMany
<1> QED
  BY <1>6, <1>7

\* The first element is taken away.
LEMMA OneLess ==
  ASSUME NEW S, NEW s \in Seq(S), s # <<>>, NEW G
  PROVE  /\ HowMany(Tail(s), G) <= HowMany(s, G)
         /\ Head(s) \in G => HowMany(Tail(s), G) + 1 <= HowMany(s, G)
<1>1. /\ Head(s) = s[1] /\ Tail(s) \in Seq(S)
      /\ Len(Tail(s)) = Len(s) - 1 /\ Len(s) \in Nat \ {0}
      /\ \A i \in 1 .. Len(Tail(s)) : Tail(s)[i] = s[i + 1] /\ i + 1 \in 1 .. Len(s)
  BY Shifted
<1> DEFINE f == [i \in 1 .. Len(Tail(s)) |-> i + 1]
<1>2. \A i \in 1 .. Len(Tail(s)) : f[i] = i + 1 /\ f[i] # 1
  BY <1>1
<1>3. \A i, j \in 1 .. Len(Tail(s)) : f[i] = f[j] => i = j
  BY <1>1, <1>2
<1>4. \A i \in 1 .. Len(Tail(s)) : Tail(s)[i] \in G => f[i] \in 1 .. Len(s) /\ s[f[i]] \in G
  BY <1>1, <1>2
<1> HIDE DEF f
<1>5. 1 \in 1 .. Len(s) /\ \A i \in 1 .. Len(Tail(s)) : f[i] # 1
  BY <1>1, <1>2
<1>6. Tail(s) \in Seq(S)
  BY <1>1
<1>7. /\ HowMany(Tail(s), G) <= HowMany(s, G)
      /\ \A k \in 1 .. Len(s) :
           s[k] \in G /\ (\A i \in 1 .. Len(Tail(s)) : f[i] # k)
             => HowMany(Tail(s), G) + 1 <= HowMany(s, G)
  BY <1>3, <1>4, <1>6, Embedded
<1> QED
  BY <1>1, <1>5, <1>7

\* An element is removed.
LEMMA OneRemoved ==
  ASSUME NEW S, NEW s \in Seq(S), NEW G, NEW m \in 1 .. Len(s)
  PROVE  /\ HowMany(RemoveAt(s, m), G) <= HowMany(s, G)
         /\ s[m] \in G => HowMany(RemoveAt(s, m), G) + 1 <= HowMany(s, G)
         /\ \A i \in 1 .. Len(RemoveAt(s, m)) : \E j \in 1 .. Len(s) : RemoveAt(s, m)[i] = s[j]
<1> DEFINE a == SubSeq(s, 1, m - 1)
           b == SubSeq(s, m + 1, Len(s))
           t == RemoveAt(s, m)
<1>1. m \in Nat /\ Len(s) \in Nat /\ m <= Len(s) /\ m >= 1
  OBVIOUS
<1>2. a \in Seq(S) /\ Len(a) = m - 1 /\ \A i \in 1 .. m - 1 : a[i] = s[i]
  <2>1. \A i \in 1 .. m - 1 : s[i] \in S
    BY <1>1
  <2>2. \A i \in 1 .. m - 1 - 1 + 1 : a[i] = s[1 + i - 1]
    BY <1>1, <2>1, SubSeqProperties
  <2>3. a \in Seq(S) /\ Len(a) = m - 1
    BY <1>1, <2>1, SubSeqProperties
  <2>4. QED
    BY <1>1, <2>2, <2>3
<1>3. b \in Seq(S) /\ Len(b) = Len(s) - m /\ \A i \in 1 .. Len(s) - m : b[i] = s[m + i]
  <2>1. \A i \in m + 1 .. Len(s) : s[i] \in S
    BY <1>1
  <2>2. \A i \in 1 .. Len(s) - (m + 1) + 1 : b[i] = s[m + 1 + i - 1]
    BY <1>1, <2>1, SubSeqProperties
  <2>3. b \in Seq(S) /\ Len(b) = Len(s) - m
    BY <1>1, <2>1, SubSeqProperties
  <2>4. ASSUME NEW i \in 1 .. Len(s) - m PROVE b[i] = s[m + i]
    <3>1. i \in 1 .. Len(s) - (m + 1) + 1 /\ m + 1 + i - 1 = m + i
      BY <1>1, <2>4
    <3>2. QED
      BY <2>2, <3>1
  <2>5. QED
    BY <2>3, <2>4
<1> HIDE DEF a, b
<1>4. /\ t \in Seq(S) /\ Len(t) = Len(s) - 1
      /\ \A i \in 1 .. Len(s) - 1 : t[i] = IF i <= m - 1 THEN a[i] ELSE b[i - (m - 1)]
  <2>1. /\ a \o b \in Seq(S) /\ Len(a \o b) = Len(a) + Len(b)
        /\ \A i \in 1 .. Len(a) + Len(b) : (a \o b)[i] = IF i <= Len(a) THEN a[i] ELSE b[i - Len(a)]
    BY <1>2, <1>3, ConcatProperties
  <2>2. Len(a) + Len(b) = Len(s) - 1
    BY <1>1, <1>2, <1>3
  <2>3. t = a \o b
    BY DEF RemoveAt, a, b
  <2>4. QED
    BY <1>2, <2>1, <2>2, <2>3
<1> HIDE DEF t
<1> DEFINE f == [i \in 1 .. Len(t) |-> IF i <= m - 1 THEN i ELSE i + 1]
<1>5. ASSUME NEW i \in 1 .. Len(t) PROVE f[i] \in 1 .. Len(s) /\ t[i] = s[f[i]] /\ f[i] # m
  <2>1. CASE i <= m - 1
    BY <1>1, <1>2, <1>4, <1>5, <2>1
  <2>2. CASE i > m - 1
    <3>1. i - (m - 1) \in 1 .. Len(s) - m /\ m + (i - (m - 1)) = i + 1 /\ ~(i <= m - 1)
      BY <1>1, <1>4, <1>5, <2>2
    <3>2. t[i] = b[i - (m - 1)]
      BY <1>4, <1>5, <3>1
    <3>3. t[i] = s[i + 1]
      BY <1>3, <3>1, <3>2
    <3>4. QED
      BY <1>1, <1>4, <1>5, <3>1, <3>3
  <2>3. QED
    BY <1>1, <1>4, <1>5, <2>1, <2>2
<1>6. \A i, j \in 1 .. Len(t) : f[i] = f[j] => i = j
  BY <1>1, <1>4
<1> HIDE DEF f
<1>7. \A i \in 1 .. Len(t) : t[i] \in G => f[i] \in 1 .. Len(s) /\ s[f[i]] \in G
  BY <1>5
<1>8. /\ HowMany(t, G) <= HowMany(s, G)
      /\ \A k \in 1 .. Len(s) :
           s[k] \in G /\ (\A i \in 1 .. Len(t) : f[i] # k) => HowMany(t, G) + 1 <= HowMany(s, G)
  <2>1. t \in Seq(S)
    BY <1>4
  <2>2. QED
    BY <1>6, <1>7, <2>1, Embedded
<1>9. \A i \in 1 .. Len(t) : f[i] # m
  BY <1>5
<1>10. \A i \in 1 .. Len(t) : \E j \in 1 .. Len(s) : t[i] = s[j]
  BY <1>5
<1> QED
  BY <1>8, <1>9, <1>10 DEF t

\* The front is cut off.
LEMMA RestHas ==
  ASSUME TypeOK, NEW n \in 1 .. Len(up), NEW G
  PROVE  /\ HowMany(RestOf(n), G) <= HowMany(up, G)
         /\ \A k \in 1 .. n : up[k] \in G => HowMany(RestOf(n), G) + 1 <= HowMany(up, G)
<1>1. /\ up \in Seq(Text) /\ Len(up) \in Nat /\ n \in Nat
      /\ RestOf(n) \in Seq(Text) /\ Len(RestOf(n)) = Len(up) - n
      /\ \A i \in 1 .. Len(up) - n : RestOf(n)[i] = up[i + n]
  <2>1. up \in Seq(Text) /\ Len(up) \in Nat /\ n \in Nat
    BY DEF TypeOK
  <2>2. /\ RestOf(n) \in Seq(Text) /\ Len(RestOf(n)) = Len(up) - n
        /\ \A i \in 1 .. Len(up) - n : RestOf(n)[i] = up[i + n]
    BY ChunkIs
  <2>3. QED
    BY <2>1, <2>2
<1> DEFINE f == [i \in 1 .. Len(RestOf(n)) |-> i + n]
<1>2. \A i \in 1 .. Len(RestOf(n)) : /\ f[i] = i + n /\ f[i] \in 1 .. Len(up)
                                     /\ RestOf(n)[i] = up[f[i]]
  BY <1>1
<1>3. \A i, j \in 1 .. Len(RestOf(n)) : f[i] = f[j] => i = j
  BY <1>1, <1>2
<1>4. \A k \in 1 .. n : k \in 1 .. Len(up) /\ \A i \in 1 .. Len(RestOf(n)) : f[i] # k
  BY <1>1, <1>2
<1> HIDE DEF f
<1>5. \A i \in 1 .. Len(RestOf(n)) : RestOf(n)[i] \in G => f[i] \in 1 .. Len(up) /\ up[f[i]] \in G
  BY <1>2
<1> QED
  BY <1>1, <1>3, <1>4, <1>5, Embedded

-----------------------------------------------------------------------------
(* An impatient board.  It is in step with the tool until block numbers wrap.  *)
(* Of the tokens, the blocks that have begun on their way and the answers, each *)
(* hurry makes one more; and the tool is ahead of the board by no more than the *)
(* answers to blocks that were sent again.                                      *)

\* The board was in a hurry, but not too often, and no block number came twice.
Early == Plain /\ resets = 0 /\ hurries + 1 < Wrap /\ Len(stored) < Wrap

Writers == [packet : Packets, sent : 0 .. Pieces - 1]

\* The first sign of a block of D: its thread before the first write, or its first piece.
Fresh(D) == {w \in Writers : w.sent = 0 /\ w.packet.data \in D}
First(D) == {p \in Piece : p.k = 1 /\ p.packet.data \in D}

\* How many blocks of D are on their way to the board, and how many answers from it.
OnTheWay(D) == HowMany(writers, Fresh(D)) + HowMany(down, First(D)) + HowMany(got, First(D))
Replies     == HowMany(up, Answers)
Acks        == HowMany(up, {"ACK"})

\* The packets a thread has, or a line brings.
Held(s, p)    == \E i \in 1 .. Len(s) : s[i].packet = p
Brought(s, p) == \E i \in 1 .. Len(s) : s[i].kind = "piece" /\ s[i].packet = p

FromFile(p) == \E b \in 1 .. blockNr : p = Packet(b)

\* What is on its way was taken from the blocks up to blockNr.
Numbered == \A p : Held(writers, p) \/ Brought(down, p) \/ Brought(got, p) => FromFile(p)

\* The prompt comes once: without a reset there is no second one.
PressInRing == \E i \in 1 .. Len(ring) : ring[i] = "press"
Presses     == HowMany(up, {"press"})
PressOnce ==
  /\ Presses <= 1
  /\ PressInRing => Presses = 0
  /\ mode = "boot" \/ xmodem => ~PressInRing /\ Presses = 0

\* Before the transfer nothing is on its way.
Idle == writers = <<>> /\ got = <<>> /\ ~InDown({"piece"}) /\ ~Answered /\ expect = 1

\* A packet under way begins with a first piece.
Opened == got # <<>> => got[1].kind = "piece" /\ got[1].k = 1

Bounded ==
  mode = "recv" =>
    /\ Replies + OnTheWay(Nat) <= 1 + hurries
    /\ \A x \in expect .. blockNr : blockNr + Acks + OnTheWay(0 .. x - 1) <= x + hurries

InStep ==
  /\ Numbered /\ StoredSoFar /\ PressOnce /\ Opened /\ Bounded
  /\ mode = "boot" => ~xmodem
  /\ xmodem => blockNr >= 1
  /\ ~xmodem \/ mode \in {"boot", "wait"} => Idle
  /\ mode = "wait" /\ xmodem => blockNr = 1

JInv == Early => InStep

\* The counts are numbers.
LEMMA CountTypes ==
  ASSUME TypeOK
  PROVE  /\ writers \in Seq(Writers) /\ down \in Seq(Lines) /\ got \in Seq(Lines) /\ up \in Seq(Text)
         /\ Replies \in Nat /\ Acks \in Nat /\ Presses \in Nat
         /\ blockNr \in Nat /\ expect \in Nat /\ hurries \in Nat
         /\ \A D : /\ HowMany(writers, Fresh(D)) \in Nat /\ HowMany(down, First(D)) \in Nat
                   /\ HowMany(got, First(D)) \in Nat /\ OnTheWay(D) \in Nat
<1>1. /\ writers \in Seq(Writers) /\ down \in Seq(Lines) /\ got \in Seq(Lines) /\ up \in Seq(Text)
      /\ blockNr \in Nat /\ expect \in Nat /\ hurries \in Nat
  BY DEF TypeOK, Writers, Lines
<1>2. Replies \in Nat /\ Acks \in Nat /\ Presses \in Nat
  BY <1>1, HowManyType DEF Replies, Acks, Presses
<1>3. ASSUME NEW D
      PROVE  /\ HowMany(writers, Fresh(D)) \in Nat /\ HowMany(down, First(D)) \in Nat
             /\ HowMany(got, First(D)) \in Nat
  BY <1>1, HowManyType
<1> QED
  BY <1>1, <1>2, <1>3 DEF OnTheWay

\* And they still are after the step.
LEMMA CountTypesNext ==
  ASSUME TypeOK'
  PROVE  /\ writers' \in Seq(Writers) /\ down' \in Seq(Lines) /\ got' \in Seq(Lines) /\ up' \in Seq(Text)
         /\ Replies' \in Nat /\ Acks' \in Nat /\ Presses' \in Nat
         /\ blockNr' \in Nat /\ expect' \in Nat /\ hurries' \in Nat
         /\ \A D : /\ HowMany(writers, Fresh(D))' \in Nat /\ HowMany(down, First(D))' \in Nat
                   /\ HowMany(got, First(D))' \in Nat /\ OnTheWay(D)' \in Nat
<1>1. /\ writers' \in Seq(Writers) /\ down' \in Seq(Lines) /\ got' \in Seq(Lines) /\ up' \in Seq(Text)
      /\ blockNr' \in Nat /\ expect' \in Nat /\ hurries' \in Nat
  BY DEF TypeOK, Writers, Lines
<1>2. Replies' \in Nat /\ Acks' \in Nat /\ Presses' \in Nat
  BY <1>1, HowManyType DEF Replies, Acks, Presses
<1>3. ASSUME NEW D
      PROVE  /\ HowMany(writers, Fresh(D))' \in Nat /\ HowMany(down, First(D))' \in Nat
             /\ HowMany(got, First(D))' \in Nat
  BY <1>1, HowManyType
<1>4. ASSUME NEW D PROVE OnTheWay(D)' \in Nat
  <2>1. \A x, y, z \in Nat : x + y + z \in Nat
    OBVIOUS
  <2> QED
    BY <1>3, <2>1 DEF OnTheWay
<1> QED
  BY <1>1, <1>2, <1>3, <1>4

\* There is nothing in an empty sequence.
LEMMA NoneInEmpty == \A G : HowMany(<<>>, G) = 0
  <1>1. Len(<<>>) = 0
    OBVIOUS
  <1>2. \A G : Where(<<>>, G) = {}
    BY <1>1 DEF Where
  <1>3. QED
    BY <1>2, FS_EmptySet DEF HowMany

\* A line brings nothing new.
NoMore(t, s) == /\ \A D : HowMany(t, First(D)) <= HowMany(s, First(D))
                /\ \A p : Brought(t, p) => Brought(s, p)

\* A byte that is no piece comes, or one is taken, or all.
LEMMA NoMoreOn ==
  ASSUME NEW s \in Seq(Lines)
  PROVE  /\ NoMore(s, s) /\ NoMore(<<>>, s)
         /\ s # <<>> => NoMore(Tail(s), s)
         /\ \A x \in Lines : x.kind # "piece" => NoMore(Append(s, x), s)
<1>1. NoMore(s, s)
  BY HowManyType DEF NoMore
<1>2. NoMore(<<>>, s)
  <2>1. Len(<<>>) = 0 /\ <<>> \in Seq(Lines)
    BY EmptySeq
  <2>2. \A p : ~Brought(<<>>, p)
    BY <2>1 DEF Brought
  <2>3. ASSUME NEW D PROVE HowMany(<<>>, First(D)) <= HowMany(s, First(D))
    <3>1. HowMany(<<>>, First(D)) = 0
      BY NoneInEmpty
    <3>2. HowMany(s, First(D)) \in Nat
      BY HowManyType
    <3>3. QED
      BY <3>1, <3>2
  <2>4. QED
    BY <2>2, <2>3 DEF NoMore
<1>3. ASSUME s # <<>> PROVE NoMore(Tail(s), s)
  <2>1. \A D : HowMany(Tail(s), First(D)) <= HowMany(s, First(D))
    BY <1>3, OneLess
  <2>2. \A i \in 1 .. Len(Tail(s)) : Tail(s)[i] = s[i + 1] /\ i + 1 \in 1 .. Len(s)
    BY <1>3, Shifted
  <2>3. \A p : Brought(Tail(s), p) => Brought(s, p)
    BY <2>2 DEF Brought
  <2>4. QED
    BY <2>1, <2>3 DEF NoMore
<1>4. ASSUME NEW x \in Lines, x.kind # "piece" PROVE NoMore(Append(s, x), s)
  <2> DEFINE t == Append(s, x)
  <2>1. /\ t \in Seq(Lines) /\ Len(t) = Len(s) + 1 /\ Len(s) \in Nat
        /\ \A i \in 1 .. Len(s) : t[i] = s[i]
        /\ t[Len(s) + 1] = x
        /\ \A i \in 1 .. Len(t) : i \in 1 .. Len(s) \/ i = Len(s) + 1
    BY Appended
  <2> HIDE DEF t
  <2>2. \A D : x \notin First(D)
    BY <1>4 DEF First, Piece
  <2>3. ASSUME NEW D PROVE HowMany(t, First(D)) <= HowMany(s, First(D))
    <3>1. \A i \in Len(s) + 1 .. Len(t) : t[i] \notin First(D)
      <4>1. \A i \in Len(s) + 1 .. Len(t) : i = Len(s) + 1
        BY <2>1
      <4>2. QED
        BY <2>1, <2>2, <4>1
    <3>2. Len(s) <= Len(t)
      BY <2>1
    <3>3. QED
      BY <2>1, <3>1, <3>2, OneMore
  <2>4. \A p : Brought(t, p) => Brought(s, p)
    BY <1>4, <2>1 DEF Brought
  <2>5. QED
    BY <2>3, <2>4 DEF NoMore, t
<1> QED
  BY <1>1, <1>2, <1>3, <1>4

\* Threads that neither begin nor change.
LEMMA WritersStay ==
  ASSUME TypeOK, writers' = writers \/ writers' = <<>>
  PROVE  /\ \A D : HowMany(writers, Fresh(D))' <= HowMany(writers, Fresh(D))
         /\ \A p : Held(writers, p)' => Held(writers, p)
<1>1. \A D : HowMany(writers, Fresh(D)) \in Nat
  BY CountTypes
<1>2. CASE writers' = writers
  BY <1>1, <1>2
<1>3. CASE writers' = <<>>
  <2>1. Len(<<>>) = 0 /\ <<>> \in Seq(Writers)
    BY EmptySeq
  <2>2. \A D : HowMany(<<>>, Fresh(D)) = 0
    BY NoneInEmpty
  <2>3. \A p : ~Held(<<>>, p)
    BY <2>1 DEF Held
  <2>4. QED
    BY <1>1, <1>3, <2>2, <2>3
<1> QED
  BY <1>2, <1>3

\* So nothing new is on the way to the board.
LEMMA NothingNew ==
  ASSUME TypeOK, TypeOK', writers' = writers \/ writers' = <<>>,
         NoMore(down', down), NoMore(got', got)
  PROVE  /\ \A D : OnTheWay(D)' <= OnTheWay(D)
         /\ blockNr' = blockNr /\ Numbered => Numbered'
<1>1. /\ \A D : HowMany(writers, Fresh(D))' <= HowMany(writers, Fresh(D))
      /\ \A p : Held(writers, p)' => Held(writers, p)
  BY WritersStay
<1>2. ASSUME NEW D PROVE OnTheWay(D)' <= OnTheWay(D)
  <2>1. /\ HowMany(down, First(D))' <= HowMany(down, First(D))
        /\ HowMany(got, First(D))' <= HowMany(got, First(D))
    BY DEF NoMore
  <2>2. /\ HowMany(writers, Fresh(D)) \in Nat /\ HowMany(down, First(D)) \in Nat
        /\ HowMany(got, First(D)) \in Nat
    BY CountTypes
  <2>3. /\ HowMany(writers, Fresh(D))' \in Nat /\ HowMany(down, First(D))' \in Nat
        /\ HowMany(got, First(D))' \in Nat
    BY CountTypesNext
  <2>4. QED
    BY <1>1, <2>1, <2>2, <2>3 DEF OnTheWay
<1>3. ASSUME blockNr' = blockNr, Numbered PROVE Numbered'
  BY <1>1, <1>3 DEF NoMore, Numbered, FromFile
<1> QED
  BY <1>2, <1>3

\* A sum that grows by a hurry at most.
LEMMA Slack ==
  ASSUME NEW n \in Nat, NEW k \in Nat, NEW l \in Nat, NEW a \in Nat, NEW b \in Nat, NEW x \in Int,
         NEW m \in Nat, NEW h \in {0, 1}, n + k + a <= x + m, l + b <= k + a + h
  PROVE  n + l + b <= x + (m + h)
  OBVIOUS

\* What keeps the bounds.
LEMMA BoundedKept ==
  ASSUME TypeOK, TypeOK', Bounded, NEW h \in {0, 1}, hurries' = hurries + h,
         mode' = "recv" =>
           /\ mode = "recv" /\ expect' >= expect /\ blockNr' = blockNr
           /\ Replies' + OnTheWay(Nat)' <= Replies + OnTheWay(Nat) + h
           /\ \A x \in expect' .. blockNr :
                Acks' + OnTheWay(0 .. x - 1)' <= Acks + OnTheWay(0 .. x - 1) + h
  PROVE  Bounded'
<1> SUFFICES ASSUME mode' = "recv"
             PROVE  /\ Replies' + OnTheWay(Nat)' <= 1 + hurries'
                    /\ \A x \in expect' .. blockNr' :
                         blockNr' + Acks' + OnTheWay(0 .. x - 1)' <= x + hurries'
  BY DEF Bounded
<1>1. /\ Replies \in Nat /\ Acks \in Nat /\ hurries \in Nat /\ blockNr \in Nat /\ expect \in Nat
      /\ \A D : OnTheWay(D) \in Nat
  BY CountTypes
<1>2. Replies' \in Nat /\ Acks' \in Nat
  BY CountTypesNext
<1>3. \A D : OnTheWay(D)' \in Nat
  BY CountTypesNext
<1>4. Replies' + OnTheWay(Nat)' <= 1 + hurries'
  <2>1. Replies + OnTheWay(Nat) <= 1 + hurries /\ OnTheWay(Nat) \in Nat /\ OnTheWay(Nat)' \in Nat
    BY <1>1, <1>3 DEF Bounded
  <2>2. QED
    BY <1>1, <1>2, <2>1
<1>5. ASSUME NEW x \in expect' .. blockNr'
      PROVE  blockNr' + Acks' + OnTheWay(0 .. x - 1)' <= x + hurries'
  <2>1. x \in expect .. blockNr /\ x \in expect' .. blockNr /\ x \in Int
    <3>1. expect' \in Nat
      BY CountTypesNext
    <3>2. QED
      BY <1>1, <3>1
  <2>2. OnTheWay(0 .. x - 1) \in Nat /\ OnTheWay(0 .. x - 1)' \in Nat
    BY <1>1, <1>3
  <2>3. blockNr + Acks + OnTheWay(0 .. x - 1) <= x + hurries
    BY <2>1 DEF Bounded
  <2>4. /\ Acks' + OnTheWay(0 .. x - 1)' <= Acks + OnTheWay(0 .. x - 1) + h
        /\ blockNr' = blockNr /\ hurries' = hurries + h
    BY <2>1
  <2> DEFINE a == OnTheWay(0 .. x - 1)
             b == OnTheWay(0 .. x - 1)'
  <2> HIDE DEF a, b
  <2>5. /\ a \in Nat /\ b \in Nat /\ blockNr + Acks + a <= x + hurries
        /\ Acks' + b <= Acks + a + h
    BY <2>2, <2>3, <2>4 DEF a, b
  <2>6. blockNr \in Nat /\ Acks \in Nat /\ Acks' \in Nat /\ hurries \in Nat /\ x \in Int
    BY <1>1, <1>2, <2>1
  <2>7. blockNr + Acks' + b <= x + (hurries + h)
    BY <2>5, <2>6, Slack
  <2>8. QED
    BY <2>4, <2>7 DEF b
<1> QED
  BY <1>4, <1>5

\* What the rest of InStep needs of most steps.
LEMMA CalmStep ==
  ASSUME TypeOK, TypeOK', InStep, UNCHANGED <<xmodem, blockNr, expect, stored, ring>>,
         mode' \in {mode, "gone", "done"}, Presses' <= Presses,
         Numbered', Bounded', Opened', ~xmodem \/ mode \in {"boot", "wait"} => (Idle => Idle'),
         mode' = "done" => mode \notin {"boot", "wait"}
  PROVE  InStep'
<1>1. Presses \in Nat /\ Presses' \in Nat
  BY CountTypes, CountTypesNext
<1>2. StoredSoFar'
  BY DEF InStep, StoredSoFar
<1>3. PressOnce'
  BY <1>1 DEF InStep, PressOnce, PressInRing
<1> QED
  BY <1>2, <1>3 DEF InStep

\* An answer or a text comes.
LEMMA OneAppended ==
  ASSUME NEW S, NEW s \in Seq(S), NEW x \in S, NEW G
  PROVE  /\ HowMany(Append(s, x), G) <= HowMany(s, G) + 1
         /\ x \notin G => HowMany(Append(s, x), G) <= HowMany(s, G)
<1> DEFINE t == Append(s, x)
<1>1. /\ t \in Seq(S) /\ Len(t) = Len(s) + 1 /\ Len(s) \in Nat
      /\ \A i \in 1 .. Len(s) : t[i] = s[i]
      /\ t[Len(s) + 1] = x
  BY Appended
<1> HIDE DEF t
<1>2. \A i \in Len(s) + 1 .. Len(t) : i = Len(s) + 1
  BY <1>1
<1>3. Len(s) <= Len(t)
  BY <1>1
<1>4. HowMany(t, G) <= HowMany(s, G) + 1
  BY <1>1, <1>2, <1>3, OneMore
<1>5. ASSUME x \notin G PROVE HowMany(t, G) <= HowMany(s, G)
  <2>1. \A i \in Len(s) + 1 .. Len(t) : t[i] \notin G
    BY <1>1, <1>2, <1>5
  <2>2. QED
    BY <1>1, <1>2, <1>3, <2>1, OneMore
<1> QED
  BY <1>4, <1>5 DEF t

\* Nothing is on the way still.
LEMMA IdleStays ==
  ASSUME writers' = writers \/ writers' = <<>>, got' = got \/ got' = <<>>, NoMore(down', down),
         Answered' => Answered, expect' = expect
  PROVE  Idle => Idle'
<1>1. InDown({"piece"})' => InDown({"piece"})
  <2> SUFFICES ASSUME NEW i \in 1 .. Len(down'), down'[i].kind = "piece" PROVE InDown({"piece"})
    BY DEF InDown
  <2>1. Brought(down', down'[i].packet)
    BY DEF Brought
  <2>2. Brought(down, down'[i].packet)
    BY <2>1 DEF NoMore
  <2>3. QED
    BY <2>2 DEF Brought, InDown
<1> QED
  BY <1>1 DEF Idle

\* A step that brings nothing and is no answer.
LEMMA QuietStep ==
  ASSUME TypeInv, TypeInv', InStep, UNCHANGED <<xmodem, blockNr, expect, stored, ring, up>>,
         mode' \in {mode, "gone"}, mode' = "recv" => hurries' = hurries,
         writers' = writers \/ writers' = <<>>, got' = got, NoMore(down', down)
  PROVE  InStep'
<1>1. TypeOK /\ TypeOK'
  BY DEF TypeInv
<1>2. NoMore(got', got)
  <2>1. got \in Seq(Lines)
    BY <1>1, CountTypes
  <2>2. QED
    BY <2>1, NoMoreOn
<1>3. (\A D : OnTheWay(D)' <= OnTheWay(D)) /\ Numbered'
  BY <1>1, <1>2, NothingNew DEF InStep
<1>4. Replies' = Replies /\ Acks' = Acks /\ Presses' = Presses /\ (Answered' <=> Answered)
  BY TextStays DEF Replies, Acks, Presses, Answered
<1>5. Replies \in Nat /\ Acks \in Nat /\ Presses \in Nat /\ hurries \in Nat /\ expect \in Nat
      /\ (\A D : OnTheWay(D) \in Nat) /\ (\A D : OnTheWay(D)' \in Nat)
  BY <1>1, CountTypes, CountTypesNext
<1>6. Bounded'
  <2>1. CASE mode' # "recv"
    BY <2>1 DEF Bounded
  <2>2. CASE mode' = "recv"
    <3>1. Bounded /\ mode = "recv" /\ hurries' = hurries + 0 /\ 0 \in {0, 1} /\ expect' >= expect
      BY <1>5, <2>2 DEF InStep
    <3>2. Replies' + OnTheWay(Nat)' <= Replies + OnTheWay(Nat) + 0
      <4>1. OnTheWay(Nat)' <= OnTheWay(Nat) /\ OnTheWay(Nat)' \in Nat /\ OnTheWay(Nat) \in Nat
        BY <1>3, <1>5
      <4>2. QED
        BY <1>4, <1>5, <4>1
    <3>3. ASSUME NEW x \in expect' .. blockNr
          PROVE  Acks' + OnTheWay(0 .. x - 1)' <= Acks + OnTheWay(0 .. x - 1) + 0
      <4> DEFINE D == 0 .. x - 1
      <4> HIDE DEF D
      <4>1. OnTheWay(D)' <= OnTheWay(D) /\ OnTheWay(D)' \in Nat /\ OnTheWay(D) \in Nat
        BY <1>3, <1>5
      <4>2. Acks' + OnTheWay(D)' <= Acks + OnTheWay(D) + 0
        BY <1>4, <1>5, <4>1
      <4>3. QED
        BY <4>2 DEF D
    <3>4. QED
      BY <1>1, <3>1, <3>2, <3>3, BoundedKept
  <2>3. QED
    BY <2>1, <2>2
<1>7. Opened'
  BY DEF InStep, Opened
<1>8. Idle => Idle'
  BY <1>4, IdleStays
<1>9. Presses' <= Presses /\ (mode' = "done" => mode \notin {"boot", "wait"})
  BY <1>4, <1>5
<1> QED
  BY <1>1, <1>3, <1>6, <1>7, <1>8, <1>9, CalmStep

\* The keyboard, the end of the process, a board that listens no more or not yet.
LEMMA EarlyQuiet ==
  TypeInv /\ TypeInv' /\ InStep
    /\ (ReadStdin \/ Interrupt \/ Ignore \/ Autoboot \/ UNCHANGED vars
        \/ (StopAutoboot /\ mode' = "wait") \/ (SkipByte /\ mode' = "recv")) => InStep'
<1> SUFFICES ASSUME TypeInv, TypeInv', InStep,
                    ReadStdin \/ Interrupt \/ Ignore \/ Autoboot \/ UNCHANGED vars
                    \/ (StopAutoboot /\ mode' = "wait") \/ (SkipByte /\ mode' = "recv")
             PROVE  InStep'
  OBVIOUS
<1> USE DEF hostVars, lineVars, boardVars, pastVars
<1>1. down \in Seq(Lines)
  BY CountTypes DEF TypeInv
<1>2. /\ NoMore(down, down)
      /\ down # <<>> => NoMore(Tail(down), down)
      /\ \A key \in {"junk"} \cup Keys : NoMore(Append(down, Byte(key)), down)
  <2>1. \A key \in {"junk"} \cup Keys : Byte(key) \in Lines /\ Byte(key).kind # "piece"
    BY DEF Byte, Lines, Signals, Keys
  <2>2. QED
    BY <1>1, <2>1, NoMoreOn
<1>3. CASE ReadStdin
  <2>1. PICK key \in {"junk"} \cup Keys : down' = Append(down, Byte(key))
    BY <1>3 DEF ReadStdin
  <2>2. NoMore(down', down)
    BY <1>2, <2>1
  <2>3. QED
    BY <1>3, <2>2, QuietStep DEF ReadStdin
<1>4. CASE Interrupt
  BY <1>2, <1>4, QuietStep DEF Interrupt
<1>5. CASE Ignore
  BY <1>2, <1>5, QuietStep DEF Ignore
<1>6. CASE Autoboot
  BY <1>2, <1>6, QuietStep DEF Autoboot
<1>7. CASE UNCHANGED vars
  BY <1>2, <1>7, QuietStep DEF vars
<1>8. CASE StopAutoboot /\ mode' = "wait"
  BY <1>2, <1>8, QuietStep DEF StopAutoboot
<1>9. CASE SkipByte /\ mode' = "recv"
  BY <1>2, <1>9, QuietStep DEF SkipByte
<1> QED
  BY <1>3, <1>4, <1>5, <1>6, <1>7, <1>8, <1>9

\* The pieces that one write() puts on the line, and what the thread has left.
LEMMA PiecesGo ==
  ASSUME TypeOK, NEW m \in 1 .. Len(writers), WritePiece(m)
  PROVE  /\ down' \in Seq(Lines) /\ Len(down) <= Len(down')
         /\ \A j \in 1 .. Len(down) : down'[j] = down[j]
         /\ \A j \in Len(down) + 1 .. Len(down') :
              /\ down'[j].kind = "piece" /\ down'[j].packet = writers[m].packet
              /\ down'[j].k = writers[m].sent + (j - Len(down))
         /\ \/ writers' = RemoveAt(writers, m)
            \/ \E n \in 1 .. Pieces - 1 : writers' = [writers EXCEPT ![m].sent = n]
         /\ writers[m] \in Writers
<1> DEFINE w == writers[m]
<1>1. writers \in Seq(Writers) /\ down \in Seq(Lines) /\ w \in Writers /\ Len(down) \in Nat
  <2>1. writers \in Seq(Writers) /\ down \in Seq(Lines)
    BY CountTypes
  <2>2. QED
    BY <2>1
<1>2. PICK n \in w.sent + 1 .. Pieces :
        /\ down' = down \o [k \in 1 .. n - w.sent |-> PieceOf(w.packet, w.sent + k)]
        /\ writers' = IF n = Pieces THEN RemoveAt(writers, m)
                                    ELSE [writers EXCEPT ![m].sent = n]
  BY DEF WritePiece
<1> DEFINE new == [k \in 1 .. n - w.sent |-> PieceOf(w.packet, w.sent + k)]
<1> HIDE DEF w
<1>3. /\ w.packet \in Packets /\ w.sent \in Nat /\ n \in Nat /\ n - w.sent \in Nat
      /\ n \in 1 .. Pieces /\ Pieces \in Nat
  <2>1. w.packet \in Packets /\ w.sent \in Nat
    BY <1>1 DEF Writers
  <2>2. Pieces \in Nat /\ n \in w.sent + 1 .. Pieces
    BY <1>2, XmodemAssumption
  <2>3. n \in Nat /\ n - w.sent \in Nat /\ n \in 1 .. Pieces
    BY <2>1, <2>2
  <2>4. QED
    BY <2>1, <2>2, <2>3
<1>4. ASSUME NEW k \in 1 .. n - w.sent
      PROVE  /\ PieceOf(w.packet, w.sent + k) \in Lines
             /\ PieceOf(w.packet, w.sent + k).kind = "piece"
             /\ PieceOf(w.packet, w.sent + k).packet = w.packet
             /\ PieceOf(w.packet, w.sent + k).k = w.sent + k
  <2>1. w.sent + k \in 1 .. Pieces
    BY <1>3
  <2>2. QED
    BY <1>3, <2>1 DEF PieceOf, Lines, Piece
<1>5. /\ new \in Seq(Lines) /\ Len(new) = n - w.sent
      /\ \A k \in 1 .. n - w.sent : /\ new[k].kind = "piece" /\ new[k].packet = w.packet
                                    /\ new[k].k = w.sent + k
  <2>1. /\ new \in [1 .. n - w.sent -> Lines]
        /\ \A k \in 1 .. n - w.sent : /\ new[k].kind = "piece" /\ new[k].packet = w.packet
                                      /\ new[k].k = w.sent + k
    BY <1>4
  <2> HIDE DEF new
  <2>2. new \in Seq(Lines) /\ Len(new) = n - w.sent
    <3> DEFINE l == n - w.sent
    <3>1. l \in Nat /\ new \in [1 .. l -> Lines]
      BY <1>3, <2>1
    <3> HIDE DEF l
    <3>2. new \in Seq(Lines) /\ Len(new) = l
      BY <3>1, FunctionIsSeq
    <3>3. QED
      BY <3>2 DEF l
  <2>3. QED
    BY <2>1, <2>2
<1> HIDE DEF new
<1>6. /\ down' \in Seq(Lines) /\ Len(down') = Len(down) + Len(new) /\ Len(new) \in Nat
      /\ \A j \in 1 .. Len(down) + Len(new) :
           down'[j] = IF j <= Len(down) THEN down[j] ELSE new[j - Len(down)]
  <2>1. down' = down \o new
    BY <1>2 DEF new
  <2>2. Len(new) \in Nat
    BY <1>5
  <2>3. QED
    BY <1>1, <1>5, <2>1, <2>2, ConcatProperties
<1>7. ASSUME NEW j \in Len(down) + 1 .. Len(down')
      PROVE  /\ down'[j].kind = "piece" /\ down'[j].packet = w.packet
             /\ down'[j].k = w.sent + (j - Len(down))
  <2>1. j - Len(down) \in 1 .. n - w.sent /\ ~(j <= Len(down)) /\ j \in 1 .. Len(down) + Len(new)
    BY <1>1, <1>5, <1>6
  <2>2. down'[j] = new[j - Len(down)]
    BY <1>6, <2>1
  <2>3. QED
    BY <1>5, <2>1, <2>2
<1>8. Len(down) <= Len(down') /\ \A j \in 1 .. Len(down) : down'[j] = down[j]
  BY <1>1, <1>6
<1>9. \/ writers' = RemoveAt(writers, m)
      \/ \E l \in 1 .. Pieces - 1 : writers' = [writers EXCEPT ![m].sent = l]
  <2>1. CASE n = Pieces
    BY <1>2, <2>1
  <2>2. CASE n # Pieces
    <3>1. n \in 1 .. Pieces - 1
      BY <1>3, <2>2
    <3>2. QED
      BY <1>2, <2>2, <3>1
  <2>3. QED
    BY <2>1, <2>2
<1> QED
  BY <1>1, <1>6, <1>7, <1>8, <1>9 DEF w

\* A thread that goes on is not fresh any more; nothing else changes.
LEMMA ThreadGoes ==
  ASSUME NEW s \in Seq(Writers), NEW m \in 1 .. Len(s), NEW n \in 1 .. Pieces - 1, NEW D
  PROVE  LET t == [s EXCEPT ![m].sent = n]
         IN  /\ HowMany(t, Fresh(D)) <= HowMany(s, Fresh(D))
             /\ s[m] \in Fresh(D) => HowMany(t, Fresh(D)) + 1 <= HowMany(s, Fresh(D))
             /\ \A i \in 1 .. Len(t) : \E j \in 1 .. Len(s) : t[i].packet = s[j].packet
<1> DEFINE v == [s[m] EXCEPT !.sent = n]
           t == [s EXCEPT ![m] = v]
<1>1. Len(s) \in Nat /\ s \in [1 .. Len(s) -> Writers] /\ s[m] \in Writers
  OBVIOUS
<1>2. v \in Writers /\ v.sent = n /\ v.packet = s[m].packet
  <2>1. n \in 0 .. Pieces - 1
    BY XmodemAssumption
  <2>2. QED
    BY <1>1, <2>1 DEF Writers
<1> HIDE DEF v
<1>3. t \in [1 .. Len(s) -> Writers] /\ t[m] = v /\ \A i \in 1 .. Len(s) : i # m => t[i] = s[i]
  BY <1>1, <1>2
<1> HIDE DEF t
<1>4. t \in Seq(Writers) /\ Len(t) = Len(s)
  BY <1>1, <1>3, FunctionIsSeq
<1>5. v \notin Fresh(D)
  BY <1>2, XmodemAssumption DEF Fresh
<1>6. \A i \in 1 .. Len(t) : t[i] \in Fresh(D) => s[i] \in Fresh(D)
  BY <1>3, <1>4, <1>5
<1>7. Len(t) <= Len(s) /\ m \in 1 .. Len(t) /\ t[m] \notin Fresh(D)
  BY <1>1, <1>3, <1>4, <1>5
<1>8. /\ HowMany(t, Fresh(D)) <= HowMany(s, Fresh(D))
      /\ s[m] \in Fresh(D) => HowMany(t, Fresh(D)) + 1 <= HowMany(s, Fresh(D))
  BY <1>4, <1>6, <1>7, FewerOrAsMany
<1>9. \A i \in 1 .. Len(t) : \E j \in 1 .. Len(s) : t[i].packet = s[j].packet
  BY <1>2, <1>3, <1>4
<1> QED
  BY <1>8, <1>9 DEF t, v

\* A block changes from its thread to the line.
LEMMA WriteMoves ==
  ASSUME TypeOK, TypeOK', NEW m \in 1 .. Len(writers), WritePiece(m)
  PROVE  /\ \A D : OnTheWay(D)' <= OnTheWay(D)
         /\ Numbered => Numbered'
<1> DEFINE w == writers[m]
<1>0. writers \in Seq(Writers) /\ down \in Seq(Lines) /\ got' = got /\ blockNr' = blockNr
  BY CountTypes DEF WritePiece, boardVars
<1>1. /\ down' \in Seq(Lines) /\ Len(down) <= Len(down')
      /\ \A j \in 1 .. Len(down) : down'[j] = down[j]
      /\ \A j \in Len(down) + 1 .. Len(down') :
              /\ down'[j].kind = "piece" /\ down'[j].packet = w.packet
              /\ down'[j].k = w.sent + (j - Len(down))
      /\ \/ writers' = RemoveAt(writers, m)
         \/ \E n \in 1 .. Pieces - 1 : writers' = [writers EXCEPT ![m].sent = n]
      /\ w \in Writers
  BY PiecesGo
<1>2. \A D : /\ HowMany(writers, Fresh(D))' <= HowMany(writers, Fresh(D))
             /\ w \in Fresh(D) => HowMany(writers, Fresh(D))' + 1 <= HowMany(writers, Fresh(D))
             /\ \A i \in 1 .. Len(writers') : \E j \in 1 .. Len(writers) : writers'[i].packet = writers[j].packet
  <2>1. CASE writers' = RemoveAt(writers, m)
    BY <1>0, <2>1, OneRemoved
  <2>2. CASE \E n \in 1 .. Pieces - 1 : writers' = [writers EXCEPT ![m].sent = n]
    <3>1. PICK n \in 1 .. Pieces - 1 : writers' = [writers EXCEPT ![m].sent = n]
      BY <2>2
    <3>2. TAKE D
    <3> DEFINE t == [writers EXCEPT ![m].sent = n]
    <3>3. /\ HowMany(t, Fresh(D)) <= HowMany(writers, Fresh(D))
          /\ writers[m] \in Fresh(D) => HowMany(t, Fresh(D)) + 1 <= HowMany(writers, Fresh(D))
          /\ \A i \in 1 .. Len(t) : \E j \in 1 .. Len(writers) : t[i].packet = writers[j].packet
      BY <1>0, ThreadGoes
    <3> HIDE DEF t
    <3>4. writers' = t
      BY <3>1 DEF t
    <3>5. QED
      BY <3>3, <3>4
  <2>3. QED
    BY <1>1, <2>1, <2>2
<1>3. w.sent \in Nat /\ Len(down) \in Nat /\ Len(down') \in Nat
  BY <1>0, <1>1 DEF Writers
<1> HIDE DEF w
<1>4. ASSUME NEW D PROVE OnTheWay(D)' <= OnTheWay(D)
  <2> DEFINE a == HowMany(writers, Fresh(D))
             b == HowMany(down, First(D))
             c == HowMany(got, First(D))
             a1 == HowMany(writers', Fresh(D))
             b1 == HowMany(down', First(D))
             c1 == HowMany(got', First(D))
  <2>1. a \in Nat /\ b \in Nat /\ c \in Nat /\ a1 \in Nat /\ b1 \in Nat /\ c1 = c
    BY <1>0, CountTypes, CountTypesNext
  <2>2. a1 <= a /\ (w \in Fresh(D) => a1 + 1 <= a)
    BY <1>2
  <2>3. ASSUME NEW j \in Len(down) + 1 .. Len(down'), down'[j] \in First(D)
        PROVE  j = Len(down) + 1 /\ w \in Fresh(D)
    <3>1. w.sent + (j - Len(down)) = 1 /\ w.packet.data \in D
      BY <1>1, <2>3 DEF First
    <3>2. w.sent = 0 /\ j = Len(down) + 1
      BY <1>3, <3>1
    <3>3. QED
      BY <1>1, <3>1, <3>2 DEF Fresh
  <2>4. b1 <= b + 1 /\ (w \notin Fresh(D) => b1 <= b)
    <3>1. b1 <= b + 1
      BY <1>0, <1>1, <2>3, OneMore
    <3>2. w \notin Fresh(D) => b1 <= b
      BY <1>0, <1>1, <2>3, OneMore
    <3>3. QED
      BY <3>1, <3>2
  <2>5. OnTheWay(D) = a + b + c /\ OnTheWay(D)' = a1 + b1 + c1
    BY DEF OnTheWay
  <2> HIDE DEF a, b, c, a1, b1, c1
  <2>6. QED
    BY <2>1, <2>2, <2>4, <2>5
<1>5. ASSUME Numbered PROVE Numbered'
  <2>1. \A p : Held(writers, p)' => Held(writers, p)
    BY <1>2 DEF Held
  <2>2. Held(writers, w.packet)
    BY DEF Held, w
  <2>3. ASSUME NEW p, Brought(down', p) PROVE Brought(down, p) \/ Held(writers, p)
    <3>1. PICK j \in 1 .. Len(down') : down'[j].kind = "piece" /\ down'[j].packet = p
      BY <2>3 DEF Brought
    <3>2. j \in 1 .. Len(down) \/ j \in Len(down) + 1 .. Len(down')
      BY <1>3
    <3>3. QED
      BY <1>1, <2>2, <3>1, <3>2 DEF Brought
  <2>4. QED
    BY <1>0, <1>5, <2>1, <2>3 DEF Numbered, FromFile
<1> QED
  BY <1>4, <1>5

\* A thread writes.
LEMMA EarlyWrite == TypeInv /\ TypeInv' /\ InStep /\ Write => InStep'
<1> SUFFICES ASSUME TypeInv, TypeInv', InStep, NEW m \in 1 .. Len(writers), WritePiece(m)
             PROVE  InStep'
  BY DEF Write
<1>1. TypeOK /\ TypeOK'
  BY DEF TypeInv
<1>2. /\ UNCHANGED <<run, ring, xmodem, blockNr, up, mode, expect, got, stored, hurries>>
  BY DEF WritePiece, boardVars, pastVars
<1>3. (\A D : OnTheWay(D)' <= OnTheWay(D)) /\ Numbered'
  BY <1>1, WriteMoves DEF InStep
<1>4. Replies' = Replies /\ Acks' = Acks /\ Presses' = Presses
  BY <1>2 DEF Replies, Acks, Presses
<1>5. Replies \in Nat /\ Acks \in Nat /\ Presses \in Nat /\ hurries \in Nat /\ expect \in Nat
      /\ (\A D : OnTheWay(D) \in Nat) /\ (\A D : OnTheWay(D)' \in Nat)
  BY <1>1, CountTypes, CountTypesNext
<1>6. xmodem /\ mode \notin {"boot", "wait"}
  <2>1. Len(writers) # 0
    OBVIOUS
  <2>2. ~Idle
    BY <2>1 DEF Idle
  <2>3. QED
    BY <1>1, <2>2 DEF InStep, TypeOK
<1>7. Bounded'
  <2>1. Bounded /\ hurries' = hurries + 0 /\ 0 \in {0, 1} /\ expect' >= expect
    BY <1>2, <1>5 DEF InStep
  <2>2. Replies' + OnTheWay(Nat)' <= Replies + OnTheWay(Nat) + 0
    <3>1. OnTheWay(Nat)' <= OnTheWay(Nat) /\ OnTheWay(Nat)' \in Nat /\ OnTheWay(Nat) \in Nat
      BY <1>3, <1>5
    <3>2. QED
      BY <1>4, <1>5, <3>1
  <2>3. ASSUME NEW x \in expect' .. blockNr
        PROVE  Acks' + OnTheWay(0 .. x - 1)' <= Acks + OnTheWay(0 .. x - 1) + 0
    <3> DEFINE D == 0 .. x - 1
    <3> HIDE DEF D
    <3>1. OnTheWay(D)' <= OnTheWay(D) /\ OnTheWay(D)' \in Nat /\ OnTheWay(D) \in Nat
      BY <1>3, <1>5
    <3>2. Acks' + OnTheWay(D)' <= Acks + OnTheWay(D) + 0
      BY <1>4, <1>5, <3>1
    <3>3. QED
      BY <3>2 DEF D
  <2>4. QED
    BY <1>1, <1>2, <2>1, <2>2, <2>3, BoundedKept
<1>8. Opened' /\ Presses' <= Presses
  BY <1>2, <1>4, <1>5 DEF InStep, Opened
<1> QED
  BY <1>1, <1>2, <1>3, <1>6, <1>7, <1>8, CalmStep

\* A sequence that lost its first element, or has x in its place.
Damaged(t, s, x) == /\ \A G : x \notin G => HowMany(t, G) <= HowMany(s, G)
                    /\ \A i \in 1 .. Len(t) : t[i] # x => \E j \in 1 .. Len(s) : t[i] = s[j]

\* What the line loses or garbles.
LEMMA Eaten ==
  ASSUME NEW S, NEW s \in Seq(S), s # <<>>, NEW x \in S
  PROVE  /\ Damaged(Tail(s), s, x)
         /\ \A c \in Seq(S) : Len(c) = 1 /\ c[1] = x => Damaged(c \o Tail(s), s, x)
<1>1. Damaged(Tail(s), s, x)
  <2>1. \A G : HowMany(Tail(s), G) <= HowMany(s, G)
    BY OneLess
  <2>2. \A i \in 1 .. Len(Tail(s)) : \E j \in 1 .. Len(s) : Tail(s)[i] = s[j]
    BY Shifted
  <2>3. QED
    BY <2>1, <2>2 DEF Damaged
<1>2. ASSUME NEW c \in Seq(S), Len(c) = 1, c[1] = x PROVE Damaged(c \o Tail(s), s, x)
  <2> DEFINE t == c \o Tail(s)
  <2>1. /\ t \in Seq(S) /\ Len(t) = Len(s)
        /\ \A i \in 1 .. Len(t) : t[i] = x \/ (i \in 1 .. Len(s) /\ t[i] = s[i])
    BY <1>2, Garbled
  <2> HIDE DEF t
  <2>2. ASSUME NEW G, x \notin G PROVE HowMany(t, G) <= HowMany(s, G)
    <3>1. \A i \in 1 .. Len(t) : t[i] \in G => s[i] \in G
      BY <2>1, <2>2
    <3>2. Len(t) <= Len(s)
      BY <2>1
    <3>3. QED
      BY <2>1, <3>1, <3>2, FewerOrAsMany
  <2>3. \A i \in 1 .. Len(t) : t[i] # x => \E j \in 1 .. Len(s) : t[i] = s[j]
    BY <2>1
  <2>4. Damaged(t, s, x)
    BY <2>2, <2>3 DEF Damaged
  <2>5. QED
    BY <2>4 DEF t
<1> QED
  BY <1>1, <1>2

\* The same as the line does it.
LEMMA EatenLine ==
  ASSUME NEW S, NEW s \in Seq(S), s # <<>>, NEW x \in S, NEW c \in {<<>>, <<x>>}
  PROVE  Damaged(c \o Tail(s), s, x)
<1>1. CASE c = <<>>
  <2>1. Tail(s) \in Seq(S)
    BY Shifted
  <2>2. c \o Tail(s) = Tail(s)
    BY <1>1, <2>1, ConcatEmptySeq
  <2>3. QED
    BY <2>2, Eaten
<1>2. CASE c = <<x>>
  <2>1. c \in Seq(S) /\ Len(c) = 1 /\ c[1] = x
    BY <1>2
  <2>2. QED
    BY <2>1, Eaten
<1> QED
  BY <1>1, <1>2

\* Only the line to the tool changes, and not for the worse.
LEMMA AnswerLost ==
  ASSUME TypeInv, TypeInv', InStep,
         UNCHANGED <<xmodem, blockNr, expect, stored, ring, writers, down, got, mode, hurries>>,
         Replies' <= Replies, Acks' <= Acks, Presses' <= Presses, Answered' => Answered
  PROVE  InStep'
<1>1. TypeOK /\ TypeOK'
  BY DEF TypeInv
<1>2. (\A D : OnTheWay(D)' = OnTheWay(D)) /\ Numbered' /\ Opened'
  BY DEF OnTheWay, InStep, Numbered, FromFile, Opened
<1>3. Replies \in Nat /\ Acks \in Nat /\ Replies' \in Nat /\ Acks' \in Nat /\ hurries \in Nat /\ expect \in Nat
      /\ (\A D : OnTheWay(D) \in Nat)
  BY <1>1, CountTypes, CountTypesNext
<1>4. Bounded'
  <2>1. Bounded /\ hurries' = hurries + 0 /\ 0 \in {0, 1} /\ expect' >= expect
    BY <1>3 DEF InStep
  <2>2. Replies' + OnTheWay(Nat)' <= Replies + OnTheWay(Nat) + 0
    <3>1. OnTheWay(Nat)' = OnTheWay(Nat) /\ OnTheWay(Nat) \in Nat
      BY <1>2, <1>3
    <3>2. QED
      BY <1>3, <3>1
  <2>3. ASSUME NEW x \in expect' .. blockNr
        PROVE  Acks' + OnTheWay(0 .. x - 1)' <= Acks + OnTheWay(0 .. x - 1) + 0
    <3> DEFINE D == 0 .. x - 1
    <3> HIDE DEF D
    <3>1. OnTheWay(D)' = OnTheWay(D) /\ OnTheWay(D) \in Nat
      BY <1>2, <1>3
    <3>2. Acks' + OnTheWay(D)' <= Acks + OnTheWay(D) + 0
      BY <1>3, <3>1
    <3>3. QED
      BY <3>2 DEF D
  <2>4. QED
    BY <1>1, <2>1, <2>2, <2>3, BoundedKept
<1>5. Idle => Idle'
  BY LineStays DEF Idle
<1> QED
  BY <1>1, <1>2, <1>4, <1>5, CalmStep

\* The line loses or garbles a byte.
LEMMA EarlyDisturb == TypeInv /\ TypeInv' /\ InStep /\ Disturb => InStep'
<1> SUFFICES ASSUME TypeInv, TypeInv', InStep, Disturb PROVE InStep'
  OBVIOUS
<1>1. UNCHANGED <<xmodem, blockNr, expect, stored, ring, writers, got, mode, hurries>>
  BY DEF Disturb, hostVars, boardVars
<1>2. down \in Seq(Lines) /\ up \in Seq(Text) /\ TypeOK
  BY CountTypes DEF TypeInv
<1>3. CASE down # <<>> /\ up' = up /\ \E c \in {<<>>, <<Byte("junk")>>} : down' = c \o Tail(down)
  <2> DEFINE x == Byte("junk")
  <2>1. PICK c \in {<<>>, <<x>>} : down' = c \o Tail(down)
    BY <1>3
  <2>2. x \in Lines /\ x.kind # "piece"
    BY DEF Byte, Lines, Signals
  <2> HIDE DEF x
  <2>3. /\ \A G : x \notin G => HowMany(down', G) <= HowMany(down, G)
        /\ \A i \in 1 .. Len(down') : down'[i] # x => \E j \in 1 .. Len(down) : down'[i] = down[j]
    <3>1. down \in Seq(Lines) /\ down # <<>> /\ x \in Lines
      BY <1>2, <1>3, <2>2
    <3>2. down' = c \o Tail(down)
      BY <2>1
    <3>3. Damaged(c \o Tail(down), down, x)
      BY <3>1, EatenLine
    <3>4. Damaged(down', down, x)
      BY <3>2, <3>3
    <3>5. QED
      BY <3>4 DEF Damaged
  <2>4. \A D : x \notin First(D)
    BY <2>2 DEF First, Piece
  <2>5. \A p : Brought(down', p) => Brought(down, p)
    BY <2>2, <2>3 DEF Brought
  <2>6. NoMore(down', down)
    BY <2>3, <2>4, <2>5 DEF NoMore
  <2>7. QED
    BY <1>1, <1>3, <2>6, QuietStep
<1>4. CASE up # <<>> /\ down' = down /\ \E c \in {<<>>, <<"text">>} : up' = c \o Tail(up)
  <2>1. PICK c \in {<<>>, <<"text">>} : up' = c \o Tail(up)
    BY <1>4
  <2>2. "text" \in Text
    BY DEF Text
  <2>3. /\ \A G : "text" \notin G => HowMany(up', G) <= HowMany(up, G)
        /\ \A i \in 1 .. Len(up') : up'[i] # "text" => \E j \in 1 .. Len(up) : up'[i] = up[j]
    <3>1. up \in Seq(Text) /\ up # <<>> /\ "text" \in Text
      BY <1>2, <1>4, <2>2
    <3>2. up' = c \o Tail(up)
      BY <2>1
    <3>3. Damaged(c \o Tail(up), up, "text")
      BY <3>1, EatenLine
    <3>4. Damaged(up', up, "text")
      BY <3>2, <3>3
    <3>5. QED
      BY <3>4 DEF Damaged
  <2>4. "text" \notin Answers /\ "text" \notin {"ACK"} /\ "text" \notin {"press"}
    BY DEF Answers
  <2>5. Replies' <= Replies /\ Acks' <= Acks /\ Presses' <= Presses
    BY <2>3, <2>4 DEF Replies, Acks, Presses
  <2>6. Answered' => Answered
    BY <2>3, <2>4 DEF Answered, HasUp
  <2>7. QED
    BY <1>1, <1>4, <2>5, <2>6, AnswerLost
<1>5. QED
  BY <1>3, <1>4 DEF Disturb

\* The board says that it boots.
LEMMA EarlyBoot == TypeInv /\ TypeInv' /\ InStep /\ Boot => InStep'
<1> SUFFICES ASSUME TypeInv, TypeInv', InStep, Boot PROVE InStep'
  OBVIOUS
<1>1. /\ mode = "boot" /\ mode' = "wait"
      /\ UNCHANGED <<xmodem, blockNr, expect, stored, ring, writers, got, down>>
  BY DEF Boot, hostVars
<1>2. PICK log \in {<<>>, <<"text">>} : up' = up \o log \o Prompt
  BY DEF Boot
<1>3. up \in Seq(Text) /\ log \in Seq({"text"}) /\ Presses \in Nat
  BY LogText, CountTypes DEF TypeInv
<1>4. ~xmodem /\ Idle /\ Presses = 0 /\ ~PressInRing /\ Numbered /\ StoredSoFar /\ Opened
  BY <1>1 DEF InStep, PressOnce
<1>5. ~Answered'
  <2>1. \A i \in 1 .. Len(up') : up'[i] \in Answers => i \in 1 .. Len(up) /\ up'[i] = up[i]
    BY <1>2, <1>3, BootText
  <2>2. QED
    BY <1>4, <2>1 DEF Idle, Answered, HasUp
<1>6. Presses' <= 1
  <2> DEFINE t == up \o log
  <2>1. /\ t \in Seq(Text) /\ Len(t) = Len(up) + Len(log) /\ Len(up) \in Nat /\ Len(log) \in Nat
        /\ \A i \in 1 .. Len(up) + Len(log) : t[i] = IF i <= Len(up) THEN up[i] ELSE log[i - Len(up)]
    <3>1. log \in Seq(Text)
      BY <1>3 DEF Text
    <3>2. Len(up) \in Nat /\ Len(log) \in Nat
      BY <1>3
    <3>3. QED
      BY <1>3, <3>1, <3>2, ConcatProperties
  <2> HIDE DEF t
  <2>2. /\ up' \in Seq(Text) /\ Len(up') = Len(t) + 2 /\ Len(t) \in Nat
        /\ \A i \in 1 .. Len(t) + 2 : up'[i] = IF i <= Len(t) THEN t[i] ELSE Prompt[i - Len(t)]
    <3>1. Len(Prompt) = 2 /\ Prompt \in Seq(Text)
      BY PromptIs DEF Prompt
    <3>2. up' = t \o Prompt
      BY <1>2 DEF t
    <3>3. Len(t) \in Nat
      BY <2>1
    <3>4. /\ t \o Prompt \in Seq(Text) /\ Len(t \o Prompt) = Len(t) + Len(Prompt)
          /\ \A i \in 1 .. Len(t) + Len(Prompt) :
               (t \o Prompt)[i] = IF i <= Len(t) THEN t[i] ELSE Prompt[i - Len(t)]
      <4>1. t \in Seq(Text) /\ Prompt \in Seq(Text)
        BY <2>1, <3>1
      <4>2. QED
        BY <4>1, ConcatProperties
    <3>5. QED
      BY <3>1, <3>2, <3>3, <3>4
  <2>3. HowMany(t, {"press"}) <= HowMany(up, {"press"})
    <3>1. Len(up) <= Len(t) /\ \A i \in 1 .. Len(up) : t[i] = up[i]
      BY <2>1
    <3>2. \A i \in Len(up) + 1 .. Len(t) : t[i] \notin {"press"}
      <4> TAKE i \in Len(up) + 1 .. Len(t)
      <4>1. i - Len(up) \in 1 .. Len(log) /\ t[i] = log[i - Len(up)]
        BY <2>1
      <4>2. log[i - Len(up)] = "text"
        BY <1>3, <4>1
      <4>3. QED
        BY <4>1, <4>2
    <3>3. QED
      BY <1>3, <2>1, <3>1, <3>2, OneMore
  <2>4. HowMany(up', {"press"}) <= HowMany(t, {"press"}) + 1
    <3>1. Len(t) <= Len(up') /\ \A i \in 1 .. Len(t) : up'[i] = t[i]
      BY <2>2
    <3>2. ASSUME NEW i \in Len(t) + 1 .. Len(up'), up'[i] \in {"press"} PROVE i = Len(t) + 1
      <4> SUFFICES ASSUME i # Len(t) + 1 PROVE FALSE
        OBVIOUS
      <4>1. i = Len(t) + 2 /\ i - Len(t) = 2 /\ ~(i <= Len(t)) /\ i \in 1 .. Len(t) + 2
        BY <2>2, <3>2
      <4>2. up'[i] = Prompt[2]
        BY <2>2, <4>1
      <4>3. Prompt[2] = "stop"
        BY DEF Prompt
      <4>4. QED
        BY <3>2, <4>2, <4>3
    <3>3. QED
      BY <2>1, <2>2, <3>1, <3>2, OneMore
  <2>5. HowMany(t, {"press"}) \in Nat /\ HowMany(up', {"press"}) \in Nat
    BY <2>1, <2>2, HowManyType
  <2>6. HowMany(up, {"press"}) = 0
    BY <1>4 DEF Presses
  <2>7. QED
    BY <2>3, <2>4, <2>5, <2>6 DEF Presses
<1>7. Numbered' /\ StoredSoFar' /\ Opened' /\ Bounded'
  BY <1>1, <1>4 DEF Numbered, FromFile, StoredSoFar, Opened, Bounded
<1>8. Idle'
  BY <1>1, <1>4, <1>5, LineStays DEF Idle
<1>9. PressOnce'
  BY <1>1, <1>4, <1>6 DEF PressOnce, PressInRing
<1> QED
  BY <1>1, <1>4, <1>7, <1>8, <1>9 DEF InStep

\* What the board takes from its line, and what it answers.
LEMMA BoardCounts ==
  ASSUME TypeOK, down # <<>> => down' = Tail(down), down = <<>> => down' = down
  PROVE  NoMore(down', down)
<1>1. down \in Seq(Lines)
  BY CountTypes
<1>2. QED
  BY <1>1, NoMoreOn

\* An answer counts as one, and is no prompt.
LEMMA AnswerCounts ==
  ASSUME TypeOK, TypeOK', NEW x \in Answers, up' = Append(up, x)
  PROVE  /\ Replies' <= Replies + 1 /\ Presses' <= Presses
         /\ Acks' <= Acks + 1 /\ (x = "NAK" => Acks' <= Acks)
<1>1. up \in Seq(Text) /\ x \in Text /\ x \notin {"press"} /\ (x = "NAK" => x \notin {"ACK"})
  BY CountTypes DEF Text, Answers
<1>2. \A G : /\ HowMany(Append(up, x), G) <= HowMany(up, G) + 1
             /\ x \notin G => HowMany(Append(up, x), G) <= HowMany(up, G)
  BY <1>1, OneAppended
<1>3. QED
  BY <1>1, <1>2 DEF Replies, Presses, Acks

\* Before the transfer there is nothing to count.
LEMMA IdleCounts ==
  ASSUME TypeOK
  PROVE  /\ ~Answered => Replies = 0 /\ Acks = 0
         /\ \A D : writers = <<>> /\ got = <<>> /\ ~InDown({"piece"}) => OnTheWay(D) = 0
<1>1. writers \in Seq(Writers) /\ down \in Seq(Lines) /\ got \in Seq(Lines) /\ up \in Seq(Text)
  BY CountTypes
<1>2. ASSUME ~Answered PROVE Replies = 0 /\ Acks = 0
  <2>1. \A i \in 1 .. Len(up) : up[i] \notin Answers /\ up[i] \notin {"ACK"}
    BY <1>2 DEF Answered, HasUp, Answers
  <2>2. HowMany(up, Answers) = 0
    BY <1>1, <2>1, HowManyType
  <2>3. HowMany(up, {"ACK"}) = 0
    BY <1>1, <2>1, HowManyType
  <2>4. QED
    BY <2>2, <2>3 DEF Replies, Acks
<1>3. ASSUME NEW D, writers = <<>>, got = <<>>, ~InDown({"piece"}) PROVE OnTheWay(D) = 0
  <2>1. \A i \in 1 .. Len(down) : down[i] \notin First(D)
    BY <1>3 DEF InDown, First, Piece
  <2>2. HowMany(down, First(D)) = 0
    BY <1>1, <2>1, HowManyType
  <2>3. HowMany(writers, Fresh(D)) = 0 /\ HowMany(got, First(D)) = 0
    BY <1>3, NoneInEmpty
  <2>4. QED
    BY <2>2, <2>3 DEF OnTheWay
<1> QED
  BY <1>2, <1>3

\* The board takes the end for the end.
LEMMA EarlyEnd == TypeInv /\ TypeInv' /\ InStep /\ SkipByte /\ mode' = "done" => InStep'
<1> SUFFICES ASSUME TypeInv, TypeInv', InStep, SkipByte, mode' = "done" PROVE InStep'
  OBVIOUS
<1>1. TypeOK /\ TypeOK'
  BY DEF TypeInv
<1>2. /\ UNCHANGED <<xmodem, blockNr, expect, stored, ring, writers, got>>
      /\ mode = "recv" /\ down # <<>> /\ down' = Tail(down) /\ up' = Append(up, "ACK")
  BY DEF SkipByte, hostVars
<1>3. xmodem
  BY <1>2 DEF TypeInv, Unprompted
<1>4. NoMore(down', down) /\ NoMore(got', got)
  <2>1. got \in Seq(Lines)
    BY <1>1, CountTypes
  <2>2. QED
    BY <1>1, <1>2, <2>1, BoardCounts, NoMoreOn
<1>5. Numbered'
  BY <1>1, <1>2, <1>4, NothingNew DEF InStep
<1>6. Presses' <= Presses
  BY <1>1, <1>2, AnswerCounts DEF Answers
<1>7. Bounded' /\ Opened'
  BY <1>2 DEF Bounded, InStep, Opened
<1> QED
  BY <1>1, <1>2, <1>3, <1>5, <1>6, <1>7, CalmStep

\* The board takes the X and asks for the first block.
LEMMA EarlyStart == TypeInv /\ TypeInv' /\ InStep /\ StopAutoboot /\ mode' = "recv" => InStep'
<1> SUFFICES ASSUME TypeInv, TypeInv', InStep, StopAutoboot, mode' = "recv" PROVE InStep'
  OBVIOUS
<1>1. TypeOK /\ TypeOK'
  BY DEF TypeInv
<1>2. /\ UNCHANGED <<xmodem, blockNr, expect, stored, ring, writers, got, hurries>>
      /\ mode = "wait" /\ down # <<>> /\ down' = Tail(down) /\ up' = Append(up, "NAK")
      /\ Head(down).kind = "X"
  BY DEF StopAutoboot, hostVars, pastVars
<1>3. xmodem
  <2>1. down \in Seq(Lines)
    BY <1>1, CountTypes
  <2>2. Head(down) = down[1] /\ 1 \in 1 .. Len(down)
    BY <1>2, <2>1, Shifted
  <2>3. InDown({"X"})
    BY <1>2, <2>2 DEF InDown
  <2>4. QED
    BY <2>3 DEF TypeInv, Unprompted
<1>4. /\ Idle /\ blockNr = 1 /\ ~PressInRing /\ Presses = 0
      /\ Numbered /\ StoredSoFar /\ Opened
  BY <1>2, <1>3 DEF InStep, PressOnce
<1>5. NoMore(down', down) /\ NoMore(got', got)
  <2>1. got \in Seq(Lines)
    BY <1>1, CountTypes
  <2>2. QED
    BY <1>1, <1>2, <2>1, BoardCounts, NoMoreOn
<1>6. (\A D : OnTheWay(D)' <= OnTheWay(D)) /\ Numbered'
  BY <1>1, <1>2, <1>4, <1>5, NothingNew
<1>7. Replies = 0 /\ Acks = 0 /\ \A D : OnTheWay(D) = 0
  BY <1>1, <1>4, IdleCounts DEF Idle
<1>8. Replies' <= Replies + 1 /\ Presses' <= Presses /\ Acks' <= Acks
  BY <1>1, <1>2, AnswerCounts DEF Answers
<1>9. /\ Presses' \in Nat /\ Replies' \in Nat /\ Acks' \in Nat /\ hurries \in Nat
      /\ \A D : OnTheWay(D)' \in Nat
  BY <1>1, CountTypes, CountTypesNext
<1>10. \A D : OnTheWay(D)' = 0
  BY <1>6, <1>7, <1>9
<1>11. Acks' = 0 /\ Replies' <= 1 /\ Presses' = 0
  BY <1>4, <1>7, <1>8, <1>9
<1>12. Bounded'
  <2>1. Replies' + OnTheWay(Nat)' <= 1 + hurries'
    BY <1>2, <1>9, <1>10, <1>11
  <2>2. ASSUME NEW x \in expect' .. blockNr'
        PROVE  blockNr' + Acks' + OnTheWay(0 .. x - 1)' <= x + hurries'
    <3>1. x = 1 /\ blockNr' = 1
      BY <1>2, <1>4, <2>2 DEF Idle
    <3>2. OnTheWay(0 .. x - 1)' = 0
      BY <1>10
    <3>3. QED
      BY <1>2, <1>9, <1>11, <3>1, <3>2
  <2>3. QED
    BY <2>1, <2>2 DEF Bounded
<1>13. StoredSoFar' /\ Opened' /\ PressOnce'
  BY <1>2, <1>4, <1>11 DEF StoredSoFar, Opened, PressOnce, PressInRing
<1> QED
  BY <1>2, <1>3, <1>4, <1>6, <1>12, <1>13 DEF InStep

\* The board asks again.
LEMMA EarlyTimeOut == TypeInv /\ TypeInv' /\ InStep /\ TimeOut => InStep'
<1> SUFFICES ASSUME TypeInv, TypeInv', InStep, TimeOut PROVE InStep'
  OBVIOUS
<1>1. TypeOK /\ TypeOK'
  BY DEF TypeInv
<1>2. /\ UNCHANGED <<xmodem, blockNr, expect, stored, ring, writers, down, mode>>
      /\ mode = "recv" /\ down = <<>> /\ got' = <<>> /\ up' = Append(up, "NAK")
  BY DEF TimeOut, hostVars
<1>3. xmodem
  BY <1>2 DEF TypeInv, Unprompted
<1>4. NoMore(down', down) /\ NoMore(got', got)
  <2>1. got \in Seq(Lines)
    BY <1>1, CountTypes
  <2>2. QED
    BY <1>1, <1>2, <2>1, BoardCounts, NoMoreOn
<1>5. (\A D : OnTheWay(D)' <= OnTheWay(D)) /\ Numbered'
  BY <1>1, <1>2, <1>4, NothingNew DEF InStep
<1>6. Replies' <= Replies + 1 /\ Presses' <= Presses /\ Acks' <= Acks
  BY <1>1, <1>2, AnswerCounts DEF Answers
<1>7. /\ Replies \in Nat /\ Acks \in Nat /\ Replies' \in Nat /\ Acks' \in Nat
      /\ hurries \in Nat /\ blockNr \in Nat /\ expect \in Nat
      /\ (\A D : OnTheWay(D) \in Nat) /\ (\A D : OnTheWay(D)' \in Nat)
  BY <1>1, CountTypes, CountTypesNext
<1>8. Bounded'
  <2>1. CASE UnderWay
    <3>1. Bounded /\ hurries' = hurries + 1 /\ 1 \in {0, 1} /\ expect' >= expect
      BY <1>7, <2>1 DEF InStep, TimeOut, HurryIf
    <3>2. Replies' + OnTheWay(Nat)' <= Replies + OnTheWay(Nat) + 1
      <4>1. OnTheWay(Nat)' <= OnTheWay(Nat) /\ OnTheWay(Nat)' \in Nat /\ OnTheWay(Nat) \in Nat
        BY <1>5, <1>7
      <4>2. QED
        BY <1>6, <1>7, <4>1
    <3>3. ASSUME NEW x \in expect' .. blockNr
          PROVE  Acks' + OnTheWay(0 .. x - 1)' <= Acks + OnTheWay(0 .. x - 1) + 1
      <4> DEFINE D == 0 .. x - 1
      <4> HIDE DEF D
      <4>1. OnTheWay(D)' <= OnTheWay(D) /\ OnTheWay(D)' \in Nat /\ OnTheWay(D) \in Nat
        BY <1>5, <1>7
      <4>2. Acks' + OnTheWay(D)' <= Acks + OnTheWay(D) + 1
        BY <1>6, <1>7, <4>1
      <4>3. QED
        BY <4>2 DEF D
    <3>4. QED
      BY <1>1, <1>2, <3>1, <3>2, <3>3, BoundedKept
  <2>2. CASE ~UnderWay
    <3>1. hurries' = hurries /\ writers = <<>>
      BY <2>2 DEF TimeOut, HurryIf, UnderWay
    <3>2. ~Answered
      <4>1. \A i \in 1 .. Len(up) : up[i] # "NAK" /\ up[i] # "ACK"
        BY <2>2 DEF UnderWay, Contains
      <4>2. QED
        BY <4>1 DEF Answered, HasUp, Answers
    <3>3. Replies = 0 /\ Acks = 0
      BY <1>1, <3>2, IdleCounts
    <3>4. \A D : OnTheWay(D)' = 0
      <4>1. writers' = <<>> /\ down' = <<>> /\ got' = <<>>
        BY <1>2, <3>1
      <4>2. QED
        BY <4>1, NoneInEmpty DEF OnTheWay
    <3>5. Replies' <= 1 /\ Acks' = 0
      BY <1>6, <1>7, <3>3
    <3>6. Replies' + OnTheWay(Nat)' <= 1 + hurries'
      BY <1>7, <3>1, <3>4, <3>5
    <3>7. ASSUME NEW x \in expect' .. blockNr'
          PROVE  blockNr' + Acks' + OnTheWay(0 .. x - 1)' <= x + hurries'
      <4>1. x \in expect .. blockNr /\ x \in Int /\ blockNr' = blockNr
        BY <1>2, <1>7
      <4>2. blockNr + Acks + OnTheWay(0 .. x - 1) <= x + hurries
        BY <1>2, <4>1 DEF InStep, Bounded
      <4>3. OnTheWay(0 .. x - 1) \in Nat /\ OnTheWay(0 .. x - 1)' = 0
        BY <1>7, <3>4
      <4> DEFINE a == OnTheWay(0 .. x - 1)
                 b == OnTheWay(0 .. x - 1)'
      <4> HIDE DEF a, b
      <4>4. a \in Nat /\ b = 0 /\ blockNr + Acks + a <= x + hurries
        BY <4>2, <4>3 DEF a, b
      <4>5. blockNr' + Acks' + b <= x + hurries'
        BY <1>7, <3>1, <3>3, <3>5, <4>1, <4>4
      <4>6. QED
        BY <4>5 DEF b
    <3>8. QED
      BY <3>6, <3>7 DEF Bounded
  <2>3. QED
    BY <2>1, <2>2
<1>9. Opened'
  BY <1>2 DEF Opened
<1> QED
  BY <1>1, <1>2, <1>3, <1>5, <1>6, <1>8, <1>9, CalmStep

\* Two blocks with one number are a multiple of Wrap apart.
LEMMA Apart ==
  ASSUME NEW d \in Nat, NEW n \in Nat, d % Wrap = n % Wrap
  PROVE  \E k \in Int : n - d = Wrap * k
<1>1. Wrap \in Nat \ {0}
  BY XmodemAssumption
<1>2. d \div Wrap \in Nat /\ d % Wrap \in Nat /\ d = Wrap * (d \div Wrap) + (d % Wrap)
  <2>1. d \div Wrap \in Nat /\ d % Wrap \in Nat
    BY <1>1
  <2>2. d = Wrap * (d \div Wrap) + (d % Wrap)
    BY <1>1, Division
  <2>3. QED
    BY <2>1, <2>2
<1>3. n \div Wrap \in Nat /\ n % Wrap \in Nat /\ n = Wrap * (n \div Wrap) + (n % Wrap)
  <2>1. n \div Wrap \in Nat /\ n % Wrap \in Nat
    BY <1>1
  <2>2. n = Wrap * (n \div Wrap) + (n % Wrap)
    BY <1>1, Division
  <2>3. QED
    BY <2>1, <2>2
<1> DEFINE a == d \div Wrap
           b == n \div Wrap
           r == d % Wrap
<1>4. a \in Nat /\ b \in Nat /\ r \in Nat /\ d = Wrap * a + r /\ n = Wrap * b + r
  BY <1>2, <1>3
<1> HIDE DEF a, b, r
<1>5. b - a \in Int /\ n - d = Wrap * (b - a)
  BY <1>1, <1>4
<1> QED
  BY <1>5

\* Of less than Wrap blocks only one has the number, and only one has it a round before.
LEMMA SameNumber ==
  ASSUME NEW d \in Nat, NEW n \in Nat, d % Wrap = n % Wrap
  PROVE  /\ d < n + Wrap /\ n < d + Wrap => d = n
         /\ d < n /\ n < d + Wrap + Wrap => n = d + Wrap
<1>1. PICK k \in Int : n - d = Wrap * k
  BY Apart
<1>2. Wrap \in Nat /\ Wrap >= 2
  BY XmodemAssumption
<1> DEFINE t == Wrap * k
<1>3. /\ k >= 1 => t >= Wrap
      /\ k >= 2 => t >= Wrap + Wrap
      /\ k <= -1 => t <= -Wrap
      /\ k = 0 => t = 0
      /\ k = 1 => t = Wrap
      /\ t \in Int
  BY <1>2
<1>4. n - d = t
  BY <1>1
<1> HIDE DEF t
<1>5. k <= -1 \/ k = 0 \/ k = 1 \/ k >= 2
  OBVIOUS
<1> QED
  BY <1>2, <1>3, <1>4, <1>5

\* The byte that the board takes goes from the line to the packet.
LEMMA ByteMoves ==
  ASSUME TypeOK, Numbered, Opened, down # <<>>,
         got # <<>> \/ (Head(down).kind = "piece" /\ Head(down).k = 1),
         NEW b, b = Append(got, Head(down))
  PROVE  /\ b \in Seq(Lines) /\ b[1] \in Piece /\ b[1].k = 1
         /\ \E n \in 1 .. blockNr : b[1].packet = Packet(n)
         /\ \A D : /\ HowMany(b, First(D)) + HowMany(Tail(down), First(D))
                        <= HowMany(got, First(D)) + HowMany(down, First(D))
                   /\ b[1].packet.data \in D => HowMany(b, First(D)) >= 1
         /\ \A p : Brought(b, p) => Brought(got, p) \/ Brought(down, p)
<1>1. got \in Seq(Lines) /\ down \in Seq(Lines)
  BY CountTypes
<1> DEFINE x == Head(down)
<1>2. x \in Lines /\ x = down[1] /\ 1 \in 1 .. Len(down)
  BY <1>1, Shifted
<1> HIDE DEF x
<1>3. /\ b \in Seq(Lines) /\ Len(b) = Len(got) + 1 /\ Len(got) \in Nat
      /\ \A i \in 1 .. Len(got) : b[i] = got[i]
      /\ b[Len(got) + 1] = x
      /\ \A i \in 1 .. Len(b) : i \in 1 .. Len(got) \/ i = Len(got) + 1
  <2>1. b = Append(got, x)
    BY DEF x
  <2>2. QED
    BY <1>1, <1>2, <2>1, Appended
<1>4. b[1].kind = "piece" /\ b[1].k = 1 /\ 1 \in 1 .. Len(b)
  <2>1. CASE got = <<>>
    <3>1. Len(got) = 0
      BY <2>1
    <3>2. QED
      BY <1>3, <2>1, <3>1 DEF x
  <2>2. CASE got # <<>>
    <3>1. 1 \in 1 .. Len(got)
      BY <1>1, <2>2
    <3>2. QED
      BY <1>3, <2>2, <3>1 DEF Opened
  <2>3. QED
    BY <2>1, <2>2
<1>5. b[1] \in Piece
  <2>1. b[1] \in Lines
    BY <1>3, <1>4
  <2>2. QED
    BY <1>4, <2>1 DEF Lines, Signals
<1>6. ASSUME NEW p, Brought(b, p) PROVE Brought(got, p) \/ Brought(down, p)
  BY <1>2, <1>3, <1>6 DEF Brought
<1>7. \E n \in 1 .. blockNr : b[1].packet = Packet(n)
  <2>1. Brought(b, b[1].packet)
    BY <1>4 DEF Brought
  <2>2. FromFile(b[1].packet)
    BY <1>6, <2>1 DEF Numbered
  <2>3. QED
    BY <2>2 DEF FromFile
<1>8. ASSUME NEW D
      PROVE  HowMany(b, First(D)) + HowMany(Tail(down), First(D))
               <= HowMany(got, First(D)) + HowMany(down, First(D))
  <2>1. /\ HowMany(b, First(D)) <= HowMany(got, First(D)) + 1
        /\ x \notin First(D) => HowMany(b, First(D)) <= HowMany(got, First(D))
    <3>1. b = Append(got, x)
      BY DEF x
    <3>2. QED
      BY <1>1, <1>2, <3>1, OneAppended
  <2>2. /\ HowMany(Tail(down), First(D)) <= HowMany(down, First(D))
        /\ x \in First(D) => HowMany(Tail(down), First(D)) + 1 <= HowMany(down, First(D))
    BY <1>1, OneLess DEF x
  <2>3. HowMany(b, First(D)) \in Nat /\ HowMany(got, First(D)) \in Nat /\ HowMany(down, First(D)) \in Nat
    BY <1>1, <1>3, HowManyType
  <2>4. HowMany(Tail(down), First(D)) \in Nat
    <3>1. Tail(down) \in Seq(Lines)
      BY <1>1, Shifted
    <3>2. QED
      BY <3>1, HowManyType
  <2>5. QED
    BY <2>1, <2>2, <2>3, <2>4
<1>9. ASSUME NEW D, b[1].packet.data \in D PROVE HowMany(b, First(D)) >= 1
  <2>1. b[1] \in First(D)
    BY <1>4, <1>5, <1>9 DEF First
  <2>2. QED
    BY <1>3, <1>4, <2>1, HowManyType
<1> QED
  BY <1>3, <1>4, <1>5, <1>6, <1>7, <1>8, <1>9

\* A sum from which one is taken.
LEMMA Taken ==
  ASSUME NEW a \in Nat, NEW b \in Nat, NEW c \in Nat, NEW d \in Nat, NEW e \in Nat, NEW f \in Nat,
         e + f <= c + b, d <= f
  PROVE  a + d + 0 <= a + b + c /\ (e >= 1 => a + d + 0 + 1 <= a + b + c)
  OBVIOUS

\* A whole packet is taken, or what is left is dropped with it.
LEMMA PacketTaken ==
  ASSUME TypeOK, TypeOK', Numbered, Opened, down # <<>>,
         got # <<>> \/ (Head(down).kind = "piece" /\ Head(down).k = 1),
         NEW b, b = Append(got, Head(down)),
         UNCHANGED <<writers, blockNr>>, got' = <<>>, down' = Tail(down) \/ down' = <<>>
  PROVE  /\ \A D : /\ OnTheWay(D)' <= OnTheWay(D)
                   /\ b[1].packet.data \in D => OnTheWay(D)' + 1 <= OnTheWay(D)
         /\ Numbered'
<1>1. /\ \A D : /\ HowMany(b, First(D)) + HowMany(Tail(down), First(D))
                     <= HowMany(got, First(D)) + HowMany(down, First(D))
                /\ b[1].packet.data \in D => HowMany(b, First(D)) >= 1
      /\ b \in Seq(Lines)
  BY ByteMoves
<1>2. got \in Seq(Lines) /\ down \in Seq(Lines) /\ Tail(down) \in Seq(Lines)
  <2>1. got \in Seq(Lines) /\ down \in Seq(Lines)
    BY CountTypes
  <2>2. QED
    BY <2>1, Shifted
<1>3. NoMore(down', down) /\ NoMore(got', got)
  BY <1>2, NoMoreOn
<1>4. ASSUME NEW D
      PROVE  /\ OnTheWay(D)' <= OnTheWay(D)
             /\ b[1].packet.data \in D => OnTheWay(D)' + 1 <= OnTheWay(D)
  <2> DEFINE w == HowMany(writers, Fresh(D))
             l == HowMany(down, First(D))
             g == HowMany(got, First(D))
             l1 == HowMany(down', First(D))
             e == HowMany(b, First(D))
             f == HowMany(Tail(down), First(D))
  <2>1. w \in Nat /\ l \in Nat /\ g \in Nat
    BY CountTypes
  <2>2. l1 \in Nat
    BY CountTypesNext
  <2>3. e \in Nat /\ f \in Nat
    BY <1>1, <1>2, HowManyType
  <2>4. l1 <= f
    <3>1. CASE down' = Tail(down)
      BY <2>3, <3>1
    <3>2. CASE down' = <<>>
      <4>1. HowMany(<<>>, First(D)) = 0
        BY NoneInEmpty
      <4>2. QED
        BY <2>3, <3>2, <4>1
    <3>3. QED
      BY <3>1, <3>2
  <2>5. e + f <= g + l /\ (b[1].packet.data \in D => e >= 1)
    BY <1>1
  <2>6. OnTheWay(D) = w + l + g
    BY DEF OnTheWay
  <2>7. OnTheWay(D)' = w + l1 + 0
    <3>1. HowMany(got', First(D)) = 0
      BY NoneInEmpty
    <3>2. QED
      BY <3>1 DEF OnTheWay
  <2> HIDE DEF w, l, g, l1, e, f
  <2>8. w + l1 + 0 <= w + l + g /\ (e >= 1 => w + l1 + 0 + 1 <= w + l + g)
    BY <2>1, <2>2, <2>3, <2>4, <2>5, Taken
  <2>9. QED
    BY <2>5, <2>6, <2>7, <2>8
<1>5. Numbered'
  BY <1>3, NothingNew
<1> QED
  BY <1>4, <1>5

\* The tool is not far ahead of the board.
LEMMA NotFarAhead == TypeInv /\ InStep /\ mode = "recv" => blockNr <= expect + hurries
<1> SUFFICES ASSUME TypeInv, InStep, mode = "recv" PROVE blockNr <= expect + hurries
  OBVIOUS
<1>1. /\ Acks \in Nat /\ hurries \in Nat /\ blockNr \in Nat /\ expect \in Nat
      /\ \A D : OnTheWay(D) \in Nat
  BY CountTypes DEF TypeInv
<1>2. CASE expect \in expect .. blockNr
  <2> DEFINE a == OnTheWay(0 .. expect - 1)
  <2>1. a \in Nat /\ blockNr + Acks + a <= expect + hurries
    BY <1>1, <1>2 DEF InStep, Bounded
  <2> HIDE DEF a
  <2>2. QED
    BY <1>1, <2>1
<1>3. CASE expect \notin expect .. blockNr
  BY <1>1, <1>3
<1> QED
  BY <1>2, <1>3

\* Which packet has the number that the board waits for, or the one before.
LEMMA NumbersTell ==
  ASSUME TypeInv, Early, InStep, mode = "recv", NEW n \in 1 .. blockNr
  PROVE  /\ n % Wrap = expect % Wrap => n = expect
         /\ n % Wrap = (expect + Wrap - 1) % Wrap => n < expect
<1>1. /\ hurries \in Nat /\ blockNr \in Nat /\ expect \in Nat /\ Wrap \in Nat \ {0}
      /\ n \in Nat /\ n >= 1 /\ n <= blockNr
  BY CountTypes, XmodemAssumption DEF TypeInv
<1>2. n <= expect + hurries /\ hurries + 1 < Wrap
  BY <1>1, NotFarAhead DEF Early
<1>3. expect <= Wrap /\ expect >= 1
  <2>1. expect = Len(stored) + 1 /\ Len(stored) < Wrap /\ Len(stored) \in Nat
    BY DEF InStep, StoredSoFar, Early, TypeInv, TypeOK
  <2>2. QED
    BY <1>1, <2>1
<1>4. n < expect + Wrap /\ expect < n + Wrap
  BY <1>1, <1>2, <1>3
<1>5. ASSUME n % Wrap = expect % Wrap PROVE n = expect
  BY <1>1, <1>4, <1>5, SameNumber
<1>6. ASSUME n % Wrap = (expect + Wrap - 1) % Wrap PROVE n < expect
  <2> DEFINE m == expect + Wrap - 1
  <2>1. m \in Nat /\ n < m /\ m < n + Wrap + Wrap
    BY <1>1, <1>2, <1>3
  <2>2. n % Wrap = m % Wrap
    BY <1>6
  <2> HIDE DEF m
  <2>3. m = n + Wrap
    BY <1>1, <2>1, <2>2, SameNumber
  <2>4. QED
    BY <1>1, <2>3 DEF m
<1> QED
  BY <1>5, <1>6

\* What the answer to a packet changes in the bounds.
LEMMA AnswerBounds ==
  ASSUME TypeOK, TypeOK', NEW k \in Nat, \A D : OnTheWay(D)' <= OnTheWay(D),
         \A D : k \in D => OnTheWay(D)' + 1 <= OnTheWay(D), Replies' <= Replies + 1
  PROVE  /\ Replies' + OnTheWay(Nat)' <= Replies + OnTheWay(Nat)
         /\ \A x \in Nat : k < x /\ Acks' <= Acks + 1
              => Acks' + OnTheWay(0 .. x - 1)' <= Acks + OnTheWay(0 .. x - 1)
         /\ \A x \in Nat : Acks' <= Acks
              => Acks' + OnTheWay(0 .. x - 1)' <= Acks + OnTheWay(0 .. x - 1)
<1>1. /\ Replies \in Nat /\ Acks \in Nat /\ Replies' \in Nat /\ Acks' \in Nat
      /\ (\A D : OnTheWay(D) \in Nat) /\ (\A D : OnTheWay(D)' \in Nat)
  BY CountTypes, CountTypesNext
<1>2. Replies' + OnTheWay(Nat)' <= Replies + OnTheWay(Nat)
  <2>1. OnTheWay(Nat)' + 1 <= OnTheWay(Nat) /\ OnTheWay(Nat) \in Nat /\ OnTheWay(Nat)' \in Nat
    BY <1>1
  <2>2. QED
    BY <1>1, <2>1
<1>3. ASSUME NEW x \in Nat, k < x, Acks' <= Acks + 1
      PROVE  Acks' + OnTheWay(0 .. x - 1)' <= Acks + OnTheWay(0 .. x - 1)
  <2> DEFINE D == 0 .. x - 1
  <2>1. k \in D
    BY <1>3
  <2> HIDE DEF D
  <2>2. OnTheWay(D)' + 1 <= OnTheWay(D) /\ OnTheWay(D) \in Nat /\ OnTheWay(D)' \in Nat
    BY <1>1, <2>1
  <2>3. Acks' + OnTheWay(D)' <= Acks + OnTheWay(D)
    BY <1>1, <1>3, <2>2
  <2>4. QED
    BY <2>3 DEF D
<1>4. ASSUME NEW x \in Nat, Acks' <= Acks
      PROVE  Acks' + OnTheWay(0 .. x - 1)' <= Acks + OnTheWay(0 .. x - 1)
  <2> DEFINE D == 0 .. x - 1
  <2> HIDE DEF D
  <2>1. OnTheWay(D)' <= OnTheWay(D) /\ OnTheWay(D) \in Nat /\ OnTheWay(D)' \in Nat
    BY <1>1
  <2>2. Acks' + OnTheWay(D)' <= Acks + OnTheWay(D)
    BY <1>1, <1>4, <2>1
  <2>3. QED
    BY <2>2 DEF D
<1> QED
  BY <1>2, <1>3, <1>4

\* A bound that is moved.
LEMMA MoreRoom ==
  ASSUME NEW l \in Nat, NEW b \in Nat, NEW k \in Nat, NEW a \in Nat, NEW h \in Nat, l + b <= k + a
  PROVE  l + b <= k + a + h
  OBVIOUS

\* The board receives a byte.
LEMMA EarlyReceive == TypeInv /\ TypeInv' /\ Early /\ InStep /\ ReceiveByte => InStep'
<1> SUFFICES ASSUME TypeInv, TypeInv', Early, InStep, ReceiveByte PROVE InStep'
  OBVIOUS
<1> DEFINE b == Append(got, Head(down))
           number == IF Whole(b) THEN b[1].packet.num ELSE Wrap
           wanted == number = expect % Wrap
           before == number = (expect + Wrap - 1) % Wrap
<1>1. /\ mode = "recv" /\ mode' = mode /\ down # <<>>
      /\ got # <<>> \/ (Head(down).kind = "piece" /\ Head(down).k = 1)
      /\ UNCHANGED <<ring, xmodem, writers, blockNr>>
      /\ \/ /\ got' = b /\ down' = Tail(down) /\ UNCHANGED <<up, expect, stored, hurries>>
         \/ /\ wanted
            /\ got' = <<>> /\ down' = Tail(down) /\ up' = Append(up, "ACK")
            /\ stored' = Append(stored, b[1].packet.data) /\ expect' = expect + 1
            /\ UNCHANGED hurries
         \/ /\ before
            /\ got' = <<>> /\ down' = Tail(down) /\ up' = Append(up, "ACK")
            /\ UNCHANGED <<expect, stored, hurries>>
         \/ /\ got' = <<>> /\ down' = <<>> /\ up' = Append(up, "NAK")
            /\ HurryIf(writers # <<>>)
            /\ UNCHANGED <<expect, stored>>
  BY DEF ReceiveByte, hostVars
<1>2. TypeOK /\ TypeOK' /\ Numbered /\ Opened /\ Bounded /\ StoredSoFar
  BY DEF TypeInv, InStep
<1>3. xmodem
  BY <1>1 DEF TypeInv, Unprompted
<1>4. /\ Replies \in Nat /\ Acks \in Nat /\ Presses \in Nat /\ Replies' \in Nat /\ Acks' \in Nat
      /\ hurries \in Nat /\ blockNr \in Nat /\ expect \in Nat
      /\ (\A D : OnTheWay(D) \in Nat) /\ (\A D : OnTheWay(D)' \in Nat)
  BY <1>2, CountTypes, CountTypesNext
<1>5. /\ b[1] \in Piece /\ b[1].k = 1
      /\ \E n \in 1 .. blockNr : b[1].packet = Packet(n)
      /\ \A D : HowMany(b, First(D)) + HowMany(Tail(down), First(D))
                  <= HowMany(got, First(D)) + HowMany(down, First(D))
      /\ \A p : Brought(b, p) => Brought(got, p) \/ Brought(down, p)
  BY <1>1, <1>2, ByteMoves
<1>6. PICK n \in 1 .. blockNr : b[1].packet = Packet(n)
  BY <1>5
<1>7. /\ b[1].packet.data = n /\ b[1].packet.num = n % Wrap /\ n \in Nat
      /\ n % Wrap \in Nat /\ expect % Wrap # Wrap /\ (expect + Wrap - 1) % Wrap # Wrap
  <2>1. \A m \in Nat : m % Wrap \in 0 .. Wrap - 1 /\ Wrap \in Nat
    BY XmodemAssumption
  <2>2. expect % Wrap # Wrap /\ n \in Nat
    BY <1>4, <2>1
  <2>3. expect + Wrap - 1 \in Nat
    BY <1>4, XmodemAssumption
  <2> DEFINE m == expect + Wrap - 1
  <2> HIDE DEF m
  <2>4. m % Wrap # Wrap
    BY <2>1, <2>3 DEF m
  <2>5. b[1].packet.data = n /\ b[1].packet.num = n % Wrap
    BY <1>6 DEF Packet
  <2>6. n % Wrap \in Nat
    BY <2>1, <2>2
  <2>7. (expect + Wrap - 1) % Wrap # Wrap
    BY <2>4 DEF m
  <2>8. QED
    BY <2>2, <2>5, <2>6, <2>7
<1>8. (wanted => n = expect) /\ (before => n < expect)
  <2>1. wanted => n % Wrap = expect % Wrap
    BY <1>7
  <2>2. before => n % Wrap = (expect + Wrap - 1) % Wrap
    BY <1>7
  <2> HIDE DEF wanted, before
  <2>3. QED
    BY <1>1, <2>1, <2>2, NumbersTell
<1> HIDE DEF number, wanted, before
<1>9. ASSUME got' = <<>>, down' = Tail(down) \/ down' = <<>>
      PROVE  /\ \A D : OnTheWay(D)' <= OnTheWay(D)
             /\ \A D : n \in D => OnTheWay(D)' + 1 <= OnTheWay(D)
             /\ Numbered' /\ Opened'
  <2>1. /\ \A D : /\ OnTheWay(D)' <= OnTheWay(D)
                  /\ b[1].packet.data \in D => OnTheWay(D)' + 1 <= OnTheWay(D)
        /\ Numbered'
    BY <1>1, <1>2, <1>9, PacketTaken
  <2>2. Opened'
    BY <1>9 DEF Opened
  <2>3. QED
    BY <1>7, <2>1, <2>2
<1>10. ASSUME got' = b, down' = Tail(down), UNCHANGED <<up, expect, stored, hurries>>
       PROVE  InStep'
  <2>1. ASSUME NEW D PROVE OnTheWay(D)' <= OnTheWay(D)
    <3>1. HowMany(got', First(D)) + HowMany(down', First(D))
            <= HowMany(got, First(D)) + HowMany(down, First(D))
      BY <1>5, <1>10
    <3>2. /\ HowMany(writers, Fresh(D)) \in Nat /\ HowMany(down, First(D)) \in Nat
          /\ HowMany(got, First(D)) \in Nat
      BY <1>2, CountTypes
    <3>3. /\ HowMany(down', First(D)) \in Nat /\ HowMany(got', First(D)) \in Nat
          /\ HowMany(writers', Fresh(D)) = HowMany(writers, Fresh(D))
      BY <1>1, <1>2, CountTypesNext
    <3>4. QED
      BY <3>1, <3>2, <3>3 DEF OnTheWay
  <2>2. Numbered'
    <3>1. \A p : Held(writers, p)' => Held(writers, p)
      BY <1>1
    <3>2. \A p : Brought(got', p) => Brought(got, p) \/ Brought(down, p)
      BY <1>5, <1>10
    <3>3. \A p : Brought(down', p) => Brought(down, p)
      BY <1>1, <1>2, BoardCounts, <1>10 DEF NoMore
    <3>4. QED
      BY <1>1, <1>2, <3>1, <3>2, <3>3 DEF Numbered, FromFile
  <2>3. Opened'
    BY <1>5, <1>10 DEF Opened, Piece
  <2>4. Replies' = Replies /\ Acks' = Acks /\ Presses' = Presses
    BY <1>10 DEF Replies, Acks, Presses
  <2>5. Bounded'
    <3>1. hurries' = hurries + 0 /\ 0 \in {0, 1} /\ expect' >= expect
      BY <1>4, <1>10
    <3>2. Replies' + OnTheWay(Nat)' <= Replies + OnTheWay(Nat) + 0
      <4>1. OnTheWay(Nat)' <= OnTheWay(Nat) /\ OnTheWay(Nat)' \in Nat /\ OnTheWay(Nat) \in Nat
        BY <1>4, <2>1
      <4>2. QED
        BY <1>4, <2>4, <4>1
    <3>3. ASSUME NEW x \in expect' .. blockNr
          PROVE  Acks' + OnTheWay(0 .. x - 1)' <= Acks + OnTheWay(0 .. x - 1) + 0
      <4> DEFINE D == 0 .. x - 1
      <4> HIDE DEF D
      <4>1. OnTheWay(D)' <= OnTheWay(D) /\ OnTheWay(D)' \in Nat /\ OnTheWay(D) \in Nat
        BY <1>4, <2>1
      <4>2. Acks' + OnTheWay(D)' <= Acks + OnTheWay(D) + 0
        BY <1>4, <2>4, <4>1
      <4>3. QED
        BY <4>2 DEF D
    <3>4. QED
      BY <1>1, <1>2, <3>1, <3>2, <3>3, BoundedKept
  <2>6. QED
    BY <1>1, <1>2, <1>3, <1>4, <1>10, <2>2, <2>3, <2>4, <2>5, CalmStep
<1>11. ASSUME wanted, got' = <<>>, down' = Tail(down), up' = Append(up, "ACK"),
              stored' = Append(stored, b[1].packet.data), expect' = expect + 1, UNCHANGED hurries
       PROVE  InStep'
  <2>1. /\ \A D : OnTheWay(D)' <= OnTheWay(D)
        /\ \A D : expect \in D => OnTheWay(D)' + 1 <= OnTheWay(D)
        /\ Numbered' /\ Opened'
    BY <1>8, <1>9, <1>11
  <2>2. Replies' <= Replies + 1 /\ Presses' <= Presses /\ Acks' <= Acks + 1
    BY <1>2, <1>11, AnswerCounts DEF Answers
  <2>3. Bounded'
    <3>1. hurries' = hurries + 0 /\ 0 \in {0, 1} /\ expect' >= expect
      BY <1>4, <1>11
    <3>2. /\ Replies' + OnTheWay(Nat)' <= Replies + OnTheWay(Nat)
          /\ \A x \in Nat : expect < x
               => Acks' + OnTheWay(0 .. x - 1)' <= Acks + OnTheWay(0 .. x - 1)
      BY <1>2, <1>4, <2>1, <2>2, AnswerBounds
    <3>3. Replies' + OnTheWay(Nat)' <= Replies + OnTheWay(Nat) + 0
      <4>1. OnTheWay(Nat) \in Nat
        BY <1>4
      <4>2. QED
        BY <1>4, <3>2, <4>1
    <3>4. ASSUME NEW x \in expect' .. blockNr
          PROVE  Acks' + OnTheWay(0 .. x - 1)' <= Acks + OnTheWay(0 .. x - 1) + 0
      <4>1. x \in Nat /\ expect < x
        BY <1>4, <1>11
      <4>2. Acks' + OnTheWay(0 .. x - 1)' <= Acks + OnTheWay(0 .. x - 1)
        BY <3>2, <4>1
      <4>3. OnTheWay(0 .. x - 1) \in Nat
        BY <1>4
      <4> DEFINE a == OnTheWay(0 .. x - 1)
                 c == OnTheWay(0 .. x - 1)'
      <4> HIDE DEF a, c
      <4>4. Acks' + c <= Acks + a /\ a \in Nat
        BY <4>2, <4>3 DEF a, c
      <4>5. Acks' + c <= Acks + a + 0
        BY <1>4, <4>4
      <4>6. QED
        BY <4>5 DEF a, c
    <3>5. QED
      BY <1>1, <1>2, <3>1, <3>3, <3>4, BoundedKept
  <2>4. StoredSoFar'
    <3>1. b[1].packet.data = expect /\ expect = Len(stored) + 1 /\ stored \in Seq(Nat)
      BY <1>2, <1>7, <1>8, <1>11 DEF StoredSoFar, TypeOK
    <3>2. /\ Len(stored') = Len(stored) + 1 /\ Len(stored) \in Nat
          /\ \A i \in 1 .. Len(stored) : stored'[i] = stored[i]
          /\ stored'[Len(stored) + 1] = expect
          /\ \A i \in 1 .. Len(stored') : i \in 1 .. Len(stored) \/ i = Len(stored) + 1
      BY <1>4, <1>11, <3>1, Appended
    <3>3. QED
      BY <1>2, <1>11, <3>1, <3>2 DEF StoredSoFar
  <2>5. PressOnce'
    <3>1. Presses' \in Nat
      BY <1>2, CountTypesNext
    <3>2. QED
      BY <1>1, <1>3, <1>4, <2>2, <3>1 DEF InStep, PressOnce, PressInRing
  <2>6. QED
    BY <1>1, <1>3, <2>1, <2>3, <2>4, <2>5 DEF InStep
<1>12. ASSUME before, got' = <<>>, down' = Tail(down), up' = Append(up, "ACK"),
              UNCHANGED <<expect, stored, hurries>>
       PROVE  InStep'
  <2>1. /\ \A D : OnTheWay(D)' <= OnTheWay(D)
        /\ \A D : n \in D => OnTheWay(D)' + 1 <= OnTheWay(D)
        /\ Numbered' /\ Opened' /\ n < expect
    BY <1>8, <1>9, <1>12
  <2>2. Replies' <= Replies + 1 /\ Presses' <= Presses /\ Acks' <= Acks + 1
    BY <1>2, <1>12, AnswerCounts DEF Answers
  <2>3. Bounded'
    <3>1. hurries' = hurries + 0 /\ 0 \in {0, 1} /\ expect' >= expect
      BY <1>4, <1>12
    <3>2. /\ Replies' + OnTheWay(Nat)' <= Replies + OnTheWay(Nat)
          /\ \A x \in Nat : n < x
               => Acks' + OnTheWay(0 .. x - 1)' <= Acks + OnTheWay(0 .. x - 1)
      BY <1>2, <1>7, <2>1, <2>2, AnswerBounds
    <3>3. Replies' + OnTheWay(Nat)' <= Replies + OnTheWay(Nat) + 0
      <4>1. OnTheWay(Nat) \in Nat
        BY <1>4
      <4>2. QED
        BY <1>4, <3>2, <4>1
    <3>4. ASSUME NEW x \in expect' .. blockNr
          PROVE  Acks' + OnTheWay(0 .. x - 1)' <= Acks + OnTheWay(0 .. x - 1) + 0
      <4>1. x \in Nat /\ n < x
        BY <1>4, <1>7, <1>12, <2>1
      <4>2. Acks' + OnTheWay(0 .. x - 1)' <= Acks + OnTheWay(0 .. x - 1)
        BY <3>2, <4>1
      <4>3. OnTheWay(0 .. x - 1) \in Nat
        BY <1>4
      <4> DEFINE a == OnTheWay(0 .. x - 1)
                 c == OnTheWay(0 .. x - 1)'
      <4> HIDE DEF a, c
      <4>4. Acks' + c <= Acks + a /\ a \in Nat
        BY <4>2, <4>3 DEF a, c
      <4>5. Acks' + c <= Acks + a + 0
        BY <1>4, <4>4
      <4>6. QED
        BY <4>5 DEF a, c
    <3>5. QED
      BY <1>1, <1>2, <3>1, <3>3, <3>4, BoundedKept
  <2>4. QED
    BY <1>1, <1>2, <1>3, <1>12, <2>1, <2>2, <2>3, CalmStep
<1>13. ASSUME got' = <<>>, down' = <<>>, up' = Append(up, "NAK"),
              HurryIf(writers # <<>>), UNCHANGED <<expect, stored>>
       PROVE  InStep'
  <2>1. /\ \A D : OnTheWay(D)' <= OnTheWay(D)
        /\ \A D : n \in D => OnTheWay(D)' + 1 <= OnTheWay(D)
        /\ Numbered' /\ Opened'
    BY <1>9, <1>13
  <2>2. Replies' <= Replies + 1 /\ Presses' <= Presses /\ Acks' <= Acks
    BY <1>2, <1>13, AnswerCounts DEF Answers
  <2>3. Bounded'
    <3>1. PICK h \in {0, 1} : hurries' = hurries + h
      BY <1>4, <1>13 DEF HurryIf
    <3>2. /\ Replies' + OnTheWay(Nat)' <= Replies + OnTheWay(Nat)
          /\ \A x \in Nat : Acks' + OnTheWay(0 .. x - 1)' <= Acks + OnTheWay(0 .. x - 1)
      BY <1>2, <1>7, <2>1, <2>2, AnswerBounds
    <3>3. Replies' + OnTheWay(Nat)' <= Replies + OnTheWay(Nat) + h
      <4>1. OnTheWay(Nat) \in Nat /\ OnTheWay(Nat)' \in Nat
        BY <1>4
      <4>2. QED
        BY <1>4, <3>2, <4>1
    <3>4. ASSUME NEW x \in expect' .. blockNr
          PROVE  Acks' + OnTheWay(0 .. x - 1)' <= Acks + OnTheWay(0 .. x - 1) + h
      <4>1. x \in Nat
        BY <1>4, <1>13
      <4>2. Acks' + OnTheWay(0 .. x - 1)' <= Acks + OnTheWay(0 .. x - 1)
        BY <3>2, <4>1
      <4>3. OnTheWay(0 .. x - 1) \in Nat /\ OnTheWay(0 .. x - 1)' \in Nat
        BY <1>4
      <4> DEFINE a == OnTheWay(0 .. x - 1)
                 c == OnTheWay(0 .. x - 1)'
      <4> HIDE DEF a, c
      <4>4. Acks' + c <= Acks + a /\ a \in Nat /\ c \in Nat
        BY <4>2, <4>3 DEF a, c
      <4>5. Acks \in Nat /\ Acks' \in Nat /\ h \in Nat
        BY <1>4
      <4>6. Acks' + c <= Acks + a + h
        BY <4>4, <4>5, MoreRoom
      <4>7. QED
        BY <4>6 DEF a, c
    <3>5. expect' >= expect
      BY <1>4, <1>13
    <3>6. QED
      BY <1>1, <1>2, <3>1, <3>3, <3>4, <3>5, BoundedKept
  <2>4. QED
    BY <1>1, <1>2, <1>3, <1>13, <2>1, <2>2, <2>3, CalmStep
<1> HIDE DEF b
<1> QED
  BY <1>1, <1>10, <1>11, <1>12, <1>13

\* What a chunk of text takes from the line.
LEMMA ChunkTakes ==
  ASSUME TypeOK, Unprompted, NEW n \in 1 .. Len(up), up' = RestOf(n)
  PROVE  /\ \A G : HowMany(up', G) <= HowMany(up, G)
         /\ Answered' => Answered
         /\ \A c \in Answers : Contains(TextOf(n), c) =>
              Answered /\ \A G : c \in G => HowMany(up', G) + 1 <= HowMany(up, G)
         /\ (\E i \in 1 .. Len(TextOf(n)) : TextOf(n)[i] = "press")
              => PressInRing \/ Presses' + 1 <= Presses
         /\ Prompted(TextOf(n)) => \E i \in 1 .. Len(TextOf(n)) : TextOf(n)[i] = "press"
<1>1. /\ Len(up) \in Nat /\ n \in Nat
      /\ \A i \in 1 .. Len(TextOf(n)) : \/ \E j \in 1 .. Len(ring) : TextOf(n)[i] = ring[j]
                                        \/ \E j \in 1 .. n : TextOf(n)[i] = up[j]
      /\ TextOf(n) \in Seq(Text) /\ Len(up') = Len(up) - n
      /\ \A i \in 1 .. Len(up) - n : up'[i] = up[i + n]
  <2>1. Len(up) \in Nat /\ n \in Nat
    BY DEF TypeOK
  <2>2. QED
    BY <2>1, ChunkIs
<1>2. \A G : /\ HowMany(up', G) <= HowMany(up, G)
             /\ \A k \in 1 .. n : up[k] \in G => HowMany(up', G) + 1 <= HowMany(up, G)
  BY RestHas
<1>3. Answered' => Answered
  <2>1. \A i \in 1 .. Len(up') : i + n \in 1 .. Len(up) /\ up'[i] = up[i + n]
    BY <1>1
  <2>2. QED
    BY <2>1 DEF Answered, HasUp
<1>4. ASSUME NEW c \in Answers, Contains(TextOf(n), c)
      PROVE  Answered /\ \A G : c \in G => HowMany(up', G) + 1 <= HowMany(up, G)
  <2>1. PICK i \in 1 .. Len(TextOf(n)) : TextOf(n)[i] = c
    BY <1>4 DEF Contains
  <2>2. \A j \in 1 .. Len(ring) : ring[j] # c
    BY DEF Unprompted
  <2>3. PICK j \in 1 .. n : up[j] = c
    BY <1>1, <2>1, <2>2
  <2>4. j \in 1 .. Len(up)
    BY <1>1
  <2>5. QED
    BY <1>2, <2>3, <2>4 DEF Answered, HasUp
<1>5. ASSUME NEW i \in 1 .. Len(TextOf(n)), TextOf(n)[i] = "press"
      PROVE  PressInRing \/ Presses' + 1 <= Presses
  <2>1. CASE \E j \in 1 .. Len(ring) : TextOf(n)[i] = ring[j]
    BY <1>5, <2>1 DEF PressInRing
  <2>2. CASE \E j \in 1 .. n : TextOf(n)[i] = up[j]
    <3>1. PICK j \in 1 .. n : up[j] = "press"
      BY <1>5, <2>2
    <3>2. up[j] \in {"press"}
      BY <3>1
    <3>3. HowMany(up', {"press"}) + 1 <= HowMany(up, {"press"})
      BY <1>2, <3>2
    <3>4. QED
      BY <3>3 DEF Presses
  <2>3. QED
    BY <1>1, <2>1, <2>2
<1>6. ASSUME Prompted(TextOf(n)) PROVE \E i \in 1 .. Len(TextOf(n)) : TextOf(n)[i] = "press"
  <2>1. PICK i \in 1 .. Len(TextOf(n)) - 1 : SubSeq(TextOf(n), i, i + 1) = Prompt
    BY <1>6 DEF Prompted
  <2>2. i \in Int /\ i + 1 \in Int /\ i \in 1 .. Len(TextOf(n)) /\ i + 1 \in 1 .. Len(TextOf(n))
    BY <1>1
  <2>3. \A j \in i .. i + 1 : TextOf(n)[j] \in Text
    BY <1>1, <2>2
  <2>4. \A j \in 1 .. i + 1 - i + 1 : SubSeq(TextOf(n), i, i + 1)[j] = TextOf(n)[i + j - 1]
    BY <2>2, <2>3, SubSeqProperties
  <2>5. Prompt[1] = TextOf(n)[i]
    <3>1. 1 \in 1 .. i + 1 - i + 1 /\ i + 1 - 1 = i
      BY <2>2
    <3>2. QED
      BY <2>1, <2>4, <3>1
  <2>6. Prompt[1] = "press"
    BY DEF Prompt
  <2>7. QED
    BY <2>2, <2>5, <2>6
<1> QED
  BY <1>2, <1>3, <1>4, <1>5, <1>6

\* A block is sent, or the end of the file.
LEMMA Sends ==
  ASSUME TypeOK, TypeOK', Numbered, got' = got,
         blockNr' = blockNr \/ blockNr' = blockNr + 1, blockNr' >= 1,
         \/ SendBlock(blockNr') /\ down' = down
         \/ writers' = writers /\ down' = Append(down, Byte("EOT"))
  PROVE  /\ \A D : /\ OnTheWay(D)' <= OnTheWay(D) + 1
                   /\ blockNr' \notin D => OnTheWay(D)' <= OnTheWay(D)
         /\ Numbered'
<1> DEFINE v == [packet |-> Packet(blockNr'), sent |-> 0]
<1>1. writers \in Seq(Writers) /\ down \in Seq(Lines) /\ blockNr \in Nat /\ blockNr' \in Nat
  BY CountTypes, CountTypesNext
<1>2. v \in Writers /\ v.packet = Packet(blockNr') /\ v.packet.data = blockNr'
  <2>1. Packet(blockNr') \in Packets /\ Packet(blockNr').data = blockNr'
    BY <1>1, PacketType DEF Packet
  <2>2. QED
    BY <2>1, XmodemAssumption DEF Writers
<1>3. writers' = Append(writers, v) \/ writers' = writers
  BY DEF SendBlock
<1> HIDE DEF v
<1>4. /\ NoMore(down', down)
  <2>1. Byte("EOT") \in Lines /\ Byte("EOT").kind # "piece"
    BY DEF Byte, Lines, Signals
  <2>2. QED
    BY <1>1, <2>1, NoMoreOn
<1>5. ASSUME NEW D
      PROVE  /\ HowMany(writers', Fresh(D)) <= HowMany(writers, Fresh(D)) + 1
             /\ blockNr' \notin D => HowMany(writers', Fresh(D)) <= HowMany(writers, Fresh(D))
  <2>1. HowMany(writers, Fresh(D)) \in Nat
    BY CountTypes
  <2>2. CASE writers' = writers
    BY <2>1, <2>2
  <2>3. CASE writers' = Append(writers, v)
    <3>1. blockNr' \notin D => v \notin Fresh(D)
      BY <1>2 DEF Fresh
    <3>2. QED
      BY <1>1, <1>2, <2>3, <3>1, OneAppended
  <2>4. QED
    BY <1>3, <2>2, <2>3
<1>6. ASSUME NEW D
      PROVE  /\ OnTheWay(D)' <= OnTheWay(D) + 1
             /\ blockNr' \notin D => OnTheWay(D)' <= OnTheWay(D)
  <2>1. /\ HowMany(down', First(D)) <= HowMany(down, First(D))
        /\ HowMany(got', First(D)) = HowMany(got, First(D))
    BY <1>4 DEF NoMore
  <2>2. /\ HowMany(writers, Fresh(D)) \in Nat /\ HowMany(down, First(D)) \in Nat
        /\ HowMany(got, First(D)) \in Nat
    BY CountTypes
  <2>3. HowMany(writers', Fresh(D)) \in Nat /\ HowMany(down', First(D)) \in Nat
    BY CountTypesNext
  <2>4. QED
    BY <1>5, <2>1, <2>2, <2>3 DEF OnTheWay
<1>7. Numbered'
  <2>1. ASSUME NEW p, Held(writers', p) PROVE Held(writers, p) \/ p = Packet(blockNr')
    <3>1. CASE writers' = writers
      BY <2>1, <3>1
    <3>2. CASE writers' = Append(writers, v)
      <4>1. /\ \A i \in 1 .. Len(writers) : writers'[i] = writers[i]
            /\ writers'[Len(writers) + 1] = v
            /\ \A i \in 1 .. Len(writers') : i \in 1 .. Len(writers) \/ i = Len(writers) + 1
        BY <1>1, <1>2, <3>2, Appended
      <4>2. QED
        BY <1>2, <2>1, <4>1 DEF Held
    <3>3. QED
      BY <1>3, <3>1, <3>2
  <2>2. \A p : Brought(down', p) \/ Brought(got', p) => Brought(down, p) \/ Brought(got, p)
    BY <1>4 DEF NoMore
  <2>3. ASSUME NEW p, p = Packet(blockNr') PROVE FromFile(p)'
    <3>1. blockNr' \in 1 .. blockNr'
      BY <1>1
    <3>2. QED
      BY <2>3, <3>1 DEF FromFile
  <2>4. \A p : FromFile(p) => FromFile(p)'
    <3>1. \A i \in 1 .. blockNr : i \in 1 .. blockNr'
      BY <1>1
    <3>2. QED
      BY <3>1 DEF FromFile
  <2> SUFFICES ASSUME NEW p, Held(writers', p) \/ Brought(down', p) \/ Brought(got', p)
               PROVE  FromFile(p)'
    BY DEF Numbered
  <2>5. CASE p = Packet(blockNr')
    BY <2>3, <2>5
  <2>6. CASE Held(writers, p) \/ Brought(down, p) \/ Brought(got, p)
    BY <2>4, <2>6 DEF Numbered
  <2>7. QED
    BY <2>1, <2>2, <2>5, <2>6
<1> QED
  BY <1>6, <1>7

\* Acknowledgements are answers; blocks of fewer numbers are not more.
LEMMA CountsGrow ==
  ASSUME TypeOK
  PROVE  /\ Acks <= Replies
         /\ \A D \in SUBSET Nat : OnTheWay(D) <= OnTheWay(Nat)
<1>1. writers \in Seq(Writers) /\ down \in Seq(Lines) /\ got \in Seq(Lines) /\ up \in Seq(Text)
  BY CountTypes
<1>2. \A S : \A s \in Seq(S) : \A G, H : G \subseteq H => HowMany(s, G) <= HowMany(s, H)
  <2> SUFFICES ASSUME NEW S, NEW s \in Seq(S), NEW G, NEW H, G \subseteq H
               PROVE  HowMany(s, G) <= HowMany(s, H)
    OBVIOUS
  <2>1. Len(s) <= Len(s) /\ \A i \in 1 .. Len(s) : s[i] \in G => s[i] \in H
    OBVIOUS
  <2>2. QED
    BY <2>1, FewerOrAsMany
<1>3. Acks <= Replies
  <2>1. {"ACK"} \subseteq Answers
    BY DEF Answers
  <2>2. HowMany(up, {"ACK"}) <= HowMany(up, Answers)
    BY <1>1, <1>2, <2>1
  <2>3. QED
    BY <2>2 DEF Acks, Replies
<1>4. ASSUME NEW D \in SUBSET Nat PROVE OnTheWay(D) <= OnTheWay(Nat)
  <2>1. Fresh(D) \subseteq Fresh(Nat) /\ First(D) \subseteq First(Nat)
    BY DEF Fresh, First
  <2>2. HowMany(writers, Fresh(D)) <= HowMany(writers, Fresh(Nat))
    BY <1>1, <1>2, <2>1
  <2>3. HowMany(down, First(D)) <= HowMany(down, First(Nat))
    BY <1>1, <1>2, <2>1
  <2>4. HowMany(got, First(D)) <= HowMany(got, First(Nat))
    BY <1>1, <1>2, <2>1
  <2>5. /\ HowMany(writers, Fresh(D)) \in Nat /\ HowMany(down, First(D)) \in Nat
        /\ HowMany(got, First(D)) \in Nat
    BY CountTypes
  <2>6. /\ HowMany(writers, Fresh(Nat)) \in Nat /\ HowMany(down, First(Nat)) \in Nat
        /\ HowMany(got, First(Nat)) \in Nat
    BY CountTypes
  <2>7. QED
    BY <2>2, <2>3, <2>4, <2>5, <2>6 DEF OnTheWay
<1> QED
  BY <1>3, <1>4

\* An answer is taken and a block is sent: what one bound gains the other loses.
LEMMA Traded ==
  ASSUME NEW n \in Nat, NEW a \in Nat, NEW a1 \in Nat, NEW o \in Nat, NEW o1 \in Nat,
         NEW x \in Nat, NEW h \in Nat, n + a + o <= x + h, o1 <= o, a1 + 1 <= a
  PROVE  (n + 1) + a1 + o1 <= x + h
  OBVIOUS

\* The same for the sum of all answers and blocks.
LEMMA Exchanged ==
  ASSUME NEW r \in Nat, NEW r1 \in Nat, NEW o \in Nat, NEW o1 \in Nat, r1 + 1 <= r, o1 <= o + 1
  PROVE  /\ r1 + o1 <= r + o + 0
         /\ \A m \in Nat : r + o <= m => r1 + o1 <= m
  OBVIOUS

\* One is the last.
LEMMA LastOne ==
  ASSUME NEW p \in Nat, NEW p1 \in Nat, p1 + 1 <= p, p <= 1
  PROVE  p1 = 0 /\ p = 1
  OBVIOUS

\* The bound of the block that is sent first now.
LEMMA NewBound ==
  ASSUME NEW n \in Nat, NEW a \in Nat, NEW a1 \in Nat, NEW r \in Nat, NEW o \in Nat,
         NEW o1 \in Nat, NEW all \in Nat, NEW h \in Nat,
         a1 + 1 <= a, a <= r, o1 <= o, o <= all, r + all <= 1 + h
  PROVE  (n + 1) + a1 + o1 <= (n + 1) + h
  OBVIOUS

\* A chunk that holds no answer and no prompt is kept.
LEMMA EarlyListen ==
  ASSUME TypeInv, TypeInv', InStep, NEW n \in 1 .. Len(up), up' = RestOf(n),
         UNCHANGED <<mode, expect, got, stored, hurries>>, Listen(TextOf(n))
  PROVE  InStep'
<1>1. TypeOK /\ TypeOK' /\ Unprompted
  BY DEF TypeInv
<1>2. ring' = TextOf(n) /\ UNCHANGED <<xmodem, blockNr, down, writers>>
  BY DEF Listen
<1>3. /\ \A G : HowMany(up', G) <= HowMany(up, G)
      /\ Answered' => Answered
      /\ (\E i \in 1 .. Len(TextOf(n)) : TextOf(n)[i] = "press")
           => PressInRing \/ Presses' + 1 <= Presses
  BY <1>1, ChunkTakes
<1>4. Replies' <= Replies /\ Acks' <= Acks /\ Presses' <= Presses
  BY <1>3 DEF Replies, Acks, Presses
<1>5. /\ Replies \in Nat /\ Acks \in Nat /\ Presses \in Nat
      /\ Replies' \in Nat /\ Acks' \in Nat /\ Presses' \in Nat
      /\ hurries \in Nat /\ expect \in Nat /\ \A D : OnTheWay(D) \in Nat
  BY <1>1, CountTypes, CountTypesNext
<1>6. (\A D : OnTheWay(D)' = OnTheWay(D)) /\ Numbered' /\ Opened' /\ StoredSoFar'
  BY <1>2 DEF OnTheWay, InStep, Numbered, FromFile, Opened, StoredSoFar
<1>7. Bounded'
  <2>1. Bounded /\ hurries' = hurries + 0 /\ 0 \in {0, 1} /\ expect' >= expect
    BY <1>5 DEF InStep
  <2>2. Replies' + OnTheWay(Nat)' <= Replies + OnTheWay(Nat) + 0
    <3>1. OnTheWay(Nat)' = OnTheWay(Nat) /\ OnTheWay(Nat) \in Nat
      BY <1>5, <1>6
    <3>2. QED
      BY <1>4, <1>5, <3>1
  <2>3. ASSUME NEW x \in expect' .. blockNr
        PROVE  Acks' + OnTheWay(0 .. x - 1)' <= Acks + OnTheWay(0 .. x - 1) + 0
    <3> DEFINE D == 0 .. x - 1
    <3> HIDE DEF D
    <3>1. OnTheWay(D)' = OnTheWay(D) /\ OnTheWay(D) \in Nat
      BY <1>5, <1>6
    <3>2. Acks' + OnTheWay(D)' <= Acks + OnTheWay(D) + 0
      BY <1>4, <1>5, <3>1
    <3>3. QED
      BY <3>2 DEF D
  <2>4. QED
    BY <1>1, <1>2, <2>1, <2>2, <2>3, BoundedKept
<1>8. Idle => Idle'
  BY <1>2, <1>3, LineStays DEF Idle
<1>9. PressOnce'
  <2>1. PressInRing' => PressInRing \/ Presses' + 1 <= Presses
    BY <1>2, <1>3 DEF PressInRing
  <2>2. Presses' <= 1
    BY <1>4, <1>5 DEF InStep, PressOnce
  <2>3. /\ Presses <= 1
        /\ PressInRing => Presses = 0
        /\ mode = "boot" \/ xmodem => ~PressInRing /\ Presses = 0
    BY DEF InStep, PressOnce
  <2>4. Presses' <= Presses /\ Presses \in Nat /\ Presses' \in Nat
    BY <1>4, <1>5
  <2>5. CASE Presses' + 1 <= Presses
    <3>0. Presses <= 1
      BY <2>3
    <3>1. Presses' = 0 /\ Presses = 1
      BY <2>4, <2>5, <3>0, LastOne
    <3>2. ~(mode = "boot" \/ xmodem)
      BY <2>3, <3>1
    <3>3. QED
      BY <1>2, <2>2, <3>1, <3>2 DEF PressOnce
  <2>6. CASE ~PressInRing'
    <3>1. mode = "boot" \/ xmodem => Presses' = 0
      BY <2>3, <2>4
    <3>2. QED
      BY <1>2, <2>2, <2>6, <3>1 DEF PressOnce
  <2>7. CASE PressInRing
    <3>1. Presses' = 0 /\ ~(mode = "boot" \/ xmodem)
      BY <2>3, <2>4, <2>7
    <3>2. QED
      BY <1>2, <2>2, <3>1 DEF PressOnce
  <2>8. QED
    BY <2>1, <2>5, <2>6, <2>7
<1> QED
  BY <1>2, <1>6, <1>7, <1>8, <1>9 DEF InStep

\* The prompt starts the transfer when nothing is on its way.
LEMMA EarlyBegin ==
  ASSUME TypeInv, TypeInv', InStep, NEW n \in 1 .. Len(up), up' = RestOf(n),
         UNCHANGED <<mode, expect, got, stored, hurries>>, Begin(TextOf(n))
  PROVE  InStep'
<1>1. TypeOK /\ TypeOK' /\ Unprompted
  BY DEF TypeInv
<1>2. /\ ring' = <<>> /\ xmodem' = TRUE /\ blockNr' = 1 /\ writers' = writers
      /\ down' = Append(down, Byte("X")) /\ Prompted(TextOf(n))
  BY DEF Begin
<1>3. /\ \A G : HowMany(up', G) <= HowMany(up, G)
      /\ Answered' => Answered
      /\ PressInRing \/ Presses' + 1 <= Presses
  BY <1>1, <1>2, ChunkTakes
<1>4. Presses' <= Presses /\ Presses \in Nat /\ Presses' \in Nat
  <2>1. Presses' <= Presses
    BY <1>3 DEF Presses
  <2>2. QED
    BY <1>1, <2>1, CountTypes, CountTypesNext
<1>5. ~xmodem /\ mode # "boot" /\ Presses' = 0
  <2>1. /\ Presses <= 1
        /\ PressInRing => Presses = 0
        /\ mode = "boot" \/ xmodem => ~PressInRing /\ Presses = 0
    BY DEF InStep, PressOnce
  <2>2. CASE PressInRing
    BY <1>4, <2>1, <2>2
  <2>3. CASE Presses' + 1 <= Presses
    <3>0. Presses <= 1
      BY <2>1
    <3>1. Presses' = 0 /\ Presses = 1
      BY <1>4, <2>3, <3>0, LastOne
    <3>2. QED
      BY <2>1, <3>1
  <2>4. QED
    BY <1>3, <2>2, <2>3
<1>6. Idle /\ mode \notin {"recv", "done"}
  BY <1>5 DEF InStep, TypeInv, Unprompted
<1>7. NoMore(down', down)
  <2>1. Byte("X") \in Lines /\ Byte("X").kind # "piece" /\ down \in Seq(Lines)
    BY <1>1, CountTypes DEF Byte, Lines, Signals
  <2>2. QED
    BY <1>2, <2>1, NoMoreOn
<1>8. Idle'
  BY <1>2, <1>3, <1>6, <1>7, IdleStays
<1>9. Numbered'
  <2>1. Len(<<>>) = 0
    OBVIOUS
  <2>2. writers' = <<>> /\ got' = <<>> /\ \A i \in 1 .. Len(down') : down'[i].kind # "piece"
    BY <1>8 DEF Idle, InDown
  <2>3. Len(writers') = 0 /\ Len(got') = 0
    BY <2>1, <2>2
  <2>4. \A p : ~Held(writers', p) /\ ~Brought(down', p) /\ ~Brought(got', p)
    BY <2>2, <2>3 DEF Held, Brought
  <2>5. QED
    BY <2>4 DEF Numbered
<1>10. StoredSoFar' /\ Opened' /\ Bounded'
  BY <1>6 DEF InStep, StoredSoFar, Opened, Bounded
<1>11. PressOnce'
  <2>1. Len(<<>>) = 0
    OBVIOUS
  <2>2. ~PressInRing'
    BY <1>2, <2>1 DEF PressInRing
  <2>3. QED
    BY <1>5, <2>2 DEF PressOnce
<1> QED
  BY <1>2, <1>5, <1>8, <1>9, <1>10, <1>11 DEF InStep

\* An answer is answered: what both branches have in common.
LEMMA EarlyAnswered ==
  ASSUME TypeInv, TypeInv', InStep, UNCHANGED <<xmodem, mode, expect, got, stored>>, Answered,
         ring' = <<>>, Presses' <= Presses, Numbered', Bounded', blockNr' >= blockNr
  PROVE  InStep'
<1>1. xmodem /\ mode \notin {"boot", "wait"}
  <2>1. ~Idle
    BY DEF Idle
  <2>2. QED
    BY <2>1 DEF InStep, TypeInv, TypeOK
<1>2. Presses \in Nat /\ Presses' \in Nat /\ blockNr \in Nat /\ blockNr' \in Nat
  BY CountTypes, CountTypesNext DEF TypeInv
<1>3. PressOnce'
  <2>1. Len(<<>>) = 0
    OBVIOUS
  <2>2. ~PressInRing'
    BY <2>1 DEF PressInRing
  <2>3. Presses' = 0
    BY <1>1, <1>2 DEF InStep, PressOnce
  <2>4. QED
    BY <2>2, <2>3 DEF PressOnce
<1>4. StoredSoFar' /\ Opened' /\ blockNr' >= 1
  BY <1>1, <1>2 DEF InStep, StoredSoFar, Opened
<1> QED
  BY <1>1, <1>3, <1>4 DEF InStep

\* A block is sent again.
LEMMA EarlyResend ==
  ASSUME TypeInv, TypeInv', InStep, NEW n \in 1 .. Len(up), up' = RestOf(n),
         UNCHANGED <<mode, expect, got, stored, hurries>>, Resend(TextOf(n))
  PROVE  InStep'
<1>1. TypeOK /\ TypeOK' /\ Unprompted
  BY DEF TypeInv
<1>2. /\ ring' = <<>> /\ SendBlock(blockNr) /\ UNCHANGED <<xmodem, blockNr, down>> /\ xmodem
      /\ Contains(TextOf(n), "NAK")
  BY DEF Resend
<1>3. /\ \A G : HowMany(up', G) <= HowMany(up, G)
      /\ Answered /\ \A G : "NAK" \in G => HowMany(up', G) + 1 <= HowMany(up, G)
  BY <1>1, <1>2, ChunkTakes DEF Answers
<1>4. Replies' + 1 <= Replies /\ Acks' <= Acks /\ Presses' <= Presses
  BY <1>3 DEF Replies, Acks, Presses, Answers
<1>5. /\ Replies \in Nat /\ Acks \in Nat /\ Replies' \in Nat /\ Acks' \in Nat
      /\ hurries \in Nat /\ blockNr \in Nat /\ expect \in Nat
      /\ (\A D : OnTheWay(D) \in Nat) /\ (\A D : OnTheWay(D)' \in Nat)
  BY <1>1, CountTypes, CountTypesNext
<1>6. blockNr' >= 1 /\ Numbered /\ SendBlock(blockNr')
  BY <1>2 DEF InStep
<1>7. /\ \A D : /\ OnTheWay(D)' <= OnTheWay(D) + 1
                /\ blockNr' \notin D => OnTheWay(D)' <= OnTheWay(D)
      /\ Numbered'
  BY <1>1, <1>2, <1>6, Sends
<1>8. Bounded'
  <2>1. Bounded /\ hurries' = hurries + 0 /\ 0 \in {0, 1} /\ expect' >= expect
    BY <1>5 DEF InStep
  <2>2. Replies' + OnTheWay(Nat)' <= Replies + OnTheWay(Nat) + 0
    <3>1. /\ OnTheWay(Nat)' <= OnTheWay(Nat) + 1
          /\ OnTheWay(Nat) \in Nat /\ OnTheWay(Nat)' \in Nat
      BY <1>5, <1>7
    <3> DEFINE o == OnTheWay(Nat)
               o1 == OnTheWay(Nat)'
    <3> HIDE DEF o, o1
    <3>2. o1 <= o + 1 /\ o \in Nat /\ o1 \in Nat
      BY <3>1 DEF o, o1
    <3>3. Replies' + o1 <= Replies + o + 0
      <4>1. Replies \in Nat /\ Replies' \in Nat /\ Replies' + 1 <= Replies
        BY <1>4, <1>5
      <4>2. QED
        BY <3>2, <4>1, Exchanged
    <3>4. QED
      BY <3>3 DEF o, o1
  <2>3. ASSUME NEW x \in expect' .. blockNr
        PROVE  Acks' + OnTheWay(0 .. x - 1)' <= Acks + OnTheWay(0 .. x - 1) + 0
    <3> DEFINE D == 0 .. x - 1
    <3>1. blockNr' \notin D
      BY <1>2, <1>5
    <3> HIDE DEF D
    <3>2. OnTheWay(D)' <= OnTheWay(D) /\ OnTheWay(D) \in Nat /\ OnTheWay(D)' \in Nat
      BY <1>5, <1>7, <3>1
    <3>3. Acks' + OnTheWay(D)' <= Acks + OnTheWay(D) + 0
      BY <1>4, <1>5, <3>2
    <3>4. QED
      BY <3>3 DEF D
  <2>4. QED
    BY <1>1, <1>2, <2>1, <2>2, <2>3, BoundedKept
<1>9. blockNr' >= blockNr
  BY <1>2, <1>5
<1> QED
  BY <1>2, <1>3, <1>4, <1>7, <1>8, <1>9, EarlyAnswered

\* The next block is sent, or the end.
LEMMA EarlyAdvance ==
  ASSUME TypeInv, TypeInv', InStep, NEW n \in 1 .. Len(up), up' = RestOf(n),
         UNCHANGED <<mode, expect, got, stored, hurries>>, Advance(TextOf(n))
  PROVE  InStep'
<1>1. TypeOK /\ TypeOK' /\ Unprompted
  BY DEF TypeInv
<1>2. /\ ring' = <<>> /\ xmodem' = xmodem /\ blockNr' = blockNr + 1
      /\ \/ SendBlock(blockNr') /\ down' = down
         \/ writers' = writers /\ down' = Append(down, Byte("EOT"))
      /\ Contains(TextOf(n), "ACK")
  BY DEF Advance
<1>3. /\ \A G : HowMany(up', G) <= HowMany(up, G)
      /\ Answered /\ \A G : "ACK" \in G => HowMany(up', G) + 1 <= HowMany(up, G)
  BY <1>1, <1>2, ChunkTakes DEF Answers
<1>4. Replies' + 1 <= Replies /\ Acks' + 1 <= Acks /\ Presses' <= Presses
  BY <1>3 DEF Replies, Acks, Presses, Answers
<1>5. /\ Replies \in Nat /\ Acks \in Nat /\ Replies' \in Nat /\ Acks' \in Nat
      /\ hurries \in Nat /\ blockNr \in Nat /\ expect \in Nat
      /\ (\A D : OnTheWay(D) \in Nat) /\ (\A D : OnTheWay(D)' \in Nat)
  BY <1>1, CountTypes, CountTypesNext
<1>6. blockNr' >= 1 /\ Numbered /\ Bounded
  BY <1>2, <1>5 DEF InStep
<1>7. /\ \A D : /\ OnTheWay(D)' <= OnTheWay(D) + 1
                /\ blockNr' \notin D => OnTheWay(D)' <= OnTheWay(D)
      /\ Numbered'
  BY <1>1, <1>2, <1>6, Sends
<1>8. SUFFICES Bounded'
  <2>1. blockNr' >= blockNr
    BY <1>2, <1>5
  <2>2. QED
    BY <1>2, <1>3, <1>4, <1>7, <1>8, <2>1, EarlyAnswered
<1>9. SUFFICES ASSUME mode = "recv"
               PROVE  /\ Replies' + OnTheWay(Nat)' <= 1 + hurries
                      /\ \A x \in expect .. blockNr + 1 :
                           (blockNr + 1) + Acks' + OnTheWay(0 .. x - 1)' <= x + hurries
  BY <1>2 DEF Bounded
<1>10. Replies + OnTheWay(Nat) <= 1 + hurries
  BY <1>6, <1>9 DEF Bounded
<1>11. Replies' + OnTheWay(Nat)' <= 1 + hurries
  <2>1. /\ OnTheWay(Nat)' <= OnTheWay(Nat) + 1
        /\ OnTheWay(Nat) \in Nat /\ OnTheWay(Nat)' \in Nat
    BY <1>5, <1>7
  <2> DEFINE o == OnTheWay(Nat)
             o1 == OnTheWay(Nat)'
  <2> HIDE DEF o, o1
  <2>2. o1 <= o + 1 /\ o \in Nat /\ o1 \in Nat /\ Replies + o <= 1 + hurries
    BY <1>10, <2>1 DEF o, o1
  <2>3. \A m \in Nat : Replies + o <= m => Replies' + o1 <= m
    <3>1. Replies \in Nat /\ Replies' \in Nat /\ Replies' + 1 <= Replies
      BY <1>4, <1>5
    <3>2. o \in Nat /\ o1 \in Nat /\ o1 <= o + 1
      BY <2>2
    <3>3. QED
      BY <3>1, <3>2, Exchanged
  <2>4. 1 + hurries \in Nat
    BY <1>5
  <2>5. Replies' + o1 <= 1 + hurries
    BY <2>2, <2>3, <2>4
  <2>6. QED
    BY <2>5 DEF o1
<1>12. ASSUME NEW x \in expect .. blockNr + 1
       PROVE  (blockNr + 1) + Acks' + OnTheWay(0 .. x - 1)' <= x + hurries
  <2> DEFINE D == 0 .. x - 1
             o == OnTheWay(D)
             o1 == OnTheWay(D)'
  <2>1. x \in Nat /\ blockNr' \notin D /\ D \in SUBSET Nat
    BY <1>2, <1>5
  <2>2. o1 <= o /\ o \in Nat /\ o1 \in Nat
    BY <1>5, <1>7, <2>1
  <2>3. CASE x \in expect .. blockNr
    <3>1. blockNr + Acks + o <= x + hurries
      BY <1>6, <1>9, <2>3 DEF Bounded
    <3> HIDE DEF o, o1
    <3>2. (blockNr + 1) + Acks' + o1 <= x + hurries
      BY <1>4, <1>5, <2>1, <2>2, <3>1, Traded
    <3>3. QED
      BY <3>2 DEF o1
  <2>4. CASE x = blockNr + 1
    <3>1. Acks <= Replies /\ o <= OnTheWay(Nat) /\ OnTheWay(Nat) \in Nat
      BY <1>1, <1>5, <2>1, CountsGrow
    <3> DEFINE all == OnTheWay(Nat)
    <3> HIDE DEF o, o1, all
    <3>2. o <= all /\ all \in Nat /\ Replies + all <= 1 + hurries
      BY <1>10, <3>1 DEF all
    <3>3. (blockNr + 1) + Acks' + o1 <= (blockNr + 1) + hurries
      BY <1>4, <1>5, <2>2, <3>1, <3>2, NewBound
    <3>4. (blockNr + 1) + Acks' + o1 <= x + hurries
      BY <2>4, <3>3
    <3>5. QED
      BY <3>4 DEF o1
  <2>5. QED
    BY <1>5, <2>3, <2>4
<1> QED
  BY <1>11, <1>12

\* The main loop.
LEMMA EarlyReadUart == TypeInv /\ TypeInv' /\ InStep /\ ReadUart => InStep'
<1> SUFFICES ASSUME TypeInv, TypeInv', InStep, NEW n \in 1 .. Len(up), up' = RestOf(n),
                    UNCHANGED <<run, boardVars, pastVars>>,
                    \/ Begin(TextOf(n)) \/ Resend(TextOf(n))
                    \/ Advance(TextOf(n)) \/ Listen(TextOf(n))
             PROVE  InStep'
  BY DEF ReadUart, TextOf, RestOf
<1>1. UNCHANGED <<mode, expect, got, stored, hurries>>
  BY DEF boardVars, pastVars
<1> QED
  BY <1>1, EarlyBegin, EarlyResend, EarlyAdvance, EarlyListen

-----------------------------------------------------------------------------

\* No step brings the board back into the time before it was too often in a hurry.
LEMMA EarlyBefore == Typed /\ Typed' /\ [Next]_vars /\ Early' => Early /\ ~ResetBoard
<1> SUFFICES ASSUME Typed, Typed', [Next]_vars, Early' PROVE Early /\ ~ResetBoard
  OBVIOUS
<1> USE DEF hostVars, lineVars, boardVars, pastVars
<1>1. /\ resets \in Nat /\ hurries \in Nat /\ Wrap \in Nat
      /\ stored \in Seq(Nat) /\ Len(stored) \in Nat /\ Len(stored') \in Nat
  <2>1. resets \in Nat /\ hurries \in Nat /\ Wrap \in Nat /\ stored \in Seq(Nat)
    BY XmodemAssumption DEF Typed, TypeOK
  <2>2. stored' \in Seq(Nat)
    BY DEF Typed, TypeOK
  <2>3. QED
    BY <2>1, <2>2
<1>2. ~ResetBoard
  BY <1>1 DEF ResetBoard, Early
<1>3. resets' = resets /\ hurries' \in {hurries, hurries + 1}
  BY <1>2 DEF Next, vars, ReadUart, ReadStdin, Write, WritePiece, Interrupt, Board, Boot,
       StopAutoboot, Ignore, SkipByte, ReceiveByte, Autoboot, TimeOut, Disturb, HurryIf
<1>4. Len(stored) <= Len(stored')
  <2>1. CASE ReceiveByte
    <3>1. stored' = stored \/ \E d : stored' = Append(stored, d)
      BY <2>1 DEF ReceiveByte
    <3>2. ASSUME NEW d, stored' = Append(stored, d) PROVE Len(stored) <= Len(stored')
      <4> DEFINE S == Nat \cup {d}
      <4>1. stored \in Seq(S) /\ d \in S
        BY <1>1
      <4> HIDE DEF S
      <4>2. Len(stored') = Len(stored) + 1
        BY <3>2, <4>1, Appended
      <4>3. QED
        BY <1>1, <4>2
    <3>3. QED
      BY <1>1, <3>1, <3>2
  <2>2. CASE ~ReceiveByte
    <3>1. stored' = stored
      BY <1>2, <2>2 DEF Next, vars, ReadUart, ReadStdin, Write, WritePiece, Interrupt, Board, Boot,
         StopAutoboot, Ignore, SkipByte, Autoboot, TimeOut, Disturb
    <3>2. QED
      BY <1>1, <3>1
  <2>3. QED
    BY <2>1, <2>2
<1>5. Early
  <2>1. resets' = 0 /\ hurries' + 1 < Wrap /\ Len(stored') < Wrap
    BY DEF Early
  <2>2. hurries + 1 < Wrap
    <3>1. hurries \in Nat /\ Wrap \in Nat /\ hurries' + 1 < Wrap /\ hurries' \in {hurries, hurries + 1}
      BY <1>1, <1>3, <2>1
    <3>2. CASE hurries' = hurries
      BY <3>1, <3>2
    <3>3. CASE hurries' = hurries + 1
      BY <3>1, <3>3
    <3>4. QED
      BY <3>1, <3>2, <3>3
  <2>3. Len(stored) < Wrap
    BY <1>1, <1>4, <2>1
  <2>4. Plain
    BY TypedGrows DEF Early, Plain
  <2>5. QED
    BY <1>3, <2>1, <2>2, <2>3, <2>4 DEF Early
<1> QED
  BY <1>2, <1>5

\* At the beginning nothing is on its way.
LEMMA EarlyInit == Init => InStep
<1> SUFFICES ASSUME Init PROVE InStep
  OBVIOUS
<1>1. Len(<<>>) = 0
  OBVIOUS
<1>2. /\ xmodem = FALSE /\ blockNr = 0 /\ writers = <<>> /\ ring = <<>> /\ down = <<>> /\ up = <<>>
      /\ mode = "boot" /\ expect = 1 /\ got = <<>> /\ stored = <<>>
  BY DEF Init
<1>3. Numbered /\ StoredSoFar /\ Opened /\ Bounded
  BY <1>1, <1>2 DEF Numbered, Held, Brought, StoredSoFar, Opened, Bounded
<1>4. Presses = 0 /\ ~PressInRing
  BY <1>1, <1>2, NoneInEmpty DEF Presses, PressInRing
<1>5. Idle
  BY <1>1, <1>2 DEF Idle, InDown, Answered, HasUp
<1> QED
  BY <1>2, <1>3, <1>4, <1>5 DEF InStep, PressOnce

\* Every step keeps the board in step.
LEMMA EarlyStep == Typed /\ Typed' /\ JInv /\ [Next]_vars => JInv'
<1> SUFFICES ASSUME Typed, Typed', JInv, [Next]_vars, Early' PROVE InStep'
  BY DEF JInv
<1>1. Early /\ InStep /\ ~ResetBoard /\ TypeInv /\ TypeInv'
  BY EarlyBefore, PlainStep DEF JInv, Early
<1>2. CASE ReadUart
  BY <1>1, <1>2, EarlyReadUart
<1>3. CASE Write
  BY <1>1, <1>3, EarlyWrite
<1>4. CASE Boot
  BY <1>1, <1>4, EarlyBoot
<1>5. CASE StopAutoboot
  <2>1. mode' \in {"wait", "recv"}
    BY <1>5 DEF StopAutoboot
  <2>2. QED
    BY <1>1, <1>5, <2>1, EarlyQuiet, EarlyStart
<1>6. CASE SkipByte
  <2>1. mode' \in {"recv", "done"}
    BY <1>6 DEF SkipByte
  <2>2. QED
    BY <1>1, <1>6, <2>1, EarlyQuiet, EarlyEnd
<1>7. CASE ReceiveByte
  BY <1>1, <1>7, EarlyReceive
<1>8. CASE TimeOut
  BY <1>1, <1>8, EarlyTimeOut
<1>9. CASE Disturb
  BY <1>1, <1>9, EarlyDisturb
<1>10. CASE ReadStdin \/ Interrupt \/ Ignore \/ Autoboot \/ UNCHANGED vars
  BY <1>1, <1>10, EarlyQuiet
<1> QED
  BY <1>1, <1>2, <1>3, <1>4, <1>5, <1>6, <1>7, <1>8, <1>9, <1>10 DEF Next, Board

\* So it is at all times.
LEMMA InStepInvariant == Spec => []JInv
<1>1. Init => JInv
  BY EarlyInit DEF JInv
<1>2. Typed /\ Typed' /\ JInv /\ [Next]_vars => JInv'
  BY EarlyStep
<1> QED
  BY <1>1, <1>2, TypeInvariant, PTL DEF Spec

-----------------------------------------------------------------------------
(* A Ctrl-D from the keyboard ends the transfer behind the tool's back.  What *)
(* the tool has still to hear does not take it past the end of the file.     *)

\* A Ctrl-D on the line was typed.
Pressed == InDown({"^D"}) => "^D" \in typed

NaksFirst == \A i, j \in 1 .. Len(up) : up[i] = "NAK" /\ up[j] = "ACK" => i < j

EndedEarly ==
  /\ mode = "done" /\ "^D" \in typed /\ StoredSoFar /\ NaksFirst
  /\ "EOT" \notin lost =>
       /\ \A i \in 1 .. Len(writers) : writers[i].packet.data <= LastBlock
       /\ HasUp({"NAK"}) => blockNr <= LastBlock

IInv == Pressed /\ (hurries = 0 /\ Plain => OneAtATime \/ EndedEarly)

\* Nobody but the keyboard sends it.
LEMMA PressedStep == TypeOK /\ TypeOK' /\ Pressed /\ [Next]_vars => Pressed'
<1> SUFFICES ASSUME TypeOK, TypeOK', Pressed, [Next]_vars PROVE Pressed'
  OBVIOUS
<1>1. typed \subseteq typed'
  BY TypedGrows
<1>2. ASSUME InDown({"^D"})' => InDown({"^D"}) PROVE Pressed'
  BY <1>1, <1>2 DEF Pressed
<1>3. ASSUME NEW c \in {"X", "EOT", "junk"}, down' = Append(down, Byte(c))
      PROVE  InDown({"^D"})' => InDown({"^D"})
  <2>1. Byte(c) \in Lines /\ Byte(c).kind = c /\ c # "piece" /\ c \notin {"^D"}
    BY DEF Byte, Lines, Signals
  <2>2. QED
    BY <1>3, <2>1, LineGrows
<1>4. CASE ReadStdin
  <2>1. PICK key \in {"junk"} \cup Keys :
          down' = Append(down, Byte(key)) /\ typed' = typed \cup ({key} \cap Keys)
    BY <1>4 DEF ReadStdin
  <2>2. CASE key = "^D"
    BY <2>1, <2>2 DEF Pressed, Keys
  <2>3. CASE key # "^D"
    BY <1>2, <1>3, <2>1, <2>3 DEF Keys
  <2>4. QED
    BY <2>2, <2>3
<1>5. CASE ReadUart
  <2>1. down' = down \/ down' = Append(down, Byte("X")) \/ down' = Append(down, Byte("EOT"))
    BY <1>5 DEF ReadUart, Begin, Resend, Advance, Listen
  <2>2. QED
    BY <1>2, <1>3, <2>1, LineStays
<1>6. CASE Write
  <2>1. PICK m \in 1 .. Len(writers) : WritePiece(m)
    BY <1>6 DEF Write
  <2>2. /\ down' \in Seq(Lines) /\ Len(down) <= Len(down')
        /\ \A j \in 1 .. Len(down) : down'[j] = down[j]
        /\ \A j \in Len(down) + 1 .. Len(down') : down'[j].kind = "piece"
    BY <2>1, PiecesGo
  <2>3. \A j \in 1 .. Len(down') : j \in 1 .. Len(down) \/ j \in Len(down) + 1 .. Len(down')
    BY <2>2 DEF TypeOK
  <2>4. InDown({"^D"})' => InDown({"^D"})
    BY <2>2, <2>3 DEF InDown
  <2>5. QED
    BY <1>2, <2>4
<1>7. CASE Disturb
  <2>1. down \in Seq(Lines) /\ Byte("junk").kind = "junk"
    BY DEF TypeOK, Lines, Byte
  <2>2. CASE down' = down
    BY <1>2, <2>2, LineStays
  <2>3. CASE down # <<>> /\ \E c \in {<<>>, <<Byte("junk")>>} : down' = c \o Tail(down)
    <3>0. PICK c \in {<<>>, <<Byte("junk")>>} : down' = c \o Tail(down)
      BY <2>3
    <3>1. \A i \in 1 .. Len(down') : \/ down'[i] = Byte("junk")
                                    \/ (i \in 1 .. Len(down) /\ down'[i] = down[i])
                                    \/ (i + 1 \in 1 .. Len(down) /\ down'[i] = down[i + 1])
      BY <2>1, <2>3, <3>0, DownDisturbed
    <3>2. InDown({"^D"})' => InDown({"^D"})
      BY <2>1, <3>1 DEF InDown
    <3>3. QED
      BY <1>2, <3>2
  <2>4. QED
    BY <1>7, <2>2, <2>3 DEF Disturb
<1>8. CASE Interrupt \/ Board \/ Autoboot \/ TimeOut \/ ResetBoard \/ UNCHANGED vars
  <2>1. down' = down \/ (down # <<>> /\ down' = Tail(down)) \/ down' = <<>>
    BY <1>8 DEF Interrupt, Board, Boot, StopAutoboot, Ignore, SkipByte, ReceiveByte, Autoboot, TimeOut,
                ResetBoard, vars, lineVars
  <2>2. down' = <<>> => ~InDown({"^D"})'
    BY DEF InDown
  <2>3. QED
    BY <1>2, <2>1, <2>2, LineStays, LineShrinks
<1> QED
  BY <1>4, <1>5, <1>6, <1>7, <1>8 DEF Next

\* The board takes a Ctrl-D for the end.
LEMMA CutShort ==
  TypeInv /\ OneAtATime /\ Pressed /\ SkipByte /\ Head(down).kind = "^D" => EndedEarly'
<1> SUFFICES ASSUME TypeInv, OneAtATime, Pressed, SkipByte, Head(down).kind = "^D" PROVE EndedEarly'
  OBVIOUS
<1>1. /\ mode = "recv" /\ mode' = "done" /\ down # <<>> /\ down' = Tail(down)
      /\ up' = Append(up, "ACK")
      /\ UNCHANGED <<writers, blockNr, expect, stored, typed, lost>>
  BY DEF SkipByte, Ends, hostVars, pastVars
<1>2. "^D" \in typed'
  <2>1. InDown({"^D"})
    BY <1>1, LineShrinks DEF TypeInv
  <2>2. QED
    BY <1>1, <2>1 DEF Pressed
<1>3. StoredSoFar'
  BY <1>1 DEF OneAtATime, StoredSoFar
<1>4. /\ Len(up') = Len(up) + 1 /\ Len(up) \in Nat
      /\ \A i \in 1 .. Len(up) : up'[i] = up[i]
      /\ up'[Len(up) + 1] = "ACK"
      /\ \A i \in 1 .. Len(up') : i \in 1 .. Len(up) \/ i = Len(up) + 1
  <2>1. up \in Seq(Text) /\ "ACK" \in Text
    BY DEF TypeInv, TypeOK, Text, Answers
  <2>2. QED
    BY <1>1, <2>1, Appended
<1>5. NaksFirst'
  <2> SUFFICES ASSUME NEW i \in 1 .. Len(up'), NEW j \in 1 .. Len(up'), up'[i] = "NAK", up'[j] = "ACK"
               PROVE  i < j
    BY DEF NaksFirst
  <2>1. i \in 1 .. Len(up) /\ up[i] = "NAK"
    BY <1>4
  <2>2. i = Len(up)
    BY <2>1 DEF OneAtATime, AnswersEnd, Answers
  <2>3. j = Len(up) + 1
    <3>1. ASSUME j \in 1 .. Len(up) PROVE FALSE
      <4>1. up[j] = "ACK" /\ j = Len(up)
        BY <1>4, <3>1 DEF OneAtATime, AnswersEnd, Answers
      <4>2. QED
        BY <2>1, <2>2, <4>1
    <3>2. QED
      BY <1>4, <3>1
  <2>4. QED
    BY <1>4, <2>2, <2>3
<1>6. "EOT" \notin lost /\ ~InDown({"EOT"}) => ~(blockNr > LastBlock)
  BY <1>1 DEF OneAtATime, Receiving
<1>7. blockNr \in Nat /\ LastBlock \in Nat
  BY LastBlockIs DEF TypeInv, TypeOK
<1>8. ASSUME "EOT" \notin lost, NEW i \in 1 .. Len(writers) PROVE writers[i].packet.data <= LastBlock
  <2>1. Len(writers) \in Nat /\ Len(writers) <= 1 /\ Len(<<>>) = 0
    BY DEF TypeInv, TypeOK, OneAtATime, OneBlock
  <2>2. i = 1 /\ writers # <<>>
    BY <2>1, OneOfOne
  <2>3. writers[1].packet.data = blockNr /\ ~InDown({"EOT"})
    BY <2>2 DEF OneAtATime, OneBlock, Packet, Ending
  <2>4. QED
    BY <1>6, <1>7, <1>8, <2>2, <2>3
<1>9. ASSUME "EOT" \notin lost, HasUp({"NAK"})' PROVE blockNr <= LastBlock
  <2>1. Answered
    BY <1>4, <1>9 DEF HasUp, Answered, Answers
  <2>2. ~InDown({"EOT"})
    BY <2>1, Parts DEF OneAtATime, AnswerAlone, Quiet
  <2>3. QED
    BY <1>6, <1>7, <1>9, <2>2
<1> QED
  BY <1>1, <1>2, <1>3, <1>5, <1>8, <1>9 DEF EndedEarly

\* The tool hears the last of it.
LEMMA EndedReadUart == TypeInv /\ EndedEarly /\ ReadUart => EndedEarly'
<1> SUFFICES ASSUME TypeInv, EndedEarly, NEW n \in 1 .. Len(up), up' = RestOf(n),
                    UNCHANGED <<run, boardVars, pastVars>>,
                    \/ Begin(TextOf(n)) \/ Resend(TextOf(n))
                    \/ Advance(TextOf(n)) \/ Listen(TextOf(n))
             PROVE  EndedEarly'
  BY DEF ReadUart, TextOf, RestOf
<1> DEFINE text == TextOf(n)
<1>1. /\ Len(up) \in Nat /\ n \in Nat /\ Len(up') = Len(up) - n
      /\ \A i \in 1 .. Len(up) - n : up'[i] = up[i + n]
      /\ \A i \in 1 .. Len(text) : \/ \E j \in 1 .. Len(ring) : text[i] = ring[j]
                                   \/ \E j \in 1 .. n : text[i] = up[j]
  <2>1. TypeOK /\ Len(up) \in Nat /\ n \in Nat
    BY DEF TypeInv, TypeOK
  <2>2. QED
    BY <2>1, ChunkIs
<1>2. \A i \in 1 .. Len(up') : i \in Nat /\ i + n \in 1 .. Len(up) /\ up'[i] = up[i + n]
  BY <1>1
<1>3. ASSUME NEW c \in Answers, Contains(text, c) PROVE \E j \in 1 .. n : up[j] = c
  <2>1. PICK i \in 1 .. Len(text) : text[i] = c
    BY <1>3 DEF Contains
  <2>2. \A j \in 1 .. Len(ring) : ring[j] # c
    BY DEF TypeInv, Unprompted
  <2>3. QED
    BY <1>1, <2>1, <2>2
<1> HIDE DEF text
<1>4. Begin(text) \/ Resend(text) \/ Advance(text) \/ Listen(text)
  BY DEF text
<1>5. HasUp({"NAK"})' => HasUp({"NAK"})
  BY <1>2 DEF HasUp
<1>6. NaksFirst'
  <2> SUFFICES ASSUME NEW i \in 1 .. Len(up'), NEW j \in 1 .. Len(up'), up'[i] = "NAK", up'[j] = "ACK"
               PROVE  i < j
    BY DEF NaksFirst
  <2>1. i + n < j + n
    BY <1>2 DEF EndedEarly, NaksFirst
  <2>2. i \in Nat /\ j \in Nat /\ n \in Nat
    BY <1>1, <1>2
  <2>3. QED
    BY <2>1, <2>2
<1>7. mode' = "done" /\ "^D" \in typed' /\ StoredSoFar' /\ lost' = lost
  BY DEF EndedEarly, StoredSoFar, boardVars, pastVars
<1>8. blockNr \in Nat /\ LastBlock \in Nat \ {0} /\ writers \in Seq(Writers) /\ 1 <= LastBlock
  BY LastBlockIs DEF TypeInv, TypeOK, Writers
<1>9. ASSUME NEW b \in Nat, SendBlock(b), b <= LastBlock, NEW i \in 1 .. Len(writers'),
             \A k \in 1 .. Len(writers) : writers[k].packet.data <= LastBlock
      PROVE  writers'[i].packet.data <= LastBlock
  <2> DEFINE v == [packet |-> Packet(b), sent |-> 0]
  <2>1. v \in Writers /\ v.packet.data = b
    <3>1. Packet(b) \in Packets /\ Packet(b).data = b
      BY PacketType DEF Packet
    <3>2. QED
      BY <3>1, XmodemAssumption DEF Writers
  <2>2. writers' = Append(writers, v)
    BY <1>9 DEF SendBlock
  <2> HIDE DEF v
  <2>3. /\ \A k \in 1 .. Len(writers) : writers'[k] = writers[k]
        /\ writers'[Len(writers) + 1] = v
        /\ \A k \in 1 .. Len(writers') : k \in 1 .. Len(writers) \/ k = Len(writers) + 1
    BY <1>8, <2>1, <2>2, Appended
  <2>4. QED
    BY <1>9, <2>1, <2>3
<1>10. ASSUME "EOT" \notin lost
       PROVE  /\ \A i \in 1 .. Len(writers') : writers'[i].packet.data <= LastBlock
              /\ HasUp({"NAK"})' => blockNr' <= LastBlock
  <2>1. /\ \A i \in 1 .. Len(writers) : writers[i].packet.data <= LastBlock
        /\ HasUp({"NAK"}) => blockNr <= LastBlock
    BY <1>10 DEF EndedEarly
  <2>2. CASE Begin(text)
    BY <1>8, <2>1, <2>2 DEF Begin
  <2>3. CASE Resend(text)
    <3>1. SendBlock(blockNr) /\ blockNr' = blockNr /\ Contains(text, "NAK")
      BY <2>3 DEF Resend
    <3>2. PICK j \in 1 .. n : up[j] = "NAK"
      BY <1>3, <3>1 DEF Answers
    <3>3. HasUp({"NAK"})
      BY <1>1, <3>2 DEF HasUp
    <3>4. blockNr <= LastBlock
      BY <2>1, <3>3
    <3>5. QED
      BY <1>8, <1>9, <2>1, <3>1, <3>4
  <2>4. CASE Advance(text)
    <3>1. Contains(text, "ACK")
      BY <2>4 DEF Advance
    <3>2. PICK j \in 1 .. n : up[j] = "ACK"
      BY <1>3, <3>1 DEF Answers
    <3>3. ~HasUp({"NAK"})'
      <4> SUFFICES ASSUME NEW i \in 1 .. Len(up'), up'[i] = "NAK" PROVE FALSE
        BY DEF HasUp
      <4>1. i + n \in 1 .. Len(up) /\ up[i + n] = "NAK" /\ j \in 1 .. Len(up) /\ i \in Nat
        BY <1>1, <1>2
      <4>2. i + n < j
        BY <3>2, <4>1 DEF EndedEarly, NaksFirst
      <4>3. i \in 1 .. Len(up') /\ n \in Nat /\ j <= n
        BY <1>1, <3>2
      <4>4. QED
        BY <4>1, <4>2, <4>3
    <3>4. CASE PastEnd(blockNr + 1)
      BY <2>1, <2>4, <3>3, <3>4 DEF Advance
    <3>5. CASE ~PastEnd(blockNr + 1)
      <4>1. SendBlock(blockNr + 1) /\ blockNr + 1 \in Nat /\ blockNr + 1 <= LastBlock
        BY <1>8, <2>4, <3>5, LastBlockIs, XmodemAssumption DEF Advance, PastEnd
      <4>2. QED
        BY <1>9, <2>1, <3>3, <4>1
    <3>6. QED
      BY <3>4, <3>5
  <2>5. CASE Listen(text)
    BY <1>5, <2>1, <2>5 DEF Listen
  <2>6. QED
    BY <1>4, <2>2, <2>3, <2>4, <2>5
<1> QED
  BY <1>6, <1>7, <1>10 DEF EndedEarly

\* The rest changes nothing, and a reset begins from the beginning.
LEMMA EndedStep ==
  TypeInv /\ TypeInv' /\ EndedEarly /\ hurries = 0 /\ hurries' = 0 /\ [Next]_vars
    => OneAtATime' \/ EndedEarly'
<1> SUFFICES ASSUME TypeInv, TypeInv', EndedEarly, hurries = 0, hurries' = 0, [Next]_vars
             PROVE  OneAtATime' \/ EndedEarly'
  OBVIOUS
<1>1. ASSUME UNCHANGED <<mode, expect, stored, blockNr, up>>, "^D" \in typed',
             "EOT" \notin lost' => "EOT" \notin lost,
             \A i \in 1 .. Len(writers') :
               \E j \in 1 .. Len(writers) : writers'[i].packet = writers[j].packet
      PROVE  EndedEarly'
  <2>1. StoredSoFar' /\ NaksFirst' /\ (HasUp({"NAK"})' => HasUp({"NAK"}))
    BY <1>1, TextStays DEF EndedEarly, StoredSoFar, NaksFirst
  <2>2. QED
    BY <1>1, <2>1 DEF EndedEarly
<1>2. "^D" \in typed'
  BY TypedGrows DEF EndedEarly
<1>3. CASE ReadUart
  BY <1>3, EndedReadUart
<1>4. CASE ReadStdin \/ Ignore \/ UNCHANGED vars
  <2>1. UNCHANGED <<mode, expect, stored, blockNr, up, lost, writers>>
    BY <1>4 DEF ReadStdin, Ignore, vars, hostVars, lineVars, boardVars, pastVars
  <2>2. QED
    BY <1>1, <1>2, <2>1
<1>5. CASE Write
  <2>1. PICK m \in 1 .. Len(writers) : WritePiece(m)
    BY <1>5 DEF Write
  <2>2. UNCHANGED <<mode, expect, stored, blockNr, up, lost>>
    BY <2>1 DEF WritePiece, boardVars, pastVars
  <2>3. \A i \in 1 .. Len(writers') :
          \E j \in 1 .. Len(writers) : writers'[i].packet = writers[j].packet
    <3>1. writers \in Seq(Writers)
      BY DEF TypeInv, TypeOK, Writers
    <3>2. CASE writers' = RemoveAt(writers, m)
      BY <3>1, <3>2, OneRemoved
    <3>3. CASE \E n \in 1 .. Pieces - 1 : writers' = [writers EXCEPT ![m].sent = n]
      BY <3>1, <3>3, ThreadGoes
    <3>4. QED
      BY <2>1, <3>2, <3>3, PiecesGo DEF TypeInv
  <2>4. QED
    BY <1>1, <1>2, <2>2, <2>3
<1>6. CASE Interrupt
  <2>1. UNCHANGED <<mode, expect, stored, blockNr, up, lost>> /\ writers' = <<>>
    BY <1>6 DEF Interrupt, lineVars, boardVars, pastVars
  <2>2. QED
    BY <1>1, <1>2, <2>1
<1>7. CASE ResetBoard
  BY <1>7, OneReset
<1>8. CASE Disturb
  <2>1. /\ UNCHANGED <<mode, expect, stored, blockNr, writers>>
        /\ "EOT" \notin lost' => "EOT" \notin lost
    BY <1>8 DEF Disturb, hostVars, boardVars
  <2>2. CASE up' = up
    BY <1>1, <1>2, <2>1, <2>2
  <2>3. CASE up # <<>> /\ \E c \in {<<>>, <<"text">>} : up' = c \o Tail(up)
    <3>1. PICK c \in {<<>>, <<"text">>} : up' = c \o Tail(up)
      BY <2>3
    <3>u. up \in Seq(Text)
      BY DEF TypeInv, TypeOK
    <3>2. \A i \in 1 .. Len(up') : \/ up'[i] = "text"
                                  \/ (i \in 1 .. Len(up) /\ c = <<"text">> /\ up'[i] = up[i])
                                  \/ (i + 1 \in 1 .. Len(up) /\ c = <<>> /\ up'[i] = up[i + 1])
      BY <2>3, <3>u, <3>1, UpDisturbed
    <3>3. c # <<>> \/ c # <<"text">>
      <4>1. Len(<<>>) = 0 /\ Len(<<"text">>) = 1
        OBVIOUS
      <4>2. QED
        BY <4>1
    <3>4. HasUp({"NAK"})' => HasUp({"NAK"})
      BY <3>2 DEF HasUp
    <3>5. NaksFirst'
      <4> SUFFICES ASSUME NEW i \in 1 .. Len(up'), NEW j \in 1 .. Len(up'), up'[i] = "NAK", up'[j] = "ACK"
                   PROVE  i < j
        BY DEF NaksFirst
      <4>1. CASE c = <<>>
        <5>1. i + 1 \in 1 .. Len(up) /\ j + 1 \in 1 .. Len(up) /\ up[i + 1] = "NAK" /\ up[j + 1] = "ACK"
          BY <3>2, <3>3, <4>1
        <5>2. i + 1 < j + 1
          BY <5>1 DEF EndedEarly, NaksFirst
        <5>3. QED
          BY <5>2
      <4>2. CASE c = <<"text">>
        BY <3>2, <3>3, <4>2 DEF EndedEarly, NaksFirst
      <4>3. QED
        BY <4>1, <4>2
    <3>6. StoredSoFar'
      BY <2>1 DEF EndedEarly, StoredSoFar
    <3>7. QED
      BY <1>2, <2>1, <3>4, <3>5, <3>6 DEF EndedEarly
  <2>4. QED
    BY <1>8, <2>2, <2>3 DEF Disturb
<1>9. ~Boot /\ ~StopAutoboot /\ ~SkipByte /\ ~ReceiveByte /\ ~Autoboot /\ ~TimeOut
  BY DEF EndedEarly, Boot, StopAutoboot, SkipByte, ReceiveByte, Autoboot, TimeOut
<1> QED
  BY <1>3, <1>4, <1>5, <1>6, <1>7, <1>8, <1>9 DEF Next, Board

\* With a patient board and no X typed, one thing is on its way at a time, until a Ctrl-D.
LEMMA OneAtATimeInvariant == Spec => []IInv
<1>1. Init => IInv
  <2> SUFFICES ASSUME Init PROVE OneAtATime /\ Pressed
    BY DEF IInv
  <2>1. Len(<<>>) = 0
    OBVIOUS
  <2> USE <2>1 DEF Init
  <2>2. StoredSoFar /\ OneBlock /\ OneEOT /\ AnswersEnd
    BY DEF StoredSoFar, OneBlock, OneEOT, AnswersEnd, Carries, Ascending
  <2>3. \A K : ~InDown(K) /\ ~HasUp(K)
    BY DEF InDown, HasUp
  <2>4. AnswerAlone /\ Waiting /\ Receiving /\ Ending /\ Done /\ Pressed
    BY <2>3 DEF AnswerAlone, Answered, Waiting, Receiving, Ending, Done, Quiet, Pressed
  <2>5. QED
    BY <2>2, <2>4 DEF OneAtATime
<1>2. Typed /\ Typed' /\ IInv /\ Next => IInv'
  <2> SUFFICES ASSUME Typed, Typed', IInv, Next PROVE IInv'
    OBVIOUS
  <2>1. Pressed'
    BY PressedStep DEF Typed, IInv
  <2>2. ASSUME hurries' = 0, Plain' PROVE OneAtATime' \/ EndedEarly'
    <3>1. TypeInv /\ TypeInv' /\ Plain
      BY <2>2, PlainStep DEF TypeInv
    <3>2. hurries = 0
      <4>1. hurries \in Nat
        BY DEF Typed, TypeOK
      <4>2. hurries' = hurries \/ hurries' = hurries + 1
        BY DEF Next, Board, ReadUart, ReadStdin, Write, WritePiece, Interrupt, Boot,
               StopAutoboot, Ignore, SkipByte, ReceiveByte, Autoboot, TimeOut, ResetBoard, Disturb,
               HurryIf, pastVars
      <4>3. QED
        BY <2>2, <4>1, <4>2
    <3>3. CASE OneAtATime
      BY <2>2, <3>1, <3>2, <3>3, OneReadUart, OneReadStdin, OneWrite, OneInterrupt, OneBoot, OneSkipByte,
         CutShort, OneReceiveByte, OneDisturb DEF Next, Board, IInv
    <3>4. CASE EndedEarly
      BY <2>2, <3>1, <3>2, <3>4, EndedStep
    <3>5. QED
      BY <3>1, <3>2, <3>3, <3>4 DEF IInv
  <2>3. QED
    BY <2>1, <2>2 DEF IInv
<1>3. Typed /\ Typed' /\ IInv /\ UNCHANGED vars => IInv'
  <2> SUFFICES ASSUME Typed, Typed', IInv, UNCHANGED vars PROVE IInv'
    OBVIOUS
  <2> USE DEF vars, hostVars, lineVars, boardVars, pastVars
  <2>1. (Quiet' <=> Quiet) /\ (Prompting' <=> Prompting) /\ (StoredSoFar' <=> StoredSoFar)
    BY LineStays, TextStays DEF Quiet, Prompting, StoredSoFar
  <2>2. (OneBlock' <=> OneBlock) /\ (AnswerAlone' <=> AnswerAlone) /\ (Waiting' <=> Waiting)
    BY <2>1, LineStays, TextStays DEF OneBlock, AnswerAlone, Answered, Waiting
  <2>3. (Receiving' <=> Receiving) /\ (Ending' <=> Ending) /\ (Done' <=> Done)
    BY <2>1, LineStays, TextStays DEF Receiving, Ending, Done
  <2>4. (OneAtATime' <=> OneAtATime) /\ (Pressed' <=> Pressed) /\ (Plain' <=> Plain)
    BY <2>1, <2>2, <2>3, LineStays, TextStays DEF OneAtATime, Pressed, Plain
  <2>5. EndedEarly' <=> EndedEarly
    BY <2>1, TextStays DEF EndedEarly, NaksFirst
  <2>6. QED
    BY <2>4, <2>5 DEF IInv
<1>4. QED
  BY <1>1, <1>2, <1>3, TypeInvariant, PTL DEF Spec

\* If nobody types X or Ctrl-D, a patient board is told of the end only after it has stored
\* every block.
THEOREM EndAfterAll == Spec => []EotMeansAll
<1>1. Typed /\ IInv => EotMeansAll
  <2> SUFFICES ASSUME Typed, IInv, mode = "done", hurries = 0, typed = {}
               PROVE  Len(stored) >= Blocks
    BY DEF EotMeansAll
  <2>1. OneAtATime
    BY DEF IInv, Plain, EndedEarly
  <2>2. Len(stored) >= LastBlock /\ Len(stored) \in Nat
    BY <2>1 DEF OneAtATime, Done, Typed, TypeOK
  <2>3. QED
    BY <2>2, LastBlockIs, XmodemAssumption
<1>2. QED
  BY <1>1, TypeInvariant, OneAtATimeInvariant, PTL

\* No packet is made of what lies behind the end of the file, but for the first of a file
\* without a whole block, as long as the board is patient, nobody types X and EOT gets
\* through; a Ctrl-D from the keyboard may end the transfer at any time.
THEOREM ReadsInsideFile == Spec => []InsideFile
<1>1. Typed /\ IInv => InsideFile
  <2> SUFFICES ASSUME Typed, IInv, hurries = 0, "EOT" \notin lost, Plain, NEW m \in 1 .. Len(writers)
               PROVE  \/ writers[m].packet.data <= Blocks
                      \/ Blocks = 0 /\ writers[m].packet.data = 1
    BY DEF InsideFile, Plain
  <2>1. writers[m].packet.data <= LastBlock
    <3>1. CASE EndedEarly
      BY <3>1 DEF EndedEarly
    <3>2. CASE OneAtATime
      <4>1. Len(writers) \in Nat /\ Len(writers) <= 1 /\ blockNr \in Nat /\ LastBlock \in Nat
        BY <3>2, LastBlockIs DEF Typed, TypeOK, OneAtATime, OneBlock
      <4>2. m = 1 /\ Len(writers) = 1
        BY <4>1, OneOfOne
      <4>3. writers # <<>>
        <5>1. Len(<<>>) = 0
          OBVIOUS
        <5>2. QED
          BY <4>2, <5>1
      <4>4. writers[1].packet.data = blockNr
        BY <3>2, <4>3 DEF OneAtATime, OneBlock, Packet
      <4>5. ~InDown({"EOT"}) /\ mode = "recv"
        BY <3>2, <4>3 DEF Typed, TypeOK, OneAtATime, Ending, Waiting, Done, Quiet
      <4>6. ~(blockNr > LastBlock)
        BY <3>2, <4>5 DEF OneAtATime, Receiving
      <4>7. QED
        BY <4>1, <4>2, <4>4, <4>6
    <3>3. QED
      BY <3>1, <3>2 DEF IInv
  <2>2. writers[m].packet.data \in Nat
    <3>w. writers \in Seq(Writers) /\ Len(writers) \in Nat
      BY DEF Typed, TypeOK, Writers
    <3>e. \A w \in Seq(Writers) : \A i \in 1 .. Len(w) : w[i] \in Writers
      OBVIOUS
    <3>1. writers[m] \in [packet : Packets, sent : 0 .. Pieces - 1]
      BY <3>w, <3>e DEF Writers
    <3>2. QED
      BY <3>1 DEF Packets
  <2>3. QED
    BY <2>1, <2>2, LastBlockIs
<1>2. QED
  BY <1>1, OneAtATimeInvariant, TypeInvariant, PTL

\* Unless somebody types an X, the board stores the file block for block: a patient one
\* always, an impatient one as long as it is not reset and block numbers do not repeat.
THEOREM StoresInOrder == Spec => []StoredInOrder
<1>1. IInv /\ JInv => StoredInOrder
  <2> SUFFICES ASSUME IInv, JInv, Plain,
                      hurries = 0 \/ (resets = 0 /\ hurries + 1 < Wrap /\ Len(stored) < Wrap)
               PROVE  StoredSoFar
    BY DEF StoredInOrder, StoredSoFar, Plain
  <2>1. hurries = 0 => StoredSoFar
    BY DEF IInv, OneAtATime, EndedEarly
  <2>2. Early => StoredSoFar
    BY DEF JInv, InStep
  <2>3. QED
    BY <2>1, <2>2 DEF Early
<1> QED
  BY <1>1, OneAtATimeInvariant, InStepInvariant, PTL
=============================================================================
