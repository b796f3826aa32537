------------------------------- MODULE Packet -------------------------------
(***************************************************************************)
(* The packets of src/common/apps/modem_control/packet.c and the sums of   *)
(* crc16.c: setup_packet builds a packet, translate_packet frames it for   *)
(* the UART, the send_*_message functions write it, and untranslate_packet *)
(* takes an answer, framed the same way by the modem, out of its frame one *)
(* byte at a time.  A behaviour is one packet on its way.                  *)
(*                                                                         *)
(* Bytes are numbers, unsigned short is 16 bits wide.  A loop over bytes is *)
(* a recursive function of the round: what its variable holds after it.    *)
(* Bounds: MaxBody bytes of body from the set BodyBytes, MaxWrites calls   *)
(* of write().                                                             *)
(***************************************************************************)
EXTENDS Integers, Sequences, SequencesExt

CONSTANTS BodyBytes, MaxBody, MaxWrites

HS_PACKET_SIZE == 60 * 1024  \* the largest body that is sent

ASSUME PacketAssumption ==
  /\ BodyBytes \subseteq 0 .. 255 /\ MaxBody \in Nat /\ MaxBody <= HS_PACKET_SIZE
  /\ MaxWrites \in Nat \ {0}

Flag == 126    \* 0x7E
Escape == 125  \* 0x7D

CONNECT == 0
START_DATA == 1
MIDST_DATA == 2
END_DATA == 3
EXEC_DATA == 4
SWITCH_MODE == 13
Commands == {CONNECT, START_DATA, MIDST_DATA, END_DATA, EXEC_DATA, SWITCH_MODE}

-----------------------------------------------------------------------------
(* crc16.c.                                                                *)

\* Exclusive or of an even number with the polynomial 0x1021: its bits 12, 5
\* and 0 change.
Flip(bit, w) == IF (w \div bit) % 2 = 0 THEN w + bit ELSE w - bit
AddPolynomial(even) == Flip(4096, Flip(32, even)) + 1

\* Mutant of CrcBit: the bit that falls out is forgotten.
CrcBit_NoCarry(crc, bit) ==
  LET shifted == (crc * 2) % 65536
  IN IF bit = 1 THEN AddPolynomial(shifted) ELSE shifted

\* One round of the inner loop: shift, and add the polynomial for the bit that
\* falls out and for the bit of the data; added twice it cancels out.
CrcBit(crc, bit) ==
  LET shifted == (crc * 2) % 65536
  IN IF (crc >= 32768) # (bit = 1) THEN AddPolynomial(shifted) ELSE shifted

\* i of the inner loop: CRC_16_L_SEED (0x80), shifted until nothing is left.
Masks == <<128, 64, 32, 16, 8, 4, 2, 1>>
CrcByte(crc, byte) ==
  LET after[i \in 0 .. 8] ==
        IF i = 0 THEN crc ELSE CrcBit(after[i - 1], (byte \div Masks[i]) % 2)
  IN after[8]

\* crc after each round of the outer loop.
CrcRounds(bytes) ==
  LET crc[n \in 0 .. Len(bytes)] == IF n = 0 THEN 0 ELSE CrcByte(crc[n - 1], bytes[n])
  IN crc
crc_16_l_calc(bytes) == CrcRounds(bytes)[Len(bytes)]

\* The sum of the little-endian 16-bit words and of a last odd byte, after
\* each byte.
WordSums(bytes) ==
  LET sum[n \in 0 .. Len(bytes)] ==
        IF n = 0 THEN 0 ELSE sum[n - 1] + (IF n % 2 = 1 THEN bytes[n] ELSE 256 * bytes[n])
  IN sum
WordSum(bytes) == WordSums(bytes)[Len(bytes)]

\* Fold the carries of a 32-bit sum in twice, and complement.
Complement(sum) ==
  LET once == (sum \div 65536) + (sum % 65536)
  IN 65535 - ((once + (once \div 65536)) % 65536)

\* Mutant of boot_checksum: the odd byte is left out.
boot_checksum_Even(bytes) == Complement(WordSum(SubSeq(bytes, 1, 2 * (Len(bytes) \div 2))))

boot_checksum(bytes) == Complement(WordSum(bytes))

\* frm_chk: two words a round, then what is left.
frm_chk(bytes) ==
  LET rounds == 4 * (Len(bytes) \div 4)
  IN Complement(WordSum(SubSeq(bytes, 1, rounds)) + WordSum(SubSeq(bytes, rounds + 1, Len(bytes))))

-----------------------------------------------------------------------------
(* setup_packet.                                                           *)

BigEndian(w) == <<w \div 256, w % 256>>
LittleEndian(w) == <<w % 256, w \div 256>>

\* For the UART: type, length and body, followed by 0 for a connect, by the
\* sum of the words for a change to SPI and by the CRC for the others.
setup_uart(cmd, data) ==
  LET p == BigEndian(cmd) \o BigEndian(Len(data)) \o data
  IN p \o (CASE cmd = CONNECT -> <<0, 0>>
                  [] cmd = SWITCH_MODE -> LittleEndian(frm_chk(p))
                  [] OTHER -> BigEndian(crc_16_l_calc(p)))

\* For SPI: length, type, sum of the body and sum of those three.  Four bytes
\* of body are announced for an end, a change of mode and empty data, and four
\* zero bytes follow for an end, a change of mode and a connect.
setup_spi(cmd, data) ==
  LET length == IF cmd \in {END_DATA, SWITCH_MODE} \/ (cmd = MIDST_DATA /\ data = <<>>)
                THEN 4 ELSE Len(data)
      head == LittleEndian(length) \o LittleEndian(cmd) \o LittleEndian(boot_checksum(data))
  IN head \o LittleEndian(boot_checksum(head))
     \o (IF cmd \in {CONNECT, END_DATA, SWITCH_MODE} THEN <<0, 0, 0, 0>> ELSE data)

\* translate_packet.
Escaped(byte) ==
  CASE byte = Flag -> <<Escape, 94>>  \* 0x5E
    [] byte = Escape -> <<Escape, 93>>  \* 0x5D
    [] OTHER -> <<byte>>

\* dest after each round of its loop.
Translated(src) ==
  LET out[n \in 0 .. Len(src)] == IF n = 0 THEN <<Flag>> ELSE out[n - 1] \o Escaped(src[n])
  IN out
translate_packet(src) == Translated(src)[Len(src)] \o <<Flag>>

-----------------------------------------------------------------------------
VARIABLES
  msg, body,     \* what is sent
  packet, frame, \* setup_packet's and translate_packet's result
  left, writes, wire,  \* translated_size of the write loop, and what was written
  k, status, dest      \* untranslate_packet

vars == <<msg, body, packet, frame, left, writes, wire, k, status, dest>>

Init ==
  /\ msg \in Commands
  /\ body \in IF msg \in {START_DATA, MIDST_DATA, EXEC_DATA}
              THEN BoundedSeq(BodyBytes, MaxBody) ELSE {<<>>}
  /\ packet = setup_uart(msg, body) /\ frame = translate_packet(packet)
  /\ left = Len(frame) /\ writes = 0 /\ wire = <<>>
  /\ k = 1 /\ status = 0 /\ dest = <<>>

\* One write() of the loop.  A short one is followed by another that starts
\* again at the beginning of send_buffer.
Write ==
  /\ left > 0 /\ writes < MaxWrites
  /\ \E n \in (IF writes = MaxWrites - 1 THEN {left} ELSE {1, left}) :
       wire' = wire \o SubSeq(frame, 1, n) /\ left' = left - n
  /\ writes' = writes + 1
  /\ UNCHANGED <<msg, body, packet, frame, k, status, dest>>

\* Mutant of Untranslate: an escaped byte is appended to its escape.
Untranslate_KeepsEscape ==
  /\ left = 0 /\ k <= Len(wire) /\ status < 3
  /\ LET byte == wire[k] IN
     \/ status = 0 /\ status' = (IF byte = Flag THEN 1 ELSE 0) /\ UNCHANGED dest
     \/ status = 1 /\ IF byte = Flag THEN UNCHANGED <<status, dest>>
                      ELSE status' = 2 /\ dest' = Append(dest, byte)
     \/ status = 2 /\ IF byte = Flag THEN status' = 3 /\ UNCHANGED dest
                      ELSE status' = 2 /\ dest' = Append(dest, byte)
  /\ k' = k + 1
  /\ UNCHANGED <<msg, body, packet, frame, left, writes, wire>>

\* One round of untranslate_packet's loop; status 3 is its return at the
\* second flag.  The byte before is looked at after it may have been unescaped.
Untranslate ==
  /\ left = 0 /\ k <= Len(wire) /\ status < 3
  /\ LET byte == wire[k] IN
     \/ status = 0 /\ status' = (IF byte = Flag THEN 1 ELSE 0) /\ UNCHANGED dest
     \/ status = 1 /\ IF byte = Flag THEN UNCHANGED <<status, dest>>
                      ELSE status' = 2 /\ dest' = Append(dest, byte)
     \/ status = 2 /\ IF byte = Flag THEN status' = 3 /\ UNCHANGED dest
                      ELSE /\ status' = 2
                           /\ dest' = IF Last(dest) # Escape THEN Append(dest, byte)
                                      ELSE CASE byte = 94 -> Front(dest) \o <<Flag>>
                                             [] OTHER -> dest
  /\ k' = k + 1
  /\ UNCHANGED <<msg, body, packet, frame, left, writes, wire>>

Next == Write \/ Untranslate
Spec == Init /\ [][Next]_vars

-----------------------------------------------------------------------------
(* Properties.                                                             *)

TypeOK ==
  /\ packet \in Seq(0 .. 255) /\ frame \in Seq(0 .. 255) /\ wire \in Seq(0 .. 255)
  /\ left \in 0 .. Len(frame) /\ status \in 0 .. 3 /\ dest \in Seq(0 .. 255)
  /\ k \in 1 .. Len(wire) + 1

\* A receiver that runs crc_16_l_calc over a packet and its CRC gets
\* CRC_16_L_OK (0), for every packet that carries one; the connect and the
\* change to SPI do not (packet.c lines 107-217).
CrcVerifies ==
  writes = 0 /\ msg \notin {CONNECT, SWITCH_MODE} => crc_16_l_calc(packet) = 0

\* What goes over SPI: an image's start, its data, never empty, and its end,
\* and the final exec (modem_boot.c lines 281-328).
SentOverSpi ==
  msg \in {START_DATA, MIDST_DATA, END_DATA, EXEC_DATA} /\ (msg = MIDST_DATA => body # <<>>)

\* The two sums of words agree with each other, and a receiver that sums a
\* header of an SPI packet with its sum gets 0; a packet that is sent over SPI
\* has the bytes it announces and carries their sum, an end's although it is
\* taken over none (crc16.c lines 85-140, packet.c lines 168-183).
SumsVerify ==
  writes = 0 =>
  LET spi == setup_spi(msg, body)
      announced == spi[1] + 256 * spi[2]
  IN /\ frm_chk(body) = boot_checksum(body)
     /\ boot_checksum(SubSeq(spi, 1, 8)) = 0
     /\ SentOverSpi => /\ Len(spi) = 8 + announced
                       /\ spi[5] + 256 * spi[6] = boot_checksum(SubSeq(spi, 9, Len(spi)))

\* One write() of a packet without 0x7D arrives: it ends at the second flag
\* and untranslate_packet gives back what was framed.  With a 0x7D it does not:
\* the byte stored last is then 0x7D although its escape is over, and what
\* follows is dropped (packet.c lines 85-94).
ArrivesWithoutEscape ==
  status = 3 /\ writes = 1 /\ Escape \notin ToSet(packet) => dest = packet /\ k = Len(wire) + 1

-----------------------------------------------------------------------------
(* The inductive invariant of the proofs (PacketProofs).                   *)

\* What was sent; only a start, data and an exec have a body.
Sent ==
  /\ msg \in Commands /\ body \in Seq(0 .. 255) /\ Len(body) <= HS_PACKET_SIZE
  /\ msg \notin {START_DATA, MIDST_DATA, EXEC_DATA} => body = <<>>
  /\ packet = setup_uart(msg, body) /\ frame = translate_packet(packet)

\* Nothing is received before all is written, and one write() is the frame.
Written ==
  /\ writes \in Nat /\ (writes = 0 => left = Len(frame) /\ wire = <<>>)
  /\ writes = 1 /\ left = 0 => wire = frame
  /\ left > 0 => k = 1 /\ status = 0 /\ dest = <<>>
  /\ status = 2 => dest # <<>>

\* How far untranslate_packet is in the frame of a packet without 0x7D: behind
\* the flag, behind the bytes of packet[n], or between the two of packet[n + 1].
Unframing ==
  LET out == Translated(packet)
  IN \/ status = 0 /\ k = 1 /\ dest = <<>>
     \/ status = 1 /\ k = 2 /\ dest = <<>>
     \/ /\ status = 2
        /\ \E n \in 0 .. Len(packet) :
             \/ n > 0 /\ k = Len(out[n]) + 1 /\ dest = SubSeq(packet, 1, n)
             \/ /\ n < Len(packet) /\ packet[n + 1] = Flag
                /\ k = Len(out[n]) + 2 /\ dest = SubSeq(packet, 1, n) \o <<Escape>>
     \/ status = 3 /\ k = Len(wire) + 1 /\ dest = packet

PacketInv ==
  /\ TypeOK /\ Sent /\ Written
  /\ writes = 1 /\ left = 0 /\ Escape \notin ToSet(packet) => Unframing
=============================================================================
