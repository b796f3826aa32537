------------------------- MODULE ModemControlProofs -------------------------
(***************************************************************************)
(* Proofs about modem_control and its modem_boot(), for any number and any *)
(* size of images and any number of faults, asserts and clients.  The      *)
(* inductive invariant is ControlInv of ModemControl, which contains       *)
(* BootInv of ModemBoot.                                                   *)
(***************************************************************************)
EXTENDS ModemControl, TLAPS

\* The constants of modem_boot(), but for the sizes of the images.
LEMMA Constants ==
  /\ ImageCount \in Nat /\ UART_TIMEOUT \in Nat \ {0} /\ MaxFaults \in Nat
  /\ FDL_PACKET_SIZE \in Nat \ {0} /\ HS_PACKET_SIZE \in Nat \ {0}
  /\ ImageSize \in [0 .. ImageCount -> Nat \ {0}] /\ NvImages \subseteq 1 .. ImageCount
BY ControlAssumption DEF B!BootConstants

\* Division by the size of a packet.
LEMMA Division ==
  ASSUME NEW a \in Nat, NEW b \in Nat \ {0}
  PROVE  /\ a \div b \in Nat /\ a % b \in 0 .. b - 1
         /\ a = b * (a \div b) + (a % b)
OBVIOUS

\* What is left when one of n packets of size p is gone.
LEMMA TakeOne ==
  ASSUME NEW n \in Nat \ {0}, NEW p \in Nat \ {0}
  PROVE  /\ p * n - p = p * (n - 1) /\ p * (n - 1) \in Nat
         /\ p * (n - 1) = 0 <=> n = 1
OBVIOUS

\* The packets of the FDL are whole ones.
LEMMA FdlPackets ==
  /\ B!Packets(0) \in Nat \ {0}
  /\ ImageSize[0] = FDL_PACKET_SIZE * B!Packets(0)
<1>1. /\ ImageSize[0] \in Nat \ {0} /\ FDL_PACKET_SIZE \in Nat \ {0}
      /\ ImageSize[0] % FDL_PACKET_SIZE = 0
  BY Constants, ControlAssumption DEF B!BootConstants
<1> DEFINE c == ImageSize[0] \div FDL_PACKET_SIZE
<1>2. B!Packets(0) = c
  BY DEF B!Packets
<1>3. c \in Nat /\ ImageSize[0] = FDL_PACKET_SIZE * c + (ImageSize[0] % FDL_PACKET_SIZE)
  BY <1>1, Division
<1> HIDE DEF c
<1>4. ImageSize[0] = FDL_PACKET_SIZE * c
  BY <1>1, <1>3
<1> QED BY <1>1, <1>2, <1>3, <1>4

\* Packets of size h for s bytes are enough for them, and none of them is empty.
LEMMA RoundedUp ==
  ASSUME NEW s \in Nat \ {0}, NEW h \in Nat \ {0}, NEW c \in Nat, NEW r \in 0 .. h - 1,
         s + h - 1 = h * c + r
  PROVE  c > 0 /\ h * (c - 1) < s /\ s <= h * c
<1>1. h * (c - 1) = h * c - h
  OBVIOUS
<1>2. h * (c - 1) < s /\ s <= h * c
  BY <1>1
<1>3. c > 0
  BY <1>2
<1> QED BY <1>2, <1>3

\* Only the last packet is not a full one.
LEMMA LastPacket ==
  ASSUME NEW s \in Nat, NEW h \in Nat \ {0}, NEW c \in Nat, NEW k \in Nat,
         k < c, h * (c - 1) < s
  PROVE  /\ s - h * k < h => k + 1 = c
         /\ s - h * (k + 1) = s - h * k - h
<1>1. h * (k + 1) = h * k + h /\ h * (c - 1) \in Int /\ h * k \in Int
  OBVIOUS
<1>2. ASSUME k + 1 <= c - 1 PROVE h * (k + 1) <= h * (c - 1)
  BY <1>2
<1> QED BY <1>1, <1>2

\* The packets of an image are enough for it, none of them is empty, and they
\* are no more than the bytes of a packet.
LEMMA ImagePackets ==
  ASSUME NEW m \in 1 .. ImageCount
  PROVE  /\ B!Packets(m) \in Nat \ {0}
         /\ HS_PACKET_SIZE * (B!Packets(m) - 1) < ImageSize[m]
         /\ ImageSize[m] <= HS_PACKET_SIZE * B!Packets(m)
         /\ B!Packets(m) <= HS_PACKET_SIZE
<1> DEFINE s == ImageSize[m]
           h == HS_PACKET_SIZE
           c == B!Packets(m)
<1>1. s \in Nat \ {0} /\ h \in Nat \ {0} /\ s < h * h
  BY Constants, ControlAssumption DEF B!BootConstants
<1>2. c = (s + h - 1) \div h
  BY Constants DEF B!Packets
<1> HIDE DEF s, h, c
<1>3. c \in Nat /\ (s + h - 1) % h \in 0 .. h - 1 /\ s + h - 1 = h * c + ((s + h - 1) % h)
  <2>1. s + h - 1 \in Nat
    BY <1>1
  <2> QED BY <1>1, <1>2, <2>1, Division
<1>4. c > 0 /\ h * (c - 1) < s /\ s <= h * c
  BY <1>1, <1>3, RoundedUp
<1>5. c <= h
  BY <1>1, <1>3, <1>4
<1> QED BY <1>3, <1>4, <1>5 DEF s, h, c

\* The UART is opened, or cannot be.
LEMMA OpenUartInv ==
  ASSUME B!BootInv, B!OpenUart
  PROVE  B!BootInv'
<1> USE Constants DEF B!BootInv, B!OpenUart, B!Fault, B!DL_SUCCESS, B!DL_FAILURE, B!None,
        B!Goto, B!bootVars, B!deviceVars, B!modemVars
<1>1. B!BootTypeOK'
  <2>1. B!BootPlacesOK'
    BY DEF B!BootTypeOK, B!BootPlacesOK, B!BootNumbersOK, B!Labels, B!Modes, B!InOrder, B!Images
  <2>2. B!BootFlagsOK'
    BY DEF B!BootTypeOK, B!BootFlagsOK
  <2>3. B!BootNumbersOK'
    BY DEF B!BootTypeOK, B!BootNumbersOK, B!InOrder, B!Opened, B!LoadsImage, B!Images
  <2> QED BY <2>1, <2>2, <2>3 DEF B!BootTypeOK
<1>2. B!InOrder'
  BY DEF B!BootTypeOK, B!BootNumbersOK, B!InOrder, B!Images
<1>3. B!Opened'
  BY DEF B!BootTypeOK, B!BootNumbersOK, B!InOrder, B!Opened, B!LoadsImage
<1>4. B!FdlFirst' /\ B!ImagesBefore'
  BY DEF B!BootTypeOK, B!BootNumbersOK, B!InOrder, B!LoadsImage, B!FdlFirst, B!ImagesBefore,
     B!Images
<1>5. B!Counting'
  BY DEF B!BootTypeOK, B!BootNumbersOK, B!InOrder, B!Counting
<1>6. B!Settled'
  BY DEF B!BootTypeOK, B!BootNumbersOK, B!InOrder, B!Settled
<1> QED BY <1>1, <1>2, <1>3, <1>4, <1>5, <1>6

\* The modem is reset.
LEMMA ResetModemInv ==
  ASSUME B!BootInv, B!ResetModem
  PROVE  B!BootInv'
<1> USE Constants DEF B!BootInv, B!ResetModem, B!PowerOn, B!Fault, B!DL_SUCCESS,
        B!DL_FAILURE, B!None, B!Goto, B!bootVars, B!deviceVars, B!modemVars
<1>1. B!BootTypeOK'
  <2>1. B!BootPlacesOK'
    BY DEF B!BootTypeOK, B!BootPlacesOK, B!BootNumbersOK, B!Labels, B!Modes, B!InOrder, B!Images
  <2>2. B!BootFlagsOK'
    BY DEF B!BootTypeOK, B!BootFlagsOK
  <2>3. B!BootNumbersOK'
    BY DEF B!BootTypeOK, B!BootNumbersOK, B!InOrder, B!Opened, B!LoadsImage, B!Images
  <2> QED BY <2>1, <2>2, <2>3 DEF B!BootTypeOK
<1>2. B!InOrder'
  BY DEF B!BootTypeOK, B!BootNumbersOK, B!InOrder, B!Images
<1>3. B!Opened'
  BY DEF B!BootTypeOK, B!BootNumbersOK, B!InOrder, B!Opened, B!LoadsImage
<1>4. B!FdlFirst' /\ B!ImagesBefore'
  BY DEF B!BootTypeOK, B!BootNumbersOK, B!InOrder, B!LoadsImage, B!FdlFirst, B!ImagesBefore,
     B!Images
<1>5. B!Counting'
  BY DEF B!BootTypeOK, B!BootNumbersOK, B!InOrder, B!Counting
<1>6. B!Settled'
  BY DEF B!BootTypeOK, B!BootNumbersOK, B!InOrder, B!Settled
<1> QED BY <1>1, <1>2, <1>3, <1>4, <1>5, <1>6

\* The boot ROM is heard.
LEMMA Wait55Inv ==
  ASSUME B!BootInv, B!Wait55
  PROVE  B!BootInv'
<1> USE Constants DEF B!BootInv, B!Wait55, B!Fault, B!TryAgain, B!unchangedConnect,
        B!DL_SUCCESS, B!DL_FAILURE, B!None, B!Goto, B!bootVars, B!deviceVars, B!modemVars
<1>1. B!BootTypeOK'
  <2>1. B!BootPlacesOK'
    BY DEF B!BootTypeOK, B!BootPlacesOK, B!BootNumbersOK, B!Labels, B!Modes, B!InOrder, B!Images
  <2>2. B!BootFlagsOK'
    BY DEF B!BootTypeOK, B!BootFlagsOK
  <2>3. B!BootNumbersOK'
    BY DEF B!BootTypeOK, B!BootNumbersOK, B!InOrder, B!Opened, B!LoadsImage, B!Images
  <2> QED BY <2>1, <2>2, <2>3 DEF B!BootTypeOK
<1>2. B!InOrder'
  BY DEF B!BootTypeOK, B!BootNumbersOK, B!InOrder, B!Images
<1>3. B!Opened'
  BY DEF B!BootTypeOK, B!BootNumbersOK, B!InOrder, B!Opened, B!LoadsImage
<1>4. B!FdlFirst' /\ B!ImagesBefore'
  BY DEF B!BootTypeOK, B!BootNumbersOK, B!InOrder, B!LoadsImage, B!FdlFirst, B!ImagesBefore,
     B!Images
<1>5. B!Counting'
  BY DEF B!BootTypeOK, B!BootNumbersOK, B!InOrder, B!Counting
<1>6. B!Settled'
  BY DEF B!BootTypeOK, B!BootNumbersOK, B!InOrder, B!Settled
<1> QED BY <1>1, <1>2, <1>3, <1>4, <1>5, <1>6

\* It is not.
LEMMA Wait55EndsInv ==
  ASSUME B!BootInv, B!Wait55Ends
  PROVE  B!BootInv'
<1> USE Constants DEF B!BootInv, B!Wait55Ends, B!Fault, B!TryAgain, B!unchangedConnect,
        B!DL_SUCCESS, B!DL_FAILURE, B!None, B!Goto, B!bootVars, B!deviceVars, B!modemVars
<1>1. B!BootTypeOK'
  <2>1. B!BootPlacesOK'
    BY DEF B!BootTypeOK, B!BootPlacesOK, B!BootNumbersOK, B!Labels, B!Modes, B!InOrder, B!Images
  <2>2. B!BootFlagsOK'
    BY DEF B!BootTypeOK, B!BootFlagsOK
  <2>3. B!BootNumbersOK'
    BY DEF B!BootTypeOK, B!BootNumbersOK, B!InOrder, B!Opened, B!LoadsImage, B!Images
  <2> QED BY <2>1, <2>2, <2>3 DEF B!BootTypeOK
<1>2. B!InOrder'
  BY DEF B!BootTypeOK, B!BootNumbersOK, B!InOrder, B!Images
<1>3. B!Opened'
  BY DEF B!BootTypeOK, B!BootNumbersOK, B!InOrder, B!Opened, B!LoadsImage
<1>4. B!FdlFirst' /\ B!ImagesBefore'
  BY DEF B!BootTypeOK, B!BootNumbersOK, B!InOrder, B!LoadsImage, B!FdlFirst, B!ImagesBefore,
     B!Images
<1>5. B!Counting'
  BY DEF B!BootTypeOK, B!BootNumbersOK, B!InOrder, B!Counting
<1>6. B!Settled'
  BY DEF B!BootTypeOK, B!BootNumbersOK, B!InOrder, B!Settled
<1> QED BY <1>1, <1>2, <1>3, <1>4, <1>5, <1>6

\* The version begins.
LEMMA PollVersionInv ==
  ASSUME B!BootInv, B!PollVersion
  PROVE  B!BootInv'
<1> USE Constants DEF B!BootInv, B!PollVersion, B!Fault, B!TryAgain, B!unchangedConnect,
        B!DL_SUCCESS, B!DL_FAILURE, B!None, B!Goto, B!bootVars, B!deviceVars, B!modemVars
<1>1. B!BootTypeOK'
  <2>1. B!BootPlacesOK'
    BY DEF B!BootTypeOK, B!BootPlacesOK, B!BootNumbersOK, B!Labels, B!Modes, B!InOrder, B!Images
  <2>2. B!BootFlagsOK'
    BY DEF B!BootTypeOK, B!BootFlagsOK
  <2>3. B!BootNumbersOK'
    BY DEF B!BootTypeOK, B!BootNumbersOK, B!InOrder, B!Opened, B!LoadsImage, B!Images
  <2> QED BY <2>1, <2>2, <2>3 DEF B!BootTypeOK
<1>2. B!InOrder'
  BY DEF B!BootTypeOK, B!BootNumbersOK, B!InOrder, B!Images
<1>3. B!Opened'
  BY DEF B!BootTypeOK, B!BootNumbersOK, B!InOrder, B!Opened, B!LoadsImage
<1>4. B!FdlFirst' /\ B!ImagesBefore'
  BY DEF B!BootTypeOK, B!BootNumbersOK, B!InOrder, B!LoadsImage, B!FdlFirst, B!ImagesBefore,
     B!Images
<1>5. B!Counting'
  BY DEF B!BootTypeOK, B!BootNumbersOK, B!InOrder, B!Counting
<1>6. B!Settled'
  BY DEF B!BootTypeOK, B!BootNumbersOK, B!InOrder, B!Settled
<1> QED BY <1>1, <1>2, <1>3, <1>4, <1>5, <1>6

\* The boot ROM still sends 0x55.
LEMMA Poll55Inv ==
  ASSUME B!BootInv, B!Poll55
  PROVE  B!BootInv'
<1> USE Constants DEF B!BootInv, B!Poll55, B!Fault, B!TryAgain, B!unchangedConnect,
        B!DL_SUCCESS, B!DL_FAILURE, B!None, B!Goto, B!bootVars, B!deviceVars, B!modemVars
<1>1. B!BootTypeOK'
  <2>1. B!BootPlacesOK'
    BY DEF B!BootTypeOK, B!BootPlacesOK, B!BootNumbersOK, B!Labels, B!Modes, B!InOrder, B!Images
  <2>2. B!BootFlagsOK'
    BY DEF B!BootTypeOK, B!BootFlagsOK
  <2>3. B!BootNumbersOK'
    BY DEF B!BootTypeOK, B!BootNumbersOK, B!InOrder, B!Opened, B!LoadsImage, B!Images
  <2> QED BY <2>1, <2>2, <2>3 DEF B!BootTypeOK
<1>2. B!InOrder'
  BY DEF B!BootTypeOK, B!BootNumbersOK, B!InOrder, B!Images
<1>3. B!Opened'
  BY DEF B!BootTypeOK, B!BootNumbersOK, B!InOrder, B!Opened, B!LoadsImage
<1>4. B!FdlFirst' /\ B!ImagesBefore'
  BY DEF B!BootTypeOK, B!BootNumbersOK, B!InOrder, B!LoadsImage, B!FdlFirst, B!ImagesBefore,
     B!Images
<1>5. B!Counting'
  BY DEF B!BootTypeOK, B!BootNumbersOK, B!InOrder, B!Counting
<1>6. B!Settled'
  BY DEF B!BootTypeOK, B!BootNumbersOK, B!InOrder, B!Settled
<1> QED BY <1>1, <1>2, <1>3, <1>4, <1>5, <1>6

\* Nothing comes.
LEMMA PollNothingInv ==
  ASSUME B!BootInv, B!PollNothing
  PROVE  B!BootInv'
<1> USE Constants DEF B!BootInv, B!PollNothing, B!Fault, B!TryAgain, B!unchangedConnect,
        B!DL_SUCCESS, B!DL_FAILURE, B!None, B!Goto, B!bootVars, B!deviceVars, B!modemVars
<1>1. B!BootTypeOK'
  <2>1. B!BootPlacesOK'
    BY DEF B!BootTypeOK, B!BootPlacesOK, B!BootNumbersOK, B!Labels, B!Modes, B!InOrder, B!Images
  <2>2. B!BootFlagsOK'
    BY DEF B!BootTypeOK, B!BootFlagsOK
  <2>3. B!BootNumbersOK'
    BY DEF B!BootTypeOK, B!BootNumbersOK, B!InOrder, B!Opened, B!LoadsImage, B!Images
  <2> QED BY <2>1, <2>2, <2>3 DEF B!BootTypeOK
<1>2. B!InOrder'
  BY DEF B!BootTypeOK, B!BootNumbersOK, B!InOrder, B!Images
<1>3. B!Opened'
  BY DEF B!BootTypeOK, B!BootNumbersOK, B!InOrder, B!Opened, B!LoadsImage
<1>4. B!FdlFirst' /\ B!ImagesBefore'
  BY DEF B!BootTypeOK, B!BootNumbersOK, B!InOrder, B!LoadsImage, B!FdlFirst, B!ImagesBefore,
     B!Images
<1>5. B!Counting'
  BY DEF B!BootTypeOK, B!BootNumbersOK, B!InOrder, B!Counting
<1>6. B!Settled'
  BY DEF B!BootTypeOK, B!BootNumbersOK, B!InOrder, B!Settled
<1> QED BY <1>1, <1>2, <1>3, <1>4, <1>5, <1>6

\* The version has come.
LEMMA VersionEndInv ==
  ASSUME B!BootInv, B!VersionEnd
  PROVE  B!BootInv'
<1> USE Constants DEF B!BootInv, B!VersionEnd, B!Fault, B!TryAgain, B!unchangedConnect,
        B!DL_SUCCESS, B!DL_FAILURE, B!None, B!Goto, B!bootVars, B!deviceVars, B!modemVars
<1>1. B!BootTypeOK'
  <2>1. B!BootPlacesOK'
    BY DEF B!BootTypeOK, B!BootPlacesOK, B!BootNumbersOK, B!Labels, B!Modes, B!InOrder, B!Images
  <2>2. B!BootFlagsOK'
    BY DEF B!BootTypeOK, B!BootFlagsOK
  <2>3. B!BootNumbersOK'
    BY DEF B!BootTypeOK, B!BootNumbersOK, B!InOrder, B!Opened, B!LoadsImage, B!Images
  <2> QED BY <2>1, <2>2, <2>3 DEF B!BootTypeOK
<1>2. B!InOrder'
  BY DEF B!BootTypeOK, B!BootNumbersOK, B!InOrder, B!Images
<1>3. B!Opened'
  BY DEF B!BootTypeOK, B!BootNumbersOK, B!InOrder, B!Opened, B!LoadsImage
<1>4. B!FdlFirst' /\ B!ImagesBefore'
  BY DEF B!BootTypeOK, B!BootNumbersOK, B!InOrder, B!LoadsImage, B!FdlFirst, B!ImagesBefore,
     B!Images
<1>5. B!Counting'
  BY DEF B!BootTypeOK, B!BootNumbersOK, B!InOrder, B!Counting
<1>6. B!Settled'
  BY DEF B!BootTypeOK, B!BootNumbersOK, B!InOrder, B!Settled
<1> QED BY <1>1, <1>2, <1>3, <1>4, <1>5, <1>6

\* The version is not complete.
LEMMA VersionNothingInv ==
  ASSUME B!BootInv, B!VersionNothing
  PROVE  B!BootInv'
<1> USE Constants DEF B!BootInv, B!VersionNothing, B!Fault, B!TryAgain, B!unchangedConnect,
        B!DL_SUCCESS, B!DL_FAILURE, B!None, B!Goto, B!bootVars, B!deviceVars, B!modemVars
<1>1. B!BootTypeOK'
  <2>1. B!BootPlacesOK'
    BY DEF B!BootTypeOK, B!BootPlacesOK, B!BootNumbersOK, B!Labels, B!Modes, B!InOrder, B!Images
  <2>2. B!BootFlagsOK'
    BY DEF B!BootTypeOK, B!BootFlagsOK
  <2>3. B!BootNumbersOK'
    BY DEF B!BootTypeOK, B!BootNumbersOK, B!InOrder, B!Opened, B!LoadsImage, B!Images
  <2> QED BY <2>1, <2>2, <2>3 DEF B!BootTypeOK
<1>2. B!InOrder'
  BY DEF B!BootTypeOK, B!BootNumbersOK, B!InOrder, B!Images
<1>3. B!Opened'
  BY DEF B!BootTypeOK, B!BootNumbersOK, B!InOrder, B!Opened, B!LoadsImage
<1>4. B!FdlFirst' /\ B!ImagesBefore'
  BY DEF B!BootTypeOK, B!BootNumbersOK, B!InOrder, B!LoadsImage, B!FdlFirst, B!ImagesBefore,
     B!Images
<1>5. B!Counting'
  BY DEF B!BootTypeOK, B!BootNumbersOK, B!InOrder, B!Counting
<1>6. B!Settled'
  BY DEF B!BootTypeOK, B!BootNumbersOK, B!InOrder, B!Settled
<1> QED BY <1>1, <1>2, <1>3, <1>4, <1>5, <1>6

\* The connect message.
LEMMA SendConnectInv ==
  ASSUME B!BootInv, B!SendConnect
  PROVE  B!BootInv'
<1> USE Constants DEF B!BootInv, B!SendConnect, B!Send, B!Fault, B!Speaks, B!Nothing,
        B!unanswered, B!unchangedSend, B!DL_SUCCESS, B!DL_FAILURE, B!None, B!Goto,
        B!bootVars, B!deviceVars, B!modemVars
<1>1. B!BootTypeOK'
  <2>1. B!BootPlacesOK'
    BY DEF B!BootTypeOK, B!BootPlacesOK, B!BootNumbersOK, B!Labels, B!Modes, B!InOrder, B!Images
  <2>2. B!BootFlagsOK'
    BY DEF B!BootTypeOK, B!BootFlagsOK
  <2>3. B!BootNumbersOK'
    BY DEF B!BootTypeOK, B!BootNumbersOK, B!InOrder, B!Opened, B!LoadsImage, B!Images
  <2> QED BY <2>1, <2>2, <2>3 DEF B!BootTypeOK
<1>2. B!InOrder'
  BY DEF B!BootTypeOK, B!BootNumbersOK, B!InOrder, B!Images
<1>3. B!Opened'
  BY DEF B!BootTypeOK, B!BootNumbersOK, B!InOrder, B!Opened, B!LoadsImage
<1>4. B!FdlFirst' /\ B!ImagesBefore'
  BY DEF B!BootTypeOK, B!BootNumbersOK, B!InOrder, B!LoadsImage, B!FdlFirst, B!ImagesBefore,
     B!Images
<1>5. B!Counting'
  BY DEF B!BootTypeOK, B!BootNumbersOK, B!InOrder, B!Counting
<1>6. B!Settled'
  BY DEF B!BootTypeOK, B!BootNumbersOK, B!InOrder, B!Settled
<1> QED BY <1>1, <1>2, <1>3, <1>4, <1>5, <1>6

\* The FDL is read.
LEMMA LoadFdlInv ==
  ASSUME B!BootInv, B!LoadFdl
  PROVE  B!BootInv'
<1> USE Constants DEF B!BootInv, B!LoadFdl, B!Fault, B!unchangedSend, B!DL_SUCCESS,
        B!DL_FAILURE, B!None, B!Goto, B!bootVars, B!deviceVars, B!modemVars
<1>1. B!BootTypeOK'
  <2>1. B!BootPlacesOK'
    BY DEF B!BootTypeOK, B!BootPlacesOK, B!BootNumbersOK, B!Labels, B!Modes, B!InOrder, B!Images
  <2>2. B!BootFlagsOK'
    BY DEF B!BootTypeOK, B!BootFlagsOK
  <2>3. B!BootNumbersOK'
    BY DEF B!BootTypeOK, B!BootNumbersOK, B!InOrder, B!Opened, B!LoadsImage, B!Images
  <2> QED BY <2>1, <2>2, <2>3 DEF B!BootTypeOK
<1>2. B!InOrder'
  BY DEF B!BootTypeOK, B!BootNumbersOK, B!InOrder, B!Images
<1>3. B!Opened'
  BY DEF B!BootTypeOK, B!BootNumbersOK, B!InOrder, B!Opened, B!LoadsImage
<1>4. B!FdlFirst' /\ B!ImagesBefore'
  BY DEF B!BootTypeOK, B!BootNumbersOK, B!InOrder, B!LoadsImage, B!FdlFirst, B!ImagesBefore,
     B!Images
<1>5. B!Counting'
  BY DEF B!BootTypeOK, B!BootNumbersOK, B!InOrder, B!Counting
<1>6. B!Settled'
  BY DEF B!BootTypeOK, B!BootNumbersOK, B!InOrder, B!Settled
<1> QED BY <1>1, <1>2, <1>3, <1>4, <1>5, <1>6

\* The start message.
LEMMA SendStartInv ==
  ASSUME B!BootInv, B!SendStart
  PROVE  B!BootInv'
<1> USE Constants DEF B!BootInv, B!SendStart, B!GetStart, B!Send, B!Fault, B!Speaks,
        B!Nothing, B!unanswered, B!unchangedSend, B!DL_SUCCESS, B!DL_FAILURE, B!None,
        B!Goto, B!bootVars, B!deviceVars, B!modemVars
<1> img \in 0 .. ImageCount /\ B!Packets(img) \in Nat \ {0}
  BY FdlPackets, ImagePackets DEF B!BootTypeOK, B!BootNumbersOK, B!InOrder
<1>0. \/ B!GetStart(B!Packets(img)) /\ ret' = 0 /\ UNCHANGED <<refused, faults>>
      \/ /\ refused' = TRUE /\ ret' = -1 /\ UNCHANGED B!unanswered
         /\ faults < MaxFaults /\ faults' = faults + 1
  OBVIOUS
<1>1. B!BootTypeOK'
  <2>1. B!BootPlacesOK'
    BY DEF B!BootTypeOK, B!BootPlacesOK, B!BootNumbersOK, B!Labels, B!Modes, B!InOrder, B!Images
  <2>2. B!BootFlagsOK'
    BY DEF B!BootTypeOK, B!BootFlagsOK
  <2>3. B!BootNumbersOK'
    BY <1>0 DEF B!BootTypeOK, B!BootNumbersOK
  <2> QED BY <2>1, <2>2, <2>3 DEF B!BootTypeOK
<1>2. B!InOrder'
  BY DEF B!BootTypeOK, B!BootNumbersOK, B!InOrder, B!Images
<1>3. B!Opened'
  BY DEF B!BootTypeOK, B!BootNumbersOK, B!InOrder, B!Opened, B!LoadsImage
<1>4. B!FdlFirst' /\ B!ImagesBefore'
  BY DEF B!BootTypeOK, B!BootNumbersOK, B!InOrder, B!LoadsImage, B!FdlFirst, B!ImagesBefore,
     B!Images
<1>5. B!Counting'
  <2> SUFFICES ASSUME bpc' = "data"
               PROVE  IF img' = 0 THEN \E n \in 1 .. B!Packets(0) : B!LeftOfFdl(n)'
                      ELSE B!LeftOfImage'
    BY DEF B!Counting
  <2>1. B!GetStart(B!Packets(img)) /\ UNCHANGED refused
    BY <1>0
  <2>2. CASE img = 0
    <3>1. B!LeftOfFdl(B!Packets(0))'
      BY <2>1, <2>2, FdlPackets DEF B!LeftOfFdl, B!Counting, B!Packets
    <3> QED BY <2>2, <3>1, FdlPackets
  <2>3. CASE img # 0
    BY <2>1, <2>3 DEF B!LeftOfImage, B!Counting, B!Packets
  <2> QED BY <2>2, <2>3
<1>6. B!Settled'
  BY DEF B!BootTypeOK, B!BootNumbersOK, B!InOrder, B!Settled
<1> QED BY <1>1, <1>2, <1>3, <1>4, <1>5, <1>6

\* A packet.
LEMMA SendDataInv ==
  ASSUME B!BootInv, B!SendData
  PROVE  B!BootInv'
<1> USE Constants DEF B!BootInv, B!SendData, B!GetData, B!Send, B!Fault, B!Speaks,
        B!Nothing, B!unanswered, B!unchangedSend, B!DL_SUCCESS, B!DL_FAILURE, B!None,
        B!Goto, B!bootVars, B!deviceVars, B!modemVars
<1>0. \/ B!GetData /\ ret' = 0 /\ UNCHANGED <<refused, faults>>
      \/ /\ refused' = TRUE /\ ret' = -1 /\ UNCHANGED B!unanswered
         /\ faults < MaxFaults /\ faults' = faults + 1
  OBVIOUS
<1>a. img = 0 =>
        \E n \in 1 .. B!Packets(0) :
          /\ B!LeftOfFdl(n) /\ size' = FDL_PACKET_SIZE * (n - 1) /\ size' \in Nat
          /\ size' = 0 <=> n = 1
  <2> SUFFICES ASSUME img = 0, NEW n \in 1 .. B!Packets(0), B!LeftOfFdl(n)
               PROVE  /\ size' = FDL_PACKET_SIZE * (n - 1) /\ size' \in Nat
                      /\ size' = 0 <=> n = 1
    BY DEF B!Counting
  <2>1. n \in Nat \ {0} /\ size = FDL_PACKET_SIZE * n /\ size' = size - FDL_PACKET_SIZE
    BY FdlPackets DEF B!LeftOfFdl
  <2> QED BY <2>1, TakeOne
<1>b. img # 0 =>
        /\ B!LeftOfImage
        /\ \/ i' = i + 1 /\ size' = ImageSize[img] - HS_PACKET_SIZE * i' /\ size' \in Nat
           \/ i' >= count /\ i' \in Nat /\ size' = 0 /\ i + 1 = count
  <2> HAVE img # 0
  <2>1. B!LeftOfImage
    BY DEF B!Counting
  <2>2. img \in 1 .. ImageCount /\ i \in Nat /\ size \in Nat
    BY DEF B!BootTypeOK, B!BootNumbersOK, B!InOrder
  <2>3. /\ count \in Nat \ {0} /\ HS_PACKET_SIZE * (count - 1) < ImageSize[img]
        /\ count <= HS_PACKET_SIZE /\ i < count
        /\ size = ImageSize[img] - HS_PACKET_SIZE * i
    BY <2>1, <2>2, ImagePackets DEF B!LeftOfImage
  <2>4. ImageSize[img] \in Nat
    BY <2>2
  <2>5. /\ size < HS_PACKET_SIZE => i + 1 = count
        /\ ImageSize[img] - HS_PACKET_SIZE * (i + 1) = size - HS_PACKET_SIZE
    <3> DEFINE s == ImageSize[img]
               h == HS_PACKET_SIZE
    <3>1. s \in Nat /\ h \in Nat \ {0} /\ h * (count - 1) < s /\ size = s - h * i
      BY <2>3, <2>4
    <3> HIDE DEF s, h
    <3>a. i \in Nat /\ count \in Nat /\ i < count
      BY <2>2, <2>3
    <3>2. (s - h * i < h => i + 1 = count) /\ s - h * (i + 1) = s - h * i - h
      BY <3>1, <3>a, LastPacket
    <3> QED BY <3>1, <3>2 DEF s, h
  <2>6. CASE size < HS_PACKET_SIZE
    BY <2>1, <2>3, <2>5, <2>6
  <2>7. CASE ~(size < HS_PACKET_SIZE)
    BY <2>1, <2>2, <2>5, <2>7
  <2> QED BY <2>6, <2>7
<1>1. B!BootTypeOK'
  <2>1. B!BootPlacesOK'
    BY DEF B!BootTypeOK, B!BootPlacesOK, B!BootNumbersOK, B!Labels, B!Modes, B!InOrder, B!Images
  <2>2. B!BootFlagsOK'
    BY DEF B!BootTypeOK, B!BootFlagsOK
  <2>3. B!BootNumbersOK'
    <3>1. size' \in Nat /\ i' \in Nat
      BY <1>a, <1>b DEF B!BootTypeOK, B!BootNumbersOK
    <3>2. announced' \in Nat \cup {-1} /\ received' \in Nat
      BY <1>0 DEF B!BootTypeOK, B!BootNumbersOK
    <3>3. ret' \in {0, -1} /\ faults' \in 0 .. MaxFaults
      BY <1>0 DEF B!BootTypeOK, B!BootNumbersOK
    <3> QED BY <3>1, <3>2, <3>3 DEF B!BootTypeOK, B!BootNumbersOK
  <2> QED BY <2>1, <2>2, <2>3 DEF B!BootTypeOK
<1>2. B!InOrder'
  BY DEF B!BootTypeOK, B!BootNumbersOK, B!InOrder, B!Images
<1>3. B!Opened'
  BY DEF B!BootTypeOK, B!BootNumbersOK, B!InOrder, B!Opened, B!LoadsImage
<1>4. B!FdlFirst' /\ B!ImagesBefore'
  BY DEF B!BootTypeOK, B!BootNumbersOK, B!InOrder, B!LoadsImage, B!FdlFirst, B!ImagesBefore,
     B!Images
<1>5. B!Counting'
  <2> SUFFICES ASSUME bpc' = "data"
               PROVE  IF img' = 0 THEN \E n \in 1 .. B!Packets(0) : B!LeftOfFdl(n)'
                      ELSE B!LeftOfImage'
    BY DEF B!Counting
  <2>1. B!GetData /\ UNCHANGED refused
    BY <1>0
  <2>2. CASE img = 0
    <3>1. PICK n \in 1 .. B!Packets(0) :
            B!LeftOfFdl(n) /\ size' = FDL_PACKET_SIZE * (n - 1) /\ n # 1
      BY <1>a, <2>2
    <3>2. n - 1 \in 1 .. B!Packets(0) /\ B!LeftOfFdl(n - 1)'
      BY <2>1, <3>1, FdlPackets DEF B!LeftOfFdl, B!Packets, B!BootTypeOK, B!BootNumbersOK
    <3> QED BY <2>2, <3>2
  <2>3. CASE img # 0
    BY <1>b, <2>1, <2>3 DEF B!LeftOfImage, B!Packets, B!BootTypeOK, B!BootNumbersOK
  <2> QED BY <2>2, <2>3
<1>6. B!Settled'
  <2> SUFFICES ASSUME ~refused'
               PROVE  /\ ~confused' /\ bpc' \in {"data", "end"}
                      /\ bpc' = "end" => announced' = received'
    BY DEF B!Settled
  <2>1. B!GetData /\ ret' = 0 /\ ~refused
    BY <1>0
  <2>2. announced # -1 /\ (bpc' = "end" => received + 1 = announced)
    <3>1. CASE img = 0
      BY <1>a, <2>1, <3>1, FdlPackets DEF B!LeftOfFdl, B!BootTypeOK, B!BootNumbersOK
    <3>2. CASE img # 0
      BY <1>b, <2>1, <3>2 DEF B!LeftOfImage, B!BootTypeOK, B!BootNumbersOK
    <3> QED BY <3>1, <3>2
  <2>3. ~confused'
    BY <2>1, <2>2 DEF B!Settled
  <2> QED BY <2>1, <2>2, <2>3
<1> QED BY <1>1, <1>2, <1>3, <1>4, <1>5, <1>6

\* The end message.
LEMMA SendEndInv ==
  ASSUME B!BootInv, B!SendEnd
  PROVE  B!BootInv'
<1> USE Constants DEF B!BootInv, B!SendEnd, B!GetEnd, B!Send, B!Fault, B!Speaks, B!Nothing,
        B!unanswered, B!unchangedSend, B!DL_SUCCESS, B!DL_FAILURE, B!None, B!Goto,
        B!bootVars, B!deviceVars, B!modemVars
<1>0. \/ B!GetEnd /\ ret' = 0 /\ UNCHANGED <<refused, faults>>
      \/ /\ refused' = TRUE /\ ret' = -1 /\ UNCHANGED B!unanswered
         /\ faults < MaxFaults /\ faults' = faults + 1
  OBVIOUS
<1>1. B!BootTypeOK'
  <2>1. B!BootPlacesOK'
    <3>1. img \in 0 .. ImageCount
      BY DEF B!BootTypeOK, B!BootNumbersOK, B!InOrder
    <3>2. got' \subseteq 0 .. ImageCount /\ mode' = mode /\ skipped' = skipped
      BY <1>0, <3>1 DEF B!BootTypeOK, B!BootPlacesOK
    <3>3. bpc' \in B!Labels
      BY DEF B!Labels
    <3> QED BY <3>2, <3>3 DEF B!BootTypeOK, B!BootPlacesOK
  <2>2. B!BootFlagsOK'
    BY DEF B!BootTypeOK, B!BootFlagsOK
  <2>3. B!BootNumbersOK'
    BY DEF B!BootTypeOK, B!BootNumbersOK, B!InOrder, B!Opened, B!LoadsImage, B!Images
  <2> QED BY <2>1, <2>2, <2>3 DEF B!BootTypeOK
<1>2. B!InOrder'
  BY DEF B!BootTypeOK, B!BootNumbersOK, B!InOrder, B!Images
<1>3. B!Opened'
  BY DEF B!BootTypeOK, B!BootNumbersOK, B!InOrder, B!Opened, B!LoadsImage
<1>4. B!FdlFirst' /\ B!ImagesBefore'
  BY DEF B!BootTypeOK, B!BootNumbersOK, B!InOrder, B!LoadsImage, B!FdlFirst, B!ImagesBefore,
     B!Images
<1>5. B!Counting'
  BY DEF B!BootTypeOK, B!BootNumbersOK, B!InOrder, B!Counting
<1>6. B!Settled'
  <2> SUFFICES ASSUME ~refused'
               PROVE  ~confused' /\ bpc' \notin {"data", "end"} /\ announced' = -1
    BY DEF B!Settled
  <2>1. B!GetEnd /\ ret' = 0 /\ ~refused
    BY <1>0
  <2>2. ~confused /\ announced = received
    BY <2>1 DEF B!Settled
  <2> QED BY <2>1, <2>2
<1> QED BY <1>1, <1>2, <1>3, <1>4, <1>5, <1>6

\* The FDL is started.
LEMMA SendExecFdlInv ==
  ASSUME B!BootInv, B!SendExecFdl
  PROVE  B!BootInv'
<1> USE Constants DEF B!BootInv, B!SendExecFdl, B!GetExec, B!Send, B!Fault, B!Speaks,
        B!Nothing, B!unanswered, B!unchangedSend, B!DL_SUCCESS, B!DL_FAILURE, B!None,
        B!Goto, B!bootVars, B!deviceVars, B!modemVars
<1>1. B!BootTypeOK'
  <2>1. B!BootPlacesOK'
    BY DEF B!BootTypeOK, B!BootPlacesOK, B!BootNumbersOK, B!Labels, B!Modes, B!InOrder, B!Images
  <2>2. B!BootFlagsOK'
    BY DEF B!BootTypeOK, B!BootFlagsOK
  <2>3. B!BootNumbersOK'
    BY DEF B!BootTypeOK, B!BootNumbersOK, B!InOrder, B!Opened, B!LoadsImage, B!Images
  <2> QED BY <2>1, <2>2, <2>3 DEF B!BootTypeOK
<1>2. B!InOrder'
  BY DEF B!BootTypeOK, B!BootNumbersOK, B!InOrder, B!Images
<1>3. B!Opened'
  BY DEF B!BootTypeOK, B!BootNumbersOK, B!InOrder, B!Opened, B!LoadsImage
<1>4. B!FdlFirst' /\ B!ImagesBefore'
  BY DEF B!BootTypeOK, B!BootNumbersOK, B!InOrder, B!LoadsImage, B!FdlFirst, B!ImagesBefore,
     B!Images
<1>5. B!Counting'
  BY DEF B!BootTypeOK, B!BootNumbersOK, B!InOrder, B!Counting
<1>6. B!Settled'
  BY DEF B!BootTypeOK, B!BootNumbersOK, B!InOrder, B!Settled
<1> QED BY <1>1, <1>2, <1>3, <1>4, <1>5, <1>6

\* A message of a download has failed.
LEMMA FailInv ==
  ASSUME B!BootInv, B!Fail
  PROVE  B!BootInv'
<1> USE Constants DEF B!BootInv, B!Fail, B!DL_SUCCESS, B!DL_FAILURE, B!None, B!Goto,
        B!bootVars, B!deviceVars, B!modemVars
<1>1. B!BootTypeOK'
  <2>1. B!BootPlacesOK'
    BY DEF B!BootTypeOK, B!BootPlacesOK, B!BootNumbersOK, B!Labels, B!Modes, B!InOrder, B!Images
  <2>2. B!BootFlagsOK'
    BY DEF B!BootTypeOK, B!BootFlagsOK
  <2>3. B!BootNumbersOK'
    BY DEF B!BootTypeOK, B!BootNumbersOK, B!InOrder, B!Opened, B!LoadsImage, B!Images
  <2> QED BY <2>1, <2>2, <2>3 DEF B!BootTypeOK
<1>2. B!InOrder'
  BY DEF B!BootTypeOK, B!BootNumbersOK, B!InOrder, B!Images
<1>3. B!Opened'
  BY DEF B!BootTypeOK, B!BootNumbersOK, B!InOrder, B!Opened, B!LoadsImage
<1>4. B!FdlFirst' /\ B!ImagesBefore'
  BY DEF B!BootTypeOK, B!BootNumbersOK, B!InOrder, B!LoadsImage, B!FdlFirst, B!ImagesBefore,
     B!Images
<1>5. B!Counting'
  BY DEF B!BootTypeOK, B!BootNumbersOK, B!InOrder, B!Counting
<1>6. B!Settled'
  BY DEF B!BootTypeOK, B!BootNumbersOK, B!InOrder, B!Settled
<1> QED BY <1>1, <1>2, <1>3, <1>4, <1>5, <1>6

\* The FDL has answered.
LEMMA ConnectedInv ==
  ASSUME B!BootInv, B!Connected
  PROVE  B!BootInv'
<1> USE Constants DEF B!BootInv, B!Connected, B!DL_SUCCESS, B!DL_FAILURE, B!None, B!Goto,
        B!bootVars, B!deviceVars, B!modemVars
<1>1. B!BootTypeOK'
  <2>1. B!BootPlacesOK'
    BY DEF B!BootTypeOK, B!BootPlacesOK, B!BootNumbersOK, B!Labels, B!Modes, B!InOrder, B!Images
  <2>2. B!BootFlagsOK'
    BY DEF B!BootTypeOK, B!BootFlagsOK
  <2>3. B!BootNumbersOK'
    BY DEF B!BootTypeOK, B!BootNumbersOK, B!InOrder, B!Opened, B!LoadsImage, B!Images
  <2> QED BY <2>1, <2>2, <2>3 DEF B!BootTypeOK
<1>2. B!InOrder'
  BY DEF B!BootTypeOK, B!BootNumbersOK, B!InOrder, B!Images
<1>3. B!Opened'
  BY DEF B!BootTypeOK, B!BootNumbersOK, B!InOrder, B!Opened, B!LoadsImage
<1>4. B!FdlFirst' /\ B!ImagesBefore'
  BY DEF B!BootTypeOK, B!BootNumbersOK, B!InOrder, B!LoadsImage, B!FdlFirst, B!ImagesBefore,
     B!Images
<1>5. B!Counting'
  BY DEF B!BootTypeOK, B!BootNumbersOK, B!InOrder, B!Counting
<1>6. B!Settled'
  BY DEF B!BootTypeOK, B!BootNumbersOK, B!InOrder, B!Settled
<1> QED BY <1>1, <1>2, <1>3, <1>4, <1>5, <1>6

\* The change to SPI.
LEMMA SendSwitchInv ==
  ASSUME B!BootInv, B!SendSwitch
  PROVE  B!BootInv'
<1> USE Constants DEF B!BootInv, B!SendSwitch, B!Send, B!Fault, B!Speaks, B!Nothing,
        B!unanswered, B!unchangedSend, B!DL_SUCCESS, B!DL_FAILURE, B!None, B!Goto,
        B!bootVars, B!deviceVars, B!modemVars
<1>1. B!BootTypeOK'
  <2>1. B!BootPlacesOK'
    BY DEF B!BootTypeOK, B!BootPlacesOK, B!BootNumbersOK, B!Labels, B!Modes, B!InOrder, B!Images
  <2>2. B!BootFlagsOK'
    BY DEF B!BootTypeOK, B!BootFlagsOK
  <2>3. B!BootNumbersOK'
    BY DEF B!BootTypeOK, B!BootNumbersOK, B!InOrder, B!Opened, B!LoadsImage, B!Images
  <2> QED BY <2>1, <2>2, <2>3 DEF B!BootTypeOK
<1>2. B!InOrder'
  BY DEF B!BootTypeOK, B!BootNumbersOK, B!InOrder, B!Images
<1>3. B!Opened'
  BY DEF B!BootTypeOK, B!BootNumbersOK, B!InOrder, B!Opened, B!LoadsImage
<1>4. B!FdlFirst' /\ B!ImagesBefore'
  BY DEF B!BootTypeOK, B!BootNumbersOK, B!InOrder, B!LoadsImage, B!FdlFirst, B!ImagesBefore,
     B!Images
<1>5. B!Counting'
  BY DEF B!BootTypeOK, B!BootNumbersOK, B!InOrder, B!Counting
<1>6. B!Settled'
  BY DEF B!BootTypeOK, B!BootNumbersOK, B!InOrder, B!Settled
<1> QED BY <1>1, <1>2, <1>3, <1>4, <1>5, <1>6

\* /dev/dloader is opened, or cannot be.
LEMMA OpenDloaderInv ==
  ASSUME B!BootInv, B!OpenDloader
  PROVE  B!BootInv'
<1> USE Constants DEF B!BootInv, B!OpenDloader, B!Fault, B!DL_SUCCESS, B!DL_FAILURE, B!None,
        B!Goto, B!bootVars, B!deviceVars, B!modemVars
<1>1. B!BootTypeOK'
  <2>1. B!BootPlacesOK'
    BY DEF B!BootTypeOK, B!BootPlacesOK, B!BootNumbersOK, B!Labels, B!Modes, B!InOrder, B!Images
  <2>2. B!BootFlagsOK'
    BY DEF B!BootTypeOK, B!BootFlagsOK
  <2>3. B!BootNumbersOK'
    BY DEF B!BootTypeOK, B!BootNumbersOK, B!InOrder, B!Opened, B!LoadsImage, B!Images
  <2> QED BY <2>1, <2>2, <2>3 DEF B!BootTypeOK
<1>2. B!InOrder'
  BY DEF B!BootTypeOK, B!BootNumbersOK, B!InOrder, B!Images
<1>3. B!Opened'
  BY DEF B!BootTypeOK, B!BootNumbersOK, B!InOrder, B!Opened, B!LoadsImage
<1>4. B!FdlFirst' /\ B!ImagesBefore'
  BY DEF B!BootTypeOK, B!BootNumbersOK, B!InOrder, B!LoadsImage, B!FdlFirst, B!ImagesBefore,
     B!Images
<1>5. B!Counting'
  BY DEF B!BootTypeOK, B!BootNumbersOK, B!InOrder, B!Counting
<1>6. B!Settled'
  BY DEF B!BootTypeOK, B!BootNumbersOK, B!InOrder, B!Settled
<1> QED BY <1>1, <1>2, <1>3, <1>4, <1>5, <1>6

\* /dev/dloader is opened again and again.
LEMMA DloaderLoopInv ==
  ASSUME B!BootInv, B!DloaderLoop
  PROVE  B!BootInv'
<1> USE Constants DEF B!BootInv, B!DloaderLoop, B!DL_SUCCESS, B!DL_FAILURE, B!None, B!Goto,
        B!bootVars, B!deviceVars, B!modemVars
<1>1. B!BootTypeOK'
  <2>1. B!BootPlacesOK'
    BY DEF B!BootTypeOK, B!BootPlacesOK, B!BootNumbersOK, B!Labels, B!Modes, B!InOrder, B!Images
  <2>2. B!BootFlagsOK'
    BY DEF B!BootTypeOK, B!BootFlagsOK
  <2>3. B!BootNumbersOK'
    BY DEF B!BootTypeOK, B!BootNumbersOK, B!InOrder, B!Opened, B!LoadsImage, B!Images
  <2> QED BY <2>1, <2>2, <2>3 DEF B!BootTypeOK
<1>2. B!InOrder'
  BY DEF B!BootTypeOK, B!BootNumbersOK, B!InOrder, B!Images
<1>3. B!Opened'
  BY DEF B!BootTypeOK, B!BootNumbersOK, B!InOrder, B!Opened, B!LoadsImage
<1>4. B!FdlFirst' /\ B!ImagesBefore'
  BY DEF B!BootTypeOK, B!BootNumbersOK, B!InOrder, B!LoadsImage, B!FdlFirst, B!ImagesBefore,
     B!Images
<1>5. B!Counting'
  BY DEF B!BootTypeOK, B!BootNumbersOK, B!InOrder, B!Counting
<1>6. B!Settled'
  BY DEF B!BootTypeOK, B!BootNumbersOK, B!InOrder, B!Settled
<1> QED BY <1>1, <1>2, <1>3, <1>4, <1>5, <1>6

\* The next image.
LEMMA NextImageInv ==
  ASSUME B!BootInv, B!NextImage
  PROVE  B!BootInv'
<1> USE Constants DEF B!BootInv, B!NextImage, B!DL_SUCCESS, B!DL_FAILURE, B!None, B!Goto,
        B!bootVars, B!deviceVars, B!modemVars
<1>1. B!BootTypeOK'
  <2>1. B!BootPlacesOK'
    BY DEF B!BootTypeOK, B!BootPlacesOK, B!BootNumbersOK, B!Labels, B!Modes, B!InOrder, B!Images
  <2>2. B!BootFlagsOK'
    BY DEF B!BootTypeOK, B!BootFlagsOK
  <2>3. B!BootNumbersOK'
    BY DEF B!BootTypeOK, B!BootNumbersOK, B!InOrder, B!Opened, B!LoadsImage, B!Images
  <2> QED BY <2>1, <2>2, <2>3 DEF B!BootTypeOK
<1>2. B!InOrder'
  BY DEF B!BootTypeOK, B!BootNumbersOK, B!InOrder, B!Images
<1>3. B!Opened'
  BY DEF B!BootTypeOK, B!BootNumbersOK, B!InOrder, B!Opened, B!LoadsImage
<1>4. B!FdlFirst' /\ B!ImagesBefore'
  BY DEF B!BootTypeOK, B!BootNumbersOK, B!InOrder, B!LoadsImage, B!FdlFirst, B!ImagesBefore,
     B!Images
<1>5. B!Counting'
  BY DEF B!BootTypeOK, B!BootNumbersOK, B!InOrder, B!Counting
<1>6. B!Settled'
  BY DEF B!BootTypeOK, B!BootNumbersOK, B!InOrder, B!Settled
<1> QED BY <1>1, <1>2, <1>3, <1>4, <1>5, <1>6

\* The images are started.
LEMMA SendExecAllInv ==
  ASSUME B!BootInv, B!SendExecAll
  PROVE  B!BootInv'
<1> USE Constants DEF B!BootInv, B!SendExecAll, B!GetExec, B!Fault, B!unanswered,
        B!DL_SUCCESS, B!DL_FAILURE, B!None, B!Goto, B!bootVars, B!deviceVars, B!modemVars
<1>1. B!BootTypeOK'
  <2>1. B!BootPlacesOK'
    BY DEF B!BootTypeOK, B!BootPlacesOK, B!BootNumbersOK, B!Labels, B!Modes, B!InOrder, B!Images
  <2>2. B!BootFlagsOK'
    BY DEF B!BootTypeOK, B!BootFlagsOK
  <2>3. B!BootNumbersOK'
    BY DEF B!BootTypeOK, B!BootNumbersOK, B!InOrder, B!Opened, B!LoadsImage, B!Images
  <2> QED BY <2>1, <2>2, <2>3 DEF B!BootTypeOK
<1>2. B!InOrder'
  BY DEF B!BootTypeOK, B!BootNumbersOK, B!InOrder, B!Images
<1>3. B!Opened'
  BY DEF B!BootTypeOK, B!BootNumbersOK, B!InOrder, B!Opened, B!LoadsImage
<1>4. B!FdlFirst' /\ B!ImagesBefore'
  BY DEF B!BootTypeOK, B!BootNumbersOK, B!InOrder, B!LoadsImage, B!FdlFirst, B!ImagesBefore,
     B!Images
<1>5. B!Counting'
  BY DEF B!BootTypeOK, B!BootNumbersOK, B!InOrder, B!Counting
<1>6. B!Settled'
  BY DEF B!BootTypeOK, B!BootNumbersOK, B!InOrder, B!Settled
<1> QED BY <1>1, <1>2, <1>3, <1>4, <1>5, <1>6

\* The modem dies.
LEMMA ModemDiesInv ==
  ASSUME B!BootInv, B!ModemDies
  PROVE  B!BootInv'
<1> USE Constants DEF B!BootInv, B!ModemDies, B!Fault, B!DL_SUCCESS, B!DL_FAILURE, B!None,
        B!Goto, B!bootVars, B!deviceVars, B!modemVars
<1>1. B!BootTypeOK'
  <2>1. B!BootPlacesOK'
    BY DEF B!BootTypeOK, B!BootPlacesOK, B!BootNumbersOK, B!Labels, B!Modes, B!InOrder, B!Images
  <2>2. B!BootFlagsOK'
    BY DEF B!BootTypeOK, B!BootFlagsOK
  <2>3. B!BootNumbersOK'
    BY DEF B!BootTypeOK, B!BootNumbersOK, B!InOrder, B!Opened, B!LoadsImage, B!Images
  <2> QED BY <2>1, <2>2, <2>3 DEF B!BootTypeOK
<1>2. B!InOrder'
  BY DEF B!BootTypeOK, B!BootNumbersOK, B!InOrder, B!Images
<1>3. B!Opened'
  BY DEF B!BootTypeOK, B!BootNumbersOK, B!InOrder, B!Opened, B!LoadsImage
<1>4. B!FdlFirst' /\ B!ImagesBefore'
  BY DEF B!BootTypeOK, B!BootNumbersOK, B!InOrder, B!LoadsImage, B!FdlFirst, B!ImagesBefore,
     B!Images
<1>5. B!Counting'
  BY DEF B!Counting, B!LeftOfFdl, B!LeftOfImage, B!Packets
<1>6. B!Settled'
  BY DEF B!BootTypeOK, B!BootNumbersOK, B!InOrder, B!Settled
<1> QED BY <1>1, <1>2, <1>3, <1>4, <1>5, <1>6

\* Every step of modem_boot() keeps its invariant, and none of them leaves it.
LEMMA BootStepInv ==
  ASSUME B!BootInv, B!Boot
  PROVE  B!BootInv' /\ bpc' # "idle"
<1>1. B!BootInv'
  BY OpenUartInv, ResetModemInv, Wait55Inv, Wait55EndsInv, PollVersionInv, Poll55Inv,
     PollNothingInv, VersionEndInv, VersionNothingInv, SendConnectInv, LoadFdlInv,
     SendStartInv, SendDataInv,
     SendEndInv, SendExecFdlInv, FailInv, ConnectedInv, SendSwitchInv, OpenDloaderInv,
     DloaderLoopInv, NextImageInv, SendExecAllInv DEF B!Boot, B!Connect
<1>2. bpc' # "idle"
  <2> USE DEF B!Goto
  <2>1. CASE B!Connect
    BY <2>1 DEF B!Connect, B!Wait55, B!Wait55Ends, B!PollVersion, B!Poll55, B!PollNothing,
       B!VersionEnd, B!VersionNothing, B!TryAgain
  <2>2. CASE B!OpenUart \/ B!ResetModem \/ B!LoadFdl \/ B!Fail \/ B!Connected \/ B!SendSwitch
             \/ B!OpenDloader \/ B!DloaderLoop
    BY <2>2 DEF B!OpenUart, B!ResetModem, B!LoadFdl, B!Fail, B!Connected, B!SendSwitch,
       B!OpenDloader, B!DloaderLoop, B!bootVars
  <2>3. CASE B!SendConnect \/ B!SendStart \/ B!SendData \/ B!SendEnd \/ B!SendExecFdl
    BY <2>3 DEF B!SendConnect, B!SendStart, B!SendData, B!SendEnd, B!SendExecFdl
  <2>4. CASE B!NextImage \/ B!SendExecAll
    BY <2>4 DEF B!NextImage, B!SendExecAll
  <2> QED BY <2>1, <2>2, <2>3, <2>4 DEF B!Boot
<1> QED BY <1>1, <1>2

\* The caller enters modem_boot() and takes its result, or does something else.
LEMMA CallerInv ==
  ASSUME B!BootInv, UNCHANGED bootRest,
         \/ bpc' = bpc
         \/ bpc = "idle" /\ bpc' = "open"
         \/ bpc = "returned" /\ bpc' = "idle"
  PROVE  B!BootInv'
<1> USE Constants DEF B!BootInv, bootRest
<1>1. B!BootTypeOK'
  BY DEF B!BootTypeOK, B!BootPlacesOK, B!BootFlagsOK, B!BootNumbersOK, B!Labels
<1>2. B!InOrder' /\ B!Opened' /\ B!FdlFirst' /\ B!ImagesBefore'
  BY DEF B!InOrder, B!Opened, B!FdlFirst, B!ImagesBefore, B!LoadsImage
<1>3. B!Counting' /\ B!Settled'
  BY DEF B!Counting, B!LeftOfFdl, B!LeftOfImage, B!Settled
<1> QED BY <1>1, <1>2, <1>3

\* The initial state.
LEMMA InitInv == Init => ControlInv
<1> SUFFICES ASSUME Init PROVE ControlInv
  OBVIOUS
<1> USE Constants, ControlAssumption DEF Init, B!BootInit, B!DL_SUCCESS, B!DL_FAILURE, B!None
<1>1. B!BootTypeOK
  <2>1. B!BootPlacesOK
    BY DEF B!BootPlacesOK, B!Labels, B!Modes
  <2>2. B!BootFlagsOK
    BY DEF B!BootFlagsOK
  <2>3. B!BootNumbersOK
    BY DEF B!BootNumbersOK
  <2> QED BY <2>1, <2>2, <2>3 DEF B!BootTypeOK
<1>2. TypeOK
  <2>1. alive \in BOOLEAN /\ reset \in BOOLEAN
    OBVIOUS
  <2>2. bpc = "idle" /\ modem_state # "BOOT"
    OBVIOUS
  <2>3. client_fd \in [Entries -> {"unset", "free", "live", "dead"}] /\ asserts \in 0 .. MaxAsserts
    OBVIOUS
  <2> QED BY <1>1, <2>1, <2>2, <2>3 DEF TypeOK
<1>3. KnownAlive /\ NothingSaid /\ MonitorResumed
  BY DEF KnownAlive, NothingSaid, MonitorResumed
<1>4. B!InOrder /\ B!Opened /\ B!FdlFirst /\ B!ImagesBefore /\ B!Counting /\ B!Settled
  BY DEF B!InOrder, B!Opened, B!FdlFirst, B!ImagesBefore, B!Counting, B!Settled, B!LoadsImage
<1> QED BY <1>1, <1>2, <1>3, <1>4 DEF ControlInv, B!BootInv

\* A message of the modem is processed.
LEMMA ProcessInv ==
  ASSUME ControlInv, Process \/ Ignored
  PROVE  ControlInv'
<1> USE DEF ControlInv, Process, Ignored, BecomesAlive, FirstBoot, AssertReset, Asserted,
        AliveReset, Reads, Enter, Signal, Broadcast, Silent, lineVars
<1>0. bpc = "idle"
  BY DEF TypeOK
<1>1. B!BootInv'
  <2>1. UNCHANGED bootRest /\ bpc' \in {"idle", "open"}
    BY <1>0
  <2> QED BY <1>0, <2>1, CallerInv DEF bootRest
<1>2. TypeOK'
  <2>1. alive' = alive /\ reset' = reset /\ asserts' = asserts /\ client_fd' = client_fd
    OBVIOUS
  <2>2. killed' \in BOOLEAN
    BY DEF TypeOK
  <2>3. /\ modem_state' \in {"INIT", "BOOT", "ALIVE", "ASSERT", "BOOTCOMP"}
        /\ flash_less_flag' \in {"unknown", "nand", "flashless", "flashless alive"}
        /\ said' \in {"nothing", "Alive", "Assert"} /\ monitor' \in {"absent", "watching", "paused"}
    BY DEF TypeOK, CheckFlash
  <2>4. (modem_state' = "BOOT") # (bpc' = "idle")
    BY <1>0 DEF TypeOK
  <2> QED BY <1>1, <2>1, <2>2, <2>3, <2>4 DEF TypeOK, B!BootInv
<1>3. KnownAlive'
  BY DEF TypeOK, KnownAlive, CheckFlash
<1>4. NothingSaid' /\ (modem_state' = "ALIVE" => said' # "Assert")
  BY DEF TypeOK, NothingSaid
<1>5. MonitorResumed'
  BY DEF TypeOK, KnownAlive, MonitorResumed, first_alive
<1> QED BY <1>1, <1>2, <1>3, <1>4, <1>5

\* modem_boot() goes on, or has returned.
LEMMA BootingInv ==
  ASSUME ControlInv, BootStep \/ BootReturned
  PROVE  ControlInv'
<1> USE DEF ControlInv, controlVars, lineVars
<1>1. CASE BootStep
  <2>1. B!BootInv' /\ bpc' # "idle"
    BY <1>1, BootStepInv DEF BootStep
  <2>2. TypeOK'
    BY <1>1, <2>1 DEF BootStep, TypeOK, B!BootInv
  <2> QED BY <1>1, <2>1, <2>2 DEF BootStep, KnownAlive, NothingSaid, MonitorResumed
<1>2. CASE BootReturned
  <2>1. B!BootInv'
    BY <1>2, CallerInv DEF BootReturned
  <2>2. TypeOK'
    BY <1>2, <2>1 DEF BootReturned, TypeOK, B!BootInv
  <2> QED BY <1>2, <2>1, <2>2 DEF BootReturned, KnownAlive, NothingSaid, MonitorResumed
<1> QED BY <1>1, <1>2

\* The modem, the clients and sprd_monitor.
LEMMA OthersInv ==
  ASSUME ControlInv, ComesUp \/ AsksForReset \/ Environment
  PROVE  ControlInv'
<1> USE ControlAssumption DEF ControlInv, controlVars, lineVars
<1>1. B!BootInv' /\ bpc' = bpc
  <2>1. CASE DiesInBoot
    BY <2>1, ModemDiesInv DEF DiesInBoot, B!ModemDies, B!bootVars
  <2>2. CASE Asserts
    <3> USE <2>2 DEF Asserts, unchangedBoot, B!BootInv
    <3>1. B!BootTypeOK'
      BY DEF B!BootTypeOK, B!BootPlacesOK, B!BootFlagsOK, B!BootNumbersOK, B!Modes
    <3>2. B!InOrder' /\ B!Opened' /\ B!FdlFirst' /\ B!ImagesBefore'
      BY DEF B!InOrder, B!Opened, B!FdlFirst, B!ImagesBefore, B!LoadsImage
    <3>3. B!Counting' /\ B!Settled'
      BY DEF B!Counting, B!LeftOfFdl, B!LeftOfImage, B!Settled
    <3> QED BY <3>1, <3>2, <3>3
  <2>3. CASE \/ ComesUp \/ AsksForReset \/ Listen \/ AcceptClient \/ ClientGoes
             \/ AsksWhileAlive \/ MonitorRestarts
    <3>1. UNCHANGED bootRest /\ bpc' = bpc
      BY <2>3 DEF ComesUp, AsksForReset, Listen, AcceptClient, ClientGoes, AsksWhileAlive,
         MonitorRestarts
    <3> QED BY <3>1, CallerInv DEF bootRest
  <2> QED BY <2>1, <2>2, <2>3 DEF Environment
<1>2. TypeOK'
  <2>1. (modem_state' = "BOOT") # (bpc' = "idle")
    BY <1>1 DEF TypeOK, Environment, ComesUp, AsksForReset, Listen, AcceptClient, ClientGoes,
       Asserts, AsksWhileAlive, DiesInBoot, MonitorRestarts
  <2>2. CASE Listen \/ AcceptClient \/ ClientGoes
    <3>1. client_fd' \in [Entries -> {"unset", "free", "live", "dead"}]
      BY <2>2 DEF TypeOK, Listen, AcceptClient, ClientGoes
    <3>2. killed' \in BOOLEAN
      BY <2>2 DEF TypeOK, Listen, AcceptClient, ClientGoes
    <3> QED BY <1>1, <2>1, <2>2, <3>1, <3>2
            DEF B!BootInv, TypeOK, Listen, AcceptClient, ClientGoes
  <2>3. CASE Asserts \/ AsksWhileAlive
    <3>1. asserts' \in 0 .. MaxAsserts
      <4>1. asserts \in 0 .. MaxAsserts /\ MaxAsserts \in Nat
        BY DEF TypeOK
      <4>2. asserts < MaxAsserts /\ asserts' = asserts + 1
        BY <2>3 DEF Asserts, AsksWhileAlive
      <4> QED BY <4>1, <4>2
    <3>2. alive' \in BOOLEAN /\ reset' \in BOOLEAN
      BY <2>3 DEF TypeOK, Asserts, AsksWhileAlive
    <3> QED BY <1>1, <2>1, <2>3, <3>1, <3>2 DEF B!BootInv, TypeOK, Asserts, AsksWhileAlive
  <2>4. CASE ComesUp \/ AsksForReset \/ DiesInBoot \/ MonitorRestarts
    BY <1>1, <2>1, <2>4 DEF B!BootInv, TypeOK, ComesUp, AsksForReset, DiesInBoot, MonitorRestarts
  <2> QED BY <2>2, <2>3, <2>4 DEF Environment
<1>3. KnownAlive' /\ NothingSaid' /\ MonitorResumed' /\ (modem_state' = "ALIVE" => said' # "Assert")
  BY DEF KnownAlive, NothingSaid, MonitorResumed, Environment, ComesUp, AsksForReset, Listen,
     AcceptClient, ClientGoes, Asserts, AsksWhileAlive, DiesInBoot, MonitorRestarts
<1> QED BY <1>1, <1>2, <1>3

\* Every step keeps the invariant.
LEMMA NextInv == ControlInv /\ [Next]_vars => ControlInv'
<1> SUFFICES ASSUME ControlInv, [Next]_vars PROVE ControlInv'
  OBVIOUS
<1>1. CASE Next
  BY <1>1, ProcessInv, BootingInv, OthersInv DEF Next
<1>2. CASE UNCHANGED vars
  <2> USE <1>2 DEF vars, controlVars, lineVars, ControlInv
  <2>1. B!BootInv'
    <3>1. UNCHANGED bootRest /\ bpc' = bpc
      OBVIOUS
    <3> QED BY <3>1, CallerInv DEF bootRest
  <2>2. TypeOK'
    BY <2>1 DEF TypeOK, B!BootInv
  <2> QED BY <2>1, <2>2 DEF KnownAlive, NothingSaid, MonitorResumed
<1> QED BY <1>1, <1>2

\* ControlInv holds in every reachable state, for every number and size of
\* images within what the code's constants satisfy, and every number of
\* clients, asserts and faults.
THEOREM ControlInvariant == Spec => []ControlInv
<1> QED BY InitInv, NextInv, PTL DEF Spec

\* While modem_control runs, sprd_monitor is not left stopped once the modem is
\* alive (main.c lines 228-241, 254, 271, 284).
THEOREM MonitorRuns == Spec => []MonitorResumed
<1>1. ControlInv => MonitorResumed
  BY DEF ControlInv
<1> QED BY <1>1, ControlInvariant, PTL

\* While the modem is alive the clients were not told last that it asserted.
THEOREM ClientsKnow == Spec => []ClientsUpToDate
<1>1. ControlInv => ClientsUpToDate
  BY DEF ControlInv, ClientsUpToDate
<1> QED BY <1>1, ControlInvariant, PTL

\* A boot that returns 0 has given the modem every image that could be opened.
THEOREM BootComplete == Spec => []FinishedIsComplete
<1>1. ControlInv => FinishedIsComplete
  BY DEF ControlInv, B!BootInv, B!FdlFirst, B!ImagesBefore, FinishedIsComplete
<1> QED BY <1>1, ControlInvariant, PTL

\* The packets sent of an image are those its start message has announced,
\* for every size of the images.
THEOREM MessagesCounted == Spec => []MessagesInOrder
<1>1. ControlInv => MessagesInOrder
  BY DEF ControlInv, B!BootInv, B!Settled, MessagesInOrder
<1> QED BY <1>1, ControlInvariant, PTL

\* Every way back to reboot_modem and out of modem_boot() closes both devices.
THEOREM NoDescriptorLeak == Spec => []DescriptorsClosed
<1>1. ControlInv => DescriptorsClosed
  BY DEF ControlInv, B!BootInv, B!Opened, B!LoadsImage, DescriptorsClosed
<1> QED BY <1>1, ControlInvariant, PTL
=============================================================================
