---------------------------- MODULE PacketCodec ----------------------------
(***************************************************************************)
(* Parser and serializer against the packet format: what the parser makes  *)
(* of the packets a client may send, those built from commands as the      *)
(* format has it and those that differ from one of them in a few bytes or  *)
(* have lost or gained bytes at the end; and what the serializer makes of  *)
(* the same commands as an answer.                                         *)
(***************************************************************************)
EXTENDS Parser, Serializer, Base64

CONSTANTS CommandLists,  \* the commands of each packet
          Bytes,         \* the values of the bytes that differ
          MaxChanges,    \* bound: differences
          Magics         \* the magic numbers clients put first

Byte == 0 .. ByteModulus - 1
Word == 0 .. WordModulus - 1
R2CPParameter == [code : Word, data : Seq(Byte)]
R2CPCommand == [code : Word, parameters : Seq(R2CPParameter)]

ASSUME CodecAssumption ==
    /\ ByteModulus <= ByteValues
    /\ CommandLists \subseteq Seq(R2CPCommand)
    /\ Bytes \subseteq Byte
    /\ MaxChanges \in Nat
    /\ Magics \subseteq {R2CPMAGICNUMBER, RRCPMAGICNUMBER}

\* The content of a command is parameters if its code takes them, else raw data,
\* which is no content at all where there is none.
WellFormed(k) ==
    /\ getcommandcontenttype(k.code) = PARAMETERIZEDCONTENT => ~IsDirect(k.parameters)
    /\ getcommandcontenttype(k.code) = DIRECTCONTENT => IsDirect(k.parameters)
    /\ getcommandcontenttype(k.code) = NOCONTENT /\ k.parameters # <<>> =>
         IsDirect(k.parameters) /\ k.parameters[1].data # <<>>

\* The size in the header, of one word, can tell how long a packet is.
ASSUME ClientAssumption ==
    \A list \in CommandLists :
        /\ \A i \in DOMAIN list : WellFormed(list[i])
        /\ Len(PacketBytes(R2CPMAGICNUMBER, list)) < WordModulus

VARIABLES magic, commands,  \* what the client builds from
          packet,           \* the bytes it sends
          changes           \* how many differences there are

vars == <<magic, commands, packet, changes>>

Init ==
    /\ magic \in Magics /\ commands \in CommandLists
    /\ packet = PacketBytes(magic, commands)
    /\ changes = 0

Change(bytes) ==
    /\ changes < MaxChanges /\ changes' = changes + 1
    /\ packet' = bytes
    /\ UNCHANGED <<magic, commands>>

Replace(i, b) == packet[i] # b /\ Change([packet EXCEPT ![i] = b])

Lose == packet # <<>> /\ Change(Front(packet))

Gain(b) == Change(Append(packet, b))

Next ==
    \/ \E i \in DOMAIN packet, b \in Bytes : Replace(i, b)
    \/ Lose
    \/ \E b \in Bytes : Gain(b)

Spec == Init /\ [][Next]_vars

-----------------------------------------------------------------------------
(* Properties *)

\* No word after the header is so large that adding it to an offset wraps.
WordsFit ==
    \A o \in MINR2CPPACKETSIZE .. Len(packet) - WordBytes :
        WordAt(packet, o) + Len(packet) < WordModulus

HeaderOnly == Len(packet) = MINR2CPPACKETSIZE

\* The validation vouches for the parse: a packet it accepts never makes the
\* second reading throw out_of_range, which nothing in the processing thread
\* catches.  But for the packet of a header only, and sizes that wrap.
AcceptedParses ==
    WordsFit /\ ~HeaderOnly /\ validater2cppacket(packet) =>
        parser2cppacket(packet).thrown = "none"

\* Nothing of an accepted packet is lost: when no command is discarded, what
\* the parse returns is all that the packet holds, byte for byte.
NothingLost ==
    LET result == parser2cppacket(packet) IN
    /\ result.thrown = "none"
    /\ Len(result.commands) = WordAt(packet, MINR2CPPACKETSIZE)
    => packet = PacketBytes(WordAt(packet, 0), result.commands)

KnownParameters(k) ==
    getcommandcontenttype(k.code) = PARAMETERIZEDCONTENT =>
        \A i \in DOMAIN k.parameters : k.parameters[i].code \in getcommandparameters(k.code)

\* A command whose code takes no content has none.
ContentIsExpected(k) == getcommandcontenttype(k.code) = NOCONTENT => Content(k) = <<>>

\* A command counts if the dictionary has its code and its parameters.
Kept(k) == IF checkifvalidcommand(k.code) /\ KnownParameters(k) THEN <<k>> ELSE <<>>

OfDictionary(list) == FlattenSeq([i \in DOMAIN list |-> Kept(list[i])])

\* A client's commands arrive as they were sent and in order, each of them whole,
\* whatever commands that the dictionary lacks are between them.  Whether these
\* arrive too is left open: the parser discards them, and the drawings leave it
\* to the robot modules which codes are valid (R2CPArchitecture.drawio:913).
CommandsArrive ==
    /\ changes = 0
    /\ \A i \in DOMAIN commands : ContentIsExpected(commands[i])
    => LET result == parser2cppacket(packet) IN
       /\ result.thrown = "none"
       /\ OfDictionary(result.commands) = OfDictionary(commands)

\* Whatever the bytes, robot modules get commands of the dictionary's codes only,
\* but for the one that means an invalid command, and with the parameters that
\* the dictionary has for the code, or raw data where that is its content.  This is
\* checkifvalidcommand; the drawings would leave it to the modules (drawio:913).
OnlyKnownCommands ==
    \A k \in ToSet(parser2cppacket(packet).commands) :
        /\ k.code \in commandsset \ {INVALIDCOMMAND}
        /\ \A i \in DOMAIN k.parameters :
             k.parameters[i].code \in getcommandparameters(k.code)

\* The size the serializer computes before it writes is the size the packet has
\* by the size theorems of the drawings.  But for a parameterized command with
\* no parameters, whose parameter count the serializer leaves out.
SizeIsTheFormats ==
    (\A i \in DOMAIN commands :
        getcommandcontenttype(commands[i].code) = PARAMETERIZEDCONTENT =>
            commands[i].parameters # <<>>)
    => precomputer2cppacketsize(commands)
         = Len(PacketBytes(magic, commands)) - MINR2CPPACKETSIZE

\* The packet, shifted into each part of the values a byte of Base64 has.
Buffers ==
    {[i \in DOMAIN packet |-> packet[i] + part * ByteModulus] :
        part \in 0 .. (ByteValues \div ByteModulus) - 1}

\* Text carries a packet of any length both ways: decode undoes encode, and a
\* message that ends early never gives a byte the packet does not have there.
TextCarriesPacket ==
    \A buf \in Buffers :
        LET text == base64_encode(buf) IN
        /\ base64_decode(text) = buf
        /\ \A n \in DOMAIN text : IsPrefix(base64_decode(SubSeq(text, 1, n - 1)), buf)

\* The serializer makes a packet of the response commands.
ResponsesAreSerialized ==
    commands # <<>> => serializecommands(commands).thrown = "none"
=============================================================================
