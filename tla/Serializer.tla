----------------------------- MODULE Serializer -----------------------------
(***************************************************************************)
(* R2CPSerializer: serializecommands, which is to make a packet of the     *)
(* commands that robot modules answer with.                                *)
(*                                                                         *)
(* A packet being written is its bytes so far, the offset on top of        *)
(* serializingoffsetstack and the exception thrown, if any.  The stack is  *)
(* of uint8_t, so an offset is one byte.                                   *)
(***************************************************************************)
EXTENDS PacketFormat, Integers

Writing(bytes) == [bytes |-> bytes, offset |-> 0, thrown |-> "none"]

\* The room asked for is inside the vector; the bytes go behind its end.
writebytestor2cppacket(s, bytes) ==
    IF s.thrown # "none" THEN s
    ELSE IF (s.offset + Len(bytes)) % WordModulus <= Len(s.bytes)
    THEN [s EXCEPT !.bytes = @ \o bytes, !.offset = (@ + Len(bytes)) % ByteModulus]
    ELSE [s EXCEPT !.thrown = "out_of_range"]

writeuin32tor2cppacket(s, n) == writebytestor2cppacket(s, WordToBytes(n))

DataSize(parameters) ==
    LET size[i \in 0 .. Len(parameters)] ==
            IF i = 0 THEN 0 ELSE size[i - 1] + Len(parameters[i].data)
    IN  size[Len(parameters)]

\* Mutant of precomputecommandcontentsize: the parameter count has no room.
SizeWithoutCount(parameters) ==
    (Len(parameters) * 2 * WordBytes + DataSize(parameters)) % WordModulus

precomputecommandcontentsize(parameters) ==
    (WordBytes + Len(parameters) * 2 * WordBytes + DataSize(parameters)) % WordModulus

IsDirect(parameters) == Len(parameters) = 1 /\ parameters[1].code = NOPARAMETERS

\* The content type is told from the parameters, not from the command's code.
ContentSize(parameters) ==
    CASE parameters = <<>> -> 0
      [] IsDirect(parameters) -> Len(parameters[1].data)
      [] OTHER -> precomputecommandcontentsize(parameters)

precomputer2cppacketsize(commands) ==
    LET size[i \in 0 .. Len(commands)] ==
            IF i = 0 THEN (WordBytes + Len(commands) * 2 * WordBytes) % WordModulus
            ELSE (size[i - 1] + ContentSize(commands[i].parameters)) % WordModulus
    IN  size[Len(commands)]

\* The content starts as zeros of its full size, and the parameters go behind
\* them; their number is not written.
serializeparameterizedcommandcontent(parameters) ==
    FoldLeft(LAMBDA s, p : writebytestor2cppacket(
                             writeuin32tor2cppacket(
                               writeuin32tor2cppacket(s, p.code), Len(p.data)), p.data),
             Writing([i \in 1 .. precomputecommandcontentsize(parameters) |-> 0]),
             parameters)

SerializeCommand(s, k) ==
    LET parameterized == serializeparameterizedcommandcontent(k.parameters)
        content == CASE k.parameters = <<>> -> <<>>
                     [] IsDirect(k.parameters) -> k.parameters[1].data
                     [] OTHER -> parameterized.bytes
    IN  IF s.thrown # "none" THEN s
        ELSE IF k.parameters # <<>> /\ ~IsDirect(k.parameters) /\ parameterized.thrown # "none"
        THEN [s EXCEPT !.thrown = parameterized.thrown]
        ELSE writebytestor2cppacket(
               writeuin32tor2cppacket(
                 writeuin32tor2cppacket(s, k.code), Len(content)), content)

serializecommands(commands) ==
    LET magic == writeuin32tor2cppacket(Writing(<<>>), R2CPMAGICNUMBER)
        header == IF commands = <<>>
                  THEN writeuin32tor2cppacket(magic, 0)
                  ELSE writeuin32tor2cppacket(
                         writeuin32tor2cppacket(magic, precomputer2cppacketsize(commands)),
                         Len(commands))
    IN  FoldLeft(SerializeCommand, header, commands)
=============================================================================
