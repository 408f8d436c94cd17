------------------------------- MODULE Parser -------------------------------
(***************************************************************************)
(* R2CPParser: validater2cppacket, which says whether the structure of a   *)
(* packet is right, and parser2cppacket, which validates, reads the packet *)
(* a second time and returns its commands.                                 *)
(*                                                                         *)
(* Each level of parsingoffsetstack belongs to one function at a time, so  *)
(* an offset is a value that a function hands from step to step.           *)
(***************************************************************************)
EXTENDS PacketFormat, Integers

\* readr2cppacketasuint32
WordAt(bytes, offset) ==
    LET n[i \in 0 .. WordBytes] == IF i = 0 THEN 0 ELSE n[i - 1] * ByteModulus + bytes[offset + i]
    IN  n[WordBytes]

BytesAt(bytes, offset, n) == SubSeq(bytes, offset + 1, offset + n)

\* Reading n bytes does not throw std::out_of_range.  The sum is a uint32_t, but
\* one that wraps and passes the test throws the same from at.
CanRead(bytes, offset, n) == offset + n <= Len(bytes)

\* skipbytesfromr2cppacket tests nothing, and its sum does wrap.
Skip(offset, n) == (offset + n) % WordModulus

\* The state of a loop after n turns.
Repeat(n, Body(_), start) ==
    LET state[i \in 0 .. n] == IF i = 0 THEN start ELSE Body(state[i - 1])
    IN  state[n]

-----------------------------------------------------------------------------
(* The validation *)

\* The offset of a loop that std::out_of_range or a wrong command has ended.
Ended == -1

\* One turn: the code is skipped unread, the size read, the data skipped.
ValidateParameter(content, offset) ==
    LET size == Skip(offset, WordBytes) IN
    IF offset # Ended /\ CanRead(content, size, WordBytes)
    THEN Skip(size + WordBytes, WordAt(content, size))
    ELSE Ended

\* Mutant of validateparameterizedcommandcontent: the end is not looked for.
ValidateWithoutEnd(content) ==
    /\ CanRead(content, 0, WordBytes)
    /\ Repeat(WordAt(content, 0), LAMBDA o : ValidateParameter(content, o), WordBytes) # Ended

validateparameterizedcommandcontent(content) ==
    /\ CanRead(content, 0, WordBytes)
    /\ Repeat(WordAt(content, 0), LAMBDA o : ValidateParameter(content, o), WordBytes)
         = Len(content)

\* Mutant of validatecommandcontent: the size of NOCONTENT is not tested.
ValidateAnyContent(code, content) ==
    getcommandcontenttype(code) = PARAMETERIZEDCONTENT =>
        validateparameterizedcommandcontent(content)

\* A code that the dictionary lacks counts as NOCONTENT.
validatecommandcontent(code, content) ==
    CASE getcommandcontenttype(code) = PARAMETERIZEDCONTENT ->
           validateparameterizedcommandcontent(content)
      [] getcommandcontenttype(code) = NOCONTENT -> content = <<>>
      [] OTHER -> TRUE

ValidateCommand(bytes, offset) ==
    LET content == offset + 2 * WordBytes
        size == WordAt(bytes, offset + WordBytes)
    IN  IF /\ offset # Ended
           /\ CanRead(bytes, offset, 2 * WordBytes)
           /\ CanRead(bytes, content, size)
           /\ validatecommandcontent(WordAt(bytes, offset), BytesAt(bytes, content, size))
        THEN content + size
        ELSE Ended

validatecommandsfromr2cppacket(bytes) ==
    /\ CanRead(bytes, 0, WordBytes)
    /\ Repeat(WordAt(bytes, 0), LAMBDA o : ValidateCommand(bytes, o), WordBytes) = Len(bytes)

validater2cppacket(packet) ==
    /\ Len(packet) >= MINR2CPPACKETSIZE
    /\ WordAt(packet, 0) \in {R2CPMAGICNUMBER, RRCPMAGICNUMBER}
    /\ LET size == WordAt(packet, WordBytes) IN
        /\ Len(packet) = (MINR2CPPACKETSIZE + size) % WordModulus
        /\ size # 0 =>
             validatecommandsfromr2cppacket(BytesAt(packet, MINR2CPPACKETSIZE, size))

-----------------------------------------------------------------------------
(* The parse.  A result has what was read and the exception thrown, if any. *)

Throw(result, exception) == [result EXCEPT !.thrown = exception]

\* One turn of the loop over the parameters of a command.
ParseParameter(code, content, s) ==
    LET size == WordAt(content, s.offset + WordBytes)
        data == s.offset + 2 * WordBytes
        parameter == WordAt(content, s.offset)
    IN  IF s.thrown # "none" THEN s
        ELSE IF ~CanRead(content, s.offset, WordBytes) THEN Throw(s, "out_of_range")
        ELSE IF parameter \notin getcommandparameters(code) THEN Throw(s, "invalid_argument")
        ELSE IF ~CanRead(content, s.offset, 2 * WordBytes) \/ ~CanRead(content, data, size)
        THEN Throw(s, "out_of_range")
        ELSE [s EXCEPT !.offset = data + size,
                       !.parameters = Append(@, [code |-> parameter,
                                                 data |-> BytesAt(content, data, size)])]

\* Mutant of parseparameterizedcommandcontent: the parameter that is not the
\* command's ends the loop, and is forgotten.
ParseUpToFault(code, content) ==
    [Repeat(WordAt(content, 0), LAMBDA s : ParseParameter(code, content, s),
            [offset |-> WordBytes, parameters |-> <<>>, thrown |-> "none"])
        EXCEPT !.thrown = "none"]

parseparameterizedcommandcontent(code, content) ==
    LET start == [offset |-> WordBytes, parameters |-> <<>>, thrown |-> "none"] IN
    IF CanRead(content, 0, WordBytes)
    THEN Repeat(WordAt(content, 0), LAMBDA s : ParseParameter(code, content, s), start)
    ELSE Throw(start, "out_of_range")

parsecommandcontent(code, content) ==
    LET result(parameters) == [parameters |-> parameters, thrown |-> "none"] IN
    CASE getcommandcontenttype(code) = DIRECTCONTENT ->
           result(<<[code |-> NOPARAMETERS, data |-> content]>>)
      [] getcommandcontenttype(code) = PARAMETERIZEDCONTENT ->
           parseparameterizedcommandcontent(code, content)
      [] OTHER -> result(<<>>)

\* One turn of the loop over the commands: one of an invalid code is skipped,
\* one with a parameter that is not its own is read and discarded.
ParseCommand(packet, s) ==
    LET code == WordAt(packet, s.offset)
        size == WordAt(packet, s.offset + WordBytes)
        start == s.offset + 2 * WordBytes
        content == parsecommandcontent(code, BytesAt(packet, start, size))
    IN  IF s.thrown # "none" THEN s
        ELSE IF ~CanRead(packet, s.offset, 2 * WordBytes) THEN Throw(s, "out_of_range")
        ELSE IF ~checkifvalidcommand(code) THEN [s EXCEPT !.offset = Skip(start, size)]
        ELSE IF ~CanRead(packet, start, size) \/ content.thrown = "out_of_range"
        THEN Throw(s, "out_of_range")
        ELSE [s EXCEPT !.offset = start + size,
                       !.commands = IF content.thrown = "none"
                                    THEN Append(@, [code |-> code,
                                                    parameters |-> content.parameters])
                                    ELSE @]

\* Nothing but invalid_argument has a handler in the caller.
parser2cppacket(packet) ==
    LET start == [offset |-> MINR2CPPACKETSIZE + WordBytes, commands |-> <<>>, thrown |-> "none"]
        count == WordAt(packet, MINR2CPPACKETSIZE)
    IN  IF ~validater2cppacket(packet) THEN Throw(start, "invalid_argument")
        ELSE IF ~CanRead(packet, MINR2CPPACKETSIZE, WordBytes) THEN Throw(start, "out_of_range")
        ELSE Repeat(count, LAMBDA s : ParseCommand(packet, s), start)
=============================================================================
