---------------------------- MODULE PacketFormat ----------------------------
(***************************************************************************)
(* The byte layout of an R2CP packet that the architecture's drawings      *)
(* describe: a header of magic number and size, the number of commands,    *)
(* and the commands, each a code, a size and a content.  The reference the *)
(* parser is checked against.                                              *)
(*                                                                         *)
(* A command is a code and its parameters, a parameter a code and its      *)
(* data; raw data is one parameter of code NOPARAMETERS.                   *)
(***************************************************************************)
EXTENDS CommandDictionary, Sequences, SequencesExt

CONSTANTS ByteModulus,      \* 256: how many values a byte has
          WordBytes,        \* 4: the bytes of a uint32_t
          R2CPMAGICNUMBER, RRCPMAGICNUMBER

\* What a byte of a word counts for when n others follow it.
Weight[n \in 0 .. WordBytes] == IF n = 0 THEN 1 ELSE ByteModulus * Weight[n - 1]

\* 2^32
WordModulus == Weight[WordBytes]

ASSUME FormatAssumption ==
    /\ ByteModulus \in Nat \ {0, 1} /\ WordBytes \in Nat \ {0}
    /\ {R2CPMAGICNUMBER, RRCPMAGICNUMBER} \subseteq 0 .. WordModulus - 1

MINR2CPPACKETSIZE == 2 * WordBytes

\* The most significant byte first.
WordToBytes(n) ==
    [i \in 1 .. WordBytes |-> (n \div Weight[WordBytes - i]) % ByteModulus]

ParameterBytes(p) == WordToBytes(p.code) \o WordToBytes(Len(p.data)) \o p.data

\* The content type is the code's, or direct for a code the dictionary lacks.
Content(k) ==
    IF getcommandcontenttype(k.code) = PARAMETERIZEDCONTENT
    THEN WordToBytes(Len(k.parameters))
            \o FlattenSeq([i \in DOMAIN k.parameters |-> ParameterBytes(k.parameters[i])])
    ELSE FlattenSeq([i \in DOMAIN k.parameters |-> k.parameters[i].data])

CommandBytes(k) == WordToBytes(k.code) \o WordToBytes(Len(Content(k))) \o Content(k)

PacketBytes(magic, commands) ==
    LET body == WordToBytes(Len(commands))
                  \o FlattenSeq([i \in DOMAIN commands |-> CommandBytes(commands[i])])
    IN  WordToBytes(magic) \o WordToBytes(Len(body)) \o body
=============================================================================
