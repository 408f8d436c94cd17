--------------------------- MODULE MCPacketCodec ---------------------------
(***************************************************************************)
(* Instances of PacketCodec for TLC: words of two bytes of 8 values.       *)
(***************************************************************************)
EXTENDS PacketCodec, TLC

Command(code, parameters) == [code |-> code, parameters |-> parameters]
Parameter(code, data) == [code |-> code, data |-> data]

Disable == Command(2, <<>>)
Message == Command(PRINTMESSAGE, <<Parameter(NOPARAMETERS, <<1, 0>>)>>)
Silence == Command(PRINTMESSAGE, <<Parameter(NOPARAMETERS, <<>>)>>)
NoDuty == Command(MOTORDUTYCYCLE, <<>>)
Duty == Command(MOTORDUTYCYCLE, <<Parameter(1, <<2>>), Parameter(2, <<>>)>>)
Height == Command(IMAGESEND, <<Parameter(3, <<>>), Parameter(IMAGEHEIGHT, <<4>>)>>)
Nameless == Command(INVALIDCOMMAND, <<>>)
Foreign == Command(12, <<>>)
ForeignMessage == Command(12, <<Parameter(NOPARAMETERS, <<1>>)>>)

MCCommandLists == {
    <<>>, <<NoDuty>>, <<Duty>>, <<Disable, Message>>, <<Height, Disable>>,
    <<Silence, Foreign, Disable>>, <<Nameless, Silence>>, <<ForeignMessage>>,
    <<Message, Duty>>, <<NoDuty, Nameless, NoDuty>>}
=============================================================================
