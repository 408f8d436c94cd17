------------------------- MODULE CommandDictionary -------------------------
(***************************************************************************)
(* R2CPCommandDictionary: which command codes there are, what content a    *)
(* command of each has and which parameters.  Built once, never changed.   *)
(***************************************************************************)
EXTENDS Naturals

\* MOTORPWMENABLE, MOTORPWMDISABLE, MOTORIDLE and ROBOTSHUTDOWN are 1, 2, 3, 7.
MOTORDUTYCYCLE == 4
IMAGESEND == 5
IMAGERECEIVE == 6
PRINTMESSAGE == 8
INVALIDCOMMAND == 9

NOPARAMETERS == 0
IMAGEHEIGHT == 4
INVALIDPARAMETER == 11

NOCONTENT == 0
DIRECTCONTENT == 1
PARAMETERIZEDCONTENT == 2

commandsset == 1 .. 9

\* The image parameters go into the set meant for the motor's, which both kinds
\* of command share; IMAGEHEIGHT goes into none.
motordutycycleparametersset == 1 .. 10 \ {IMAGEHEIGHT}

commandparametersmap ==
    [c \in commandsset |->
        CASE c \in {MOTORDUTYCYCLE, IMAGESEND, IMAGERECEIVE} -> motordutycycleparametersset
          [] c = INVALIDCOMMAND -> {INVALIDPARAMETER}
          [] OTHER -> {NOPARAMETERS}]

commandcontenttypemap ==
    [c \in commandsset |->
        CASE c \in {MOTORDUTYCYCLE, IMAGESEND, IMAGERECEIVE} -> PARAMETERIZEDCONTENT
          [] c = PRINTMESSAGE -> DIRECTCONTENT
          [] OTHER -> NOCONTENT]

getcommandparameters(c) ==
    IF c \in commandsset THEN commandparametersmap[c] ELSE {INVALIDPARAMETER}

getcommandcontenttype(c) ==
    IF c \in commandsset THEN commandcontenttypemap[c] ELSE NOCONTENT

\* Mutant of checkifvalidcommand: INVALIDCOMMAND passes.
AnyInDictionary(c) == c \in commandsset

checkifvalidcommand(c) == c \in commandsset \ {INVALIDCOMMAND}
=============================================================================
