------------------------------ MODULE Programs ------------------------------
(***************************************************************************)
(* The small programs and parts of programs that run from an input to an   *)
(* end, one of which runs in each behaviour: mygrep, mywhich, bitstest's   *)
(* calls of bits.c, the script parser and verify_block of alloctest,       *)
(* thesaurus and simple.                                                   *)
(***************************************************************************)
EXTENDS MyGrep, MyWhich, Bits, Script, VerifyCalls, Thesaurus, Simple

VARIABLE program

vars == <<program, grepVars, whichVars, bitsVars, scriptVars, verifyVars, thesaurusVars, simpleVars>>

Others(running) ==
    /\ running # "mygrep"       => GrepOff
    /\ running # "mywhich"      => WhichOff
    /\ running # "bitstest"     => BitsOff
    /\ running # "parse_script" => ScriptOff
    /\ running # "verify_block" => VerifyOff
    /\ running # "thesaurus"    => ThesaurusOff
    /\ running # "simple"       => SimpleOff

Idle(running) ==
    /\ running # "mygrep"       => UNCHANGED grepVars
    /\ running # "mywhich"      => UNCHANGED whichVars
    /\ running # "bitstest"     => UNCHANGED bitsVars
    /\ running # "parse_script" => UNCHANGED scriptVars
    /\ running # "verify_block" => UNCHANGED verifyVars
    /\ running # "thesaurus"    => UNCHANGED thesaurusVars
    /\ running # "simple"       => UNCHANGED simpleVars

Init ==
    \/ program = "mygrep" /\ GrepInit /\ Others("mygrep")
    \/ program = "mywhich" /\ WhichInit /\ Others("mywhich")
    \/ program = "bitstest" /\ BitsInit /\ Others("bitstest")
    \/ program = "parse_script" /\ ScriptInit /\ Others("parse_script")
    \/ program = "verify_block" /\ VerifyInit /\ Others("verify_block")
    \/ program = "thesaurus" /\ ThesaurusInit /\ Others("thesaurus")
    \/ program = "simple" /\ SimpleInit /\ Others("simple")

Next ==
    /\ \/ program = "mygrep" /\ GrepNext
       \/ program = "mywhich" /\ WhichNext
       \/ program = "bitstest" /\ BitsNext
       \/ program = "parse_script" /\ ScriptNext
       \/ program = "verify_block" /\ VerifyNext
       \/ program = "thesaurus" /\ ThesaurusNext
       \/ program = "simple" /\ SimpleNext
    /\ Idle(program) /\ UNCHANGED program

Spec == Init /\ [][Next]_vars
=============================================================================
