----------------------------- MODULE MCCompiler ------------------------------
(* The compiler: its lexer, its blocks and statements (with the steps they    *)
(* make executed again), and the file it writes, which clenter loads.         *)
(* Programs of up to seven lines between { and }, sources of up to four       *)
(* characters, with up to three in an included file; a small and a full       *)
(* program that is written, portable or not, and loaded twice.                *)
EXTENDS EncFile

CONSTANT Parts   \* the parts that are looked at

VARIABLES part,    \* the part this behaviour is about; the others stand still
          progText, progPos, progCalls, progItab, progIt, progCode, progBlocks, progLabels, progWhiles, progErrs, progPhase, progRun, progEnded,
          lexOf, lexFileTree, lexWhole, lexLastLine, lexLl, lexEsc_char, lexC, lexSymbol, lexSym, lexRead, lexState

Given == INSTANCE MCSources
Reserved == (<<10>> :> 930) @@ (<<73>> :> 660) @@ (<<42>> :> 890) @@ (<<42, 42>> :> 1170) @@ (<<61>> :> 1800)
             @@ (<<42, 61>> :> 880) @@ (<<42, 42, 61>> :> 1160) @@ (<<46>> :> 1080)

Prog == INSTANCE Program WITH
    Texts <- Given!Programs, MaxErrors <- 3, Depth <- 3, text <- progText, pos <- progPos,
    calls <- progCalls, itab <- progItab, it <- progIt, code <- progCode, blocks <- progBlocks,
    labels <- progLabels, whiles <- progWhiles, errs <- progErrs, phase <- progPhase,
    run <- progRun, ended <- progEnded
Lex == INSTANCE Lexer WITH
    Sources <- Given!Characters, reswords <- Reserved, of <- lexOf, FileTree <- lexFileTree,
    whole <- lexWhole, LastLine <- lexLastLine, ll <- lexLl, esc_char <- lexEsc_char, c <- lexC,
    symbol <- lexSymbol, sym <- lexSym, read <- lexRead, state <- lexState
ASSUME Lex!LexerAssumption

----------------------------------------------------------------------------
(* Instances *)
Programs == Given!Held
MCTexts == DOMAIN Programs
Flags == Given!Flags

----------------------------------------------------------------------------
programVars == <<progText, progPos, progCalls, progItab, progIt, progCode, progBlocks, progLabels, progWhiles, progErrs, progPhase, progRun, progEnded>>
lexerVars == <<lexOf, lexFileTree, lexWhole, lexLastLine, lexLl, lexEsc_char, lexC, lexSymbol, lexSym, lexRead, lexState>>
allVars == <<part, vars, programVars, lexerVars>>

EncOff == Init /\ ent.there = FALSE /\ ent.text = "empty" /\ enc = NoFile
ProgramOff == /\ progText = 0 /\ progPos = 0 /\ progCalls = 0 /\ progItab = 0 /\ progIt = 0
              /\ progCode = 0 /\ progBlocks = 0 /\ progLabels = 0 /\ progWhiles = 0
              /\ progErrs = 0 /\ progPhase = 0 /\ progRun = 0 /\ progEnded = 0
LexerOff == /\ lexOf = 0 /\ lexFileTree = 0 /\ lexWhole = 0 /\ lexLastLine = 0 /\ lexLl = 0
            /\ lexEsc_char = 0 /\ lexC = 0 /\ lexSymbol = 0 /\ lexSym = 0 /\ lexRead = 0
            /\ lexState = 0

CompilerInit ==
    /\ part \in Parts
    /\ IF part = "enc" THEN Init ELSE EncOff
    /\ IF part = "program" THEN Prog!Init ELSE ProgramOff
    /\ IF part = "lexer" THEN Lex!Init ELSE LexerOff

EncStep == /\ part = "enc" /\ Next
           /\ UNCHANGED <<part, programVars, lexerVars>>
ProgramStep == /\ part = "program" /\ Prog!Next
               /\ UNCHANGED <<part, vars, lexerVars>>
LexerStep == /\ part = "lexer" /\ Lex!Next
             /\ UNCHANGED <<part, vars, programVars>>
CompilerNext == EncStep \/ ProgramStep \/ LexerStep
CompilerSpec == CompilerInit /\ [][CompilerNext]_allVars
FairCompilerSpec ==
    /\ CompilerSpec
    /\ WF_allVars(part = "enc" /\ Step /\ UNCHANGED <<part, programVars, lexerVars>>)
    /\ WF_allVars(part = "program" /\ Prog!Compile /\ UNCHANGED <<part, vars, lexerVars>>)

----------------------------------------------------------------------------
(* Properties *)
(* Lines are counted, included files spliced and symbols spelt as the source  *)
(* has them (getsym.c, leincl.c).                                             *)
ReadsSource == part = "lexer" => Lex!LinesRight /\ Lex!Spliced /\ Lex!ReadAgain
(* A source is accepted when its constructs nest and its names are known, and  *)
(* only then (loadent.c, leblock.c, leif.c, lewhile.c).                        *)
Accepts == part = "program" => Prog!Accepts
(* Executing the compiled steps does what the lines say (module Structured):   *)
(* every jump filled in afterwards leads to where the construct goes on.       *)
AsWritten == /\ part = "program" => Prog!Lines!Init
             /\ [][part = "program" => Prog!Lines!Next]_(Prog!Lines!vars)
(* Every compilation comes to an end, whatever is wrong with the source, and   *)
(* so does every start of a program (lewhile.c, loadenc.c).                    *)
CompileEnds == part = "program" ~> part = "program" /\ progPhase \in {"ready", "refused"}
CompilerEnds == CompileEnds /\ LoadEnds
==============================================================================
