-------------------------------- MODULE MCText --------------------------------
(***************************************************************************)
(* One run for what handles text: Strings, numbers and addresses as text,  *)
(* the serial ports under Print, the parsing methods of Stream, and the    *)
(* test scripts.  The modules share no state (a Stream's characters are    *)
(* those of its port, whose timing StreamParser leaves open), so that a    *)
(* behaviour exercises one of them and leaves the others at an initial     *)
(* state.                                                                  *)
(***************************************************************************)
EXTENDS Integers, Sequences

CONSTANTS Parts,    \* the modules a run is about: a subset of
                    \* {"string", "number", "address", "serial", "stream", "script"}
          Width, Bases, Lines, Readings, Ends, Draws,
          Addresses, AddressTexts,
          Scripts, Step, MaxTime,
          Inputs, Targets, Lengths, Timeout, MaxCalls,
          Names, Edited, Alphabet, Texts, Pairs, MaxLen,
          MaxSent, MaxTaken, Prints

VARIABLES
  part,
  str, broken,
  asked, answer,
  bytes, read, ok,
  kind, begun, wire, hungUp, bufch, sent, received, dropped, told, job, out,
  coming, arrived, waited, call, consumed, result, calls,
  script, taken, now, queue, batch, toInsert, log

\* Scripts: a wait after lines that come again and one after lines that do not;
\* comments, unknown commands, times that are over, bits faster than a step.
P == [cmd |-> "pin"]
At(t) == [cmd |-> "at", time |-> t]
Wait(t) == [cmd |-> "wait", time |-> t]
Sync(t) == [cmd |-> "sync", time |-> t]
Bits(t, n) == [cmd |-> "bits", time |-> t, bits |-> n]
Unknown == [cmd |-> "unknown"]
MCScripts ==
  { << <<At(2), P>>, <<Sync(4)>>, <<P>>, <<P>> >>,
    << <<Bits(2, 2)>>, <<Wait(5)>>, <<P>>, <<P>> >>,
    << <<P>>, <<Sync(3)>>, <<P>> >>,
    << <<Wait(3)>>, <<>>, <<Sync(2)>>, <<P>>, <<Wait(1)>>, <<P>> >>,
    << <<At(5), P>>, <<P>>, <<Wait(3)>>, <<Unknown>>, <<P>> >>,
    << <<At(0), P>>, <<At(3)>>, <<At(1), P, P>>, <<P>> >>,
    << <<Bits(3, 2)>>, <<Bits(4, 3)>> >>,
    << <<Wait(5)>>, <<Bits(2, 2)>>, <<P>> >>,
    << <<At(3), Bits(2, 2)>>, <<Sync(4)>>, <<P>> >> }

\* What arrives, and targets that start again inside themselves or in each other.
MCInputs ==
  { <<"a", "a", "a", "b", "a", "b">>, <<"a", "b", "a", "a", "b", "a">>,
    <<" ", "-", "1", ",", "0", " ", "1">>, <<"a", "1", "-", "0">>,
    <<"-", "1", ".", "0", ",", "1", ".", "1">>, <<" ", ".", "1", "1">> }
MCTargets ==
  { << <<"a", "a", "b">> >>,
    << <<"a", "b", "a", "b">>, <<"b", "a">> >>,
    << <<"a">>, <<>> >>,
    << <<"a", "a", "b", "a", "a", "a">>, <<"a", "b", "a", "a", "b", "a">> >> }

MCAlphabet == << " ", "A", "a" >>
MCTexts == { <<"a">>, <<" ", "a">> }
MCPairs == { << <<"a">>, <<" ", "a">> >>, << <<" ", "a">>, <<"a">> >>,
             << <<" ", "a">>, <<"a", "a", "a">> >> }

MCPrints == { <<2>>, <<1, 2, 2>> }

\* Script lines with and without units, and their ends.
Number(n) == [n |-> n]
Word(w) == [w |-> w]
MCLines ==
  { <<>>, <<Number(3)>>, <<Word("us")>>, <<Number(3), Word("ms")>>, <<Number(7), Word("mn")>>,
    <<Number(2), Word("s"), Word("D1")>>, <<Number(100), Word("Hz")>>,
    <<Number(1), Word("kHz"), Number(4)>>, <<Number(0), Word("us"), Word("us")>>,
    <<Word("D1"), Number(1)>>, <<Number(5), Number(6)>>, <<Number(5), Word("D1")>> }

\* Ranges that run either way, and numbers in them and beyond.
MCReadings == -3..8
MCEnds == {-3, 0, 5, 8}

\* Addresses, and texts that are nearly one: 10 is a dot, 11 none of its characters.
MCAddresses == { <<1, 20, 3, 4>>, <<192, 168, 0, 255>> }
MCAddressTexts ==
  { <<>>, <<10, 10, 10>>, <<1, 10, 2, 10, 3, 10>>, <<1, 10, 2, 10, 3, 10, 4, 10>>,
    <<0, 0, 7, 10, 2, 5, 5, 10, 1, 11>>, <<9, 10, 2, 5, 6, 10, 7, 10, 1>>, <<9, 10, 8, 10, 7>> }

A == INSTANCE ArduinoString
N == INSTANCE NumberText WITH call <- asked, result <- answer,
       Eighths <- -20..20, Places <- 0..3, Pins <- [D1 |-> 5]
D == INSTANCE IPAddress WITH Texts <- AddressTexts
I == INSTANCE SerialPort WITH taken <- received
M == INSTANCE StreamParser
S == INSTANCE ScriptEvents

\* What arrives and what is looked for are characters, Eof is none.
ASSUME TextAssumption ==
  /\ \A input \in Inputs : input \in Seq(STRING \ {M!Eof})
  /\ \A targets \in Targets : targets \in Seq(Seq(STRING))
  /\ Lengths \subseteq Nat

\* The texts of a String are of characters that have a code, of which none ends a
\* text, and what replace() looks for is a text as well.
ASSUME StringAssumption ==
  /\ Alphabet \in Seq(A!Chars) /\ {" ", "A", "a"} \subseteq A!Chars
  /\ {A!Nul, A!Junk} \cap A!Chars = {}
  /\ \A i, j \in DOMAIN Alphabet : Alphabet[i] = Alphabet[j] => i = j
  /\ Texts \subseteq Seq(A!Chars) /\ MaxLen \in Nat /\ Edited \subseteq Names
  /\ \A p \in Pairs : p[1] \in Seq(A!Chars) /\ p[2] \in Seq(A!Chars)

\* Integers are whole bytes, a script line is of numbers and words.  (No prover here
\* knows what a power is: that the next power of 2 is twice the last one is checked for
\* those that are used.)
ASSUME NumberAssumption ==
  /\ Width \in Nat \ {0} /\ Width % 8 = 0
  /\ \A n \in 0..Width - 1 : 2 ^ n \in Nat \ {0} /\ 2 ^ (n + 1) = 2 * 2 ^ n
  /\ \A base \in Bases : base \in Nat /\ N!PrintBase(base) <= 36
  /\ \A line \in Lines : /\ line \in Seq({line[i] : i \in DOMAIN line})
                         /\ \A i \in DOMAIN line :
                              \/ DOMAIN line[i] = {"n"} /\ line[i].n \in Nat
                              \/ DOMAIN line[i] = {"w"}

\* What map() and random() are given does not overflow a long: the product that
\* map() divides, and the differences, fit.  rand() is not negative.
ASSUME RangeAssumption ==
  /\ Readings \subseteq Int /\ Ends \subseteq Int /\ Draws \subseteq Nat
  /\ \A a, c, d \in Ends :
       d - c \in N!Long /\ \A x \in Readings : (x - a) * (d - c) \in N!Long

\* An octet is a byte, and 10 and 11 stand for the other characters of a text.
ASSUME AddressAssumption ==
  /\ Addresses \subseteq [1..4 -> 0..255]
  /\ \A text \in AddressTexts : text \in Seq(0..11)

\* A script has a line, and time passes when nothing is due.
ASSUME ScriptAssumption ==
  /\ \A s \in Scripts : s \in Seq(Seq(S!Commands)) /\ s # <<>>
  /\ Step \in Nat \ {0}

stringVars == <<str, broken>>
numberVars == <<asked, answer>>
addressVars == <<bytes, read, ok>>
serialVars == <<kind, begun, wire, hungUp, bufch, sent, received, dropped, told, job, out>>
streamVars == <<coming, arrived, waited, call, consumed, result, calls>>
scriptVars == <<script, taken, now, queue, batch, toInsert, log>>
textVars == <<part, stringVars, numberVars, addressVars, serialVars, streamVars, scriptVars>>

\* The initial states that matter to one part only are fixed for the others.
TextInit ==
  /\ part \in Parts
  /\ A!Init /\ N!Init /\ D!Init /\ I!Init /\ M!Init /\ S!Init
  /\ part # "string" => str = [x \in Names |-> A!Null]
  /\ part # "address" => bytes = <<0, 0, 0, 0>>
  /\ part # "serial" => kind = "stdio"
  /\ part # "stream" => coming = CHOOSE input \in Inputs : TRUE
  /\ part # "script" => script = CHOOSE s \in Scripts : TRUE

StringStep(action) ==
  /\ part = "string" /\ action
  /\ UNCHANGED <<part, numberVars, addressVars, serialVars, streamVars, scriptVars>>
NumberStep(action) ==
  /\ part = "number" /\ action
  /\ UNCHANGED <<part, stringVars, addressVars, serialVars, streamVars, scriptVars>>
AddressStep(action) ==
  /\ part = "address" /\ action
  /\ UNCHANGED <<part, stringVars, numberVars, serialVars, streamVars, scriptVars>>
SerialStep(action) ==
  /\ part = "serial" /\ action
  /\ UNCHANGED <<part, stringVars, numberVars, addressVars, streamVars, scriptVars>>
StreamStep(action) ==
  /\ part = "stream" /\ action
  /\ UNCHANGED <<part, stringVars, numberVars, addressVars, serialVars, scriptVars>>
ScriptStep(action) ==
  /\ part = "script" /\ action
  /\ UNCHANGED <<part, stringVars, numberVars, addressVars, serialVars, streamVars>>

TextNext ==
  \/ StringStep(A!Next) \/ NumberStep(N!Next) \/ AddressStep(D!Next) \/ SerialStep(I!Next)
  \/ StreamStep(M!Next) \/ ScriptStep(S!Next)

\* The fairness of the modules, each for its own steps.
TextSpec ==
  /\ TextInit /\ [][TextNext]_textVars
  /\ WF_textVars(StreamStep(M!TimedRead)) /\ WF_textVars(StreamStep(M!TimedPeek))
  /\ WF_textVars(StreamStep(M!TimeOut)) /\ WF_textVars(StreamStep(M!Tick))
  /\ WF_textVars(ScriptStep(S!Next))

-----------------------------------------------------------------------------
(* The properties are those of the modules.                                 *)

\* Numbers and addresses read back as they were written, within their buffers, and
\* a script's durations as they are meant.
ConversionsExact == N!NumbersExact /\ D!AddressExact

\* A String's buffer holds its text, searches and comparisons agree on it, and every
\* call leaves the text it is documented to leave.
StringKept == []A!TextSound /\ A!AsDocumented

\* replace() makes its buffer large enough.
ReplaceFits == A!ReplaceFits

\* No byte is read twice, out of order or lost but where it is thrown away, none
\* is written out of order, and what available() promises is read.
SerialKept == I!SerialKept

\* find() stops where the first target ends, numbers and strings are what was read.
ConsumedRight == M!ConsumedRight

\* Every call of a parsing method returns.
CallReturns == M!CallReturns

\* Where no line is raised twice no line overtakes a wait, and scheduled commands
\* and bits come at their time.
ScriptInOrder == S!ScriptInOrder

\* No line of a script overtakes a wait before it.
WaitsHold == S!WaitsHold

\* Every line of a script is raised.
AllLinesRaised == part = "script" => S!AllLinesRaised
=============================================================================
