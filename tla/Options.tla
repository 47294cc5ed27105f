------------------------------ MODULE Options ------------------------------
(***************************************************************************)
(* The command line (core/modules/options/options.lua) and the steps of    *)
(* core/modules/main/main.lua that use it.  Options may be defined at any  *)
(* time: by scripts, and by modules that an option's own function loads.   *)
(*                                                                         *)
(* An argument is <<trigger>>, or <<trigger, value>> with "=" between them;*)
(* a value is an argument too, since it may be the next one.               *)
(***************************************************************************)
EXTENDS Integers, Sequences, SequencesExt, FiniteSets

CONSTANTS
    CommandLines,  \* the arguments there may be
    Triggers,      \* of options that may be defined
    MaxDefinitions \* bound on the calls of commandLineOption()

ASSUME CommandLinesAssumption ==
    \A args \in CommandLines :
        /\ args \in Seq({args[i] : i \in DOMAIN args})
        /\ \A i \in DOMAIN args : Len(args[i]) \in {1, 2}

VARIABLES
    arguments,     \* _ARGS
    definitions,   \* _definitions: "none", or whether the option takes a value
    values,        \* _values: <<>> for nil, or <<the values of the triggers>>
    step,          \* of main.run(): "scripts", "validate", "execute", "done", "invalid"
    position,      \* the i of the running options.all()
    executed,      \* history: the options executed
    validated,     \* history: the triggers that options.validate() saw
    defined,       \* history: the calls of commandLineOption()
    redefined      \* history: a defined option was defined again after validation

optionVars == <<arguments, definitions, values, step, position, executed, validated, defined, redefined>>

NOVALUE == <<>>

OptionInit ==
    /\ arguments \in CommandLines
    /\ definitions = [t \in Triggers |-> "none"]
    /\ values = <<>>
    /\ step = "scripts"
    /\ position = 0
    /\ executed = <<>>
    /\ validated = <<>>
    /\ defined = 0
    /\ redefined = FALSE

\* Seeded error: the cached values stay.
RegisterOptionKeepingValues(t, kind) ==
    /\ defined < MaxDefinitions /\ defined' = defined + 1
    /\ step \in {"scripts", "execute"}
    /\ definitions' = [definitions EXCEPT ![t] = kind]
    /\ redefined' = (redefined \/ (step = "execute" /\ definitions[t] # "none"))
    /\ UNCHANGED <<arguments, values, step, position, executed, validated>>

\* options.register(); the values are to be parsed again.
RegisterOption(t, kind) ==
    /\ defined < MaxDefinitions /\ defined' = defined + 1
    /\ step \in {"scripts", "execute"}
    /\ definitions' = [definitions EXCEPT ![t] = kind]
    /\ values' = <<>>
    /\ redefined' = (redefined \/ (step = "execute" /\ definitions[t] # "none"))
    /\ UNCHANGED <<arguments, step, position, executed, validated>>

IsDefined(defs, t) == t \in Triggers /\ defs[t] # "none"
TakesValue(defs, t) == IsDefined(defs, t) /\ defs[t] = "value"
ArgumentAt(args, i) == IF i <= Len(args) THEN args[i] ELSE NOVALUE

\* What options.all() returns for the argument at i, with where it goes on.  An option that
\* takes no value is given the next argument, which stays where it is.
AllAt(args, defs, i) ==
    LET t == args[i][1]
    IN  IF Len(args[i]) = 2
        THEN [trigger |-> t, value |-> <<args[i][2]>>, last |-> i]
        ELSE [trigger |-> t, value |-> ArgumentAt(args, i + 1),
              last |-> IF TakesValue(defs, t) THEN i + 1 ELSE i]

\* options.all() from after each position to the end.
All(args, defs) ==
    LET after[i \in 0 .. Len(args) + 1] ==
            IF i >= Len(args)
            THEN <<>>
            ELSE <<AllAt(args, defs, i + 1)>> \o after[AllAt(args, defs, i + 1).last]
    IN  after

\* options.valueOf() parses all defined options at the first question: every occurrence assigns its
\* value, and with it nil (NOVALUE), for which the answer is the option's default.
Parsed(args, defs) ==
    LET all == All(args, defs)[0]
    IN  [t \in {x \in Triggers : IsDefined(defs, x)} |->
            LET given == {k \in DOMAIN all : all[k].trigger = t}
            IN  IF given = {} THEN NOVALUE ELSE all[Max(given)].value]

ValueOf ==
    /\ step \in {"scripts", "execute"}
    /\ values = <<>>
    /\ values' = <<Parsed(arguments, definitions)>>
    /\ UNCHANGED <<arguments, definitions, step, position, executed, validated, defined, redefined>>

\* The script has run.
Validate ==
    /\ step = "scripts"
    /\ LET all == All(arguments, definitions)[0]
       IN  /\ step' = IF \A k \in DOMAIN all : IsDefined(definitions, all[k].trigger)
                      THEN "execute"
                      ELSE "invalid"
           /\ validated' = [k \in DOMAIN all |-> all[k].trigger]
    /\ UNCHANGED <<arguments, definitions, values, position, executed, defined, redefined>>

\* One turn of the loop over options.each(), with the definitions there are by now.
Execute ==
    /\ step = "execute"
    /\ IF position >= Len(arguments)
       THEN step' = "done" /\ UNCHANGED <<position, executed>>
       ELSE LET a == AllAt(arguments, definitions, position + 1)
            IN  /\ position' = a.last
                /\ executed' = IF IsDefined(definitions, a.trigger) THEN Append(executed, a) ELSE executed
                /\ UNCHANGED step
    /\ UNCHANGED <<arguments, definitions, values, validated, defined, redefined>>

OptionNext ==
    \/ \E t \in Triggers, kind \in {"flag", "value"} : RegisterOption(t, kind)
    \/ ValueOf
    \/ Validate
    \/ Execute

OptionSpec == OptionInit /\ [][OptionNext]_optionVars

-----------------------------------------------------------------------------
\* What the command line means: an argument is an option unless it is the value of the option
\* before, one that takes a value and has none with "=".
Wants(args, defs, i) == Len(args[i]) = 1 /\ TakesValue(defs, args[i][1])

AreOptions(args, defs, places) ==
    \A i \in DOMAIN args :
        i \in places <=> ~(i - 1 \in places /\ Wants(args, defs, i - 1))

OptionPlaces(args, defs) == CHOOSE places \in SUBSET (DOMAIN args) : AreOptions(args, defs, places)

\* The value of an option is the one where it is given last: the one with it, or the next argument.
ValueMeant(args, defs, t) ==
    LET given == {i \in OptionPlaces(args, defs) : args[i][1] = t}
        last == Max(given)
    IN  IF given = {} THEN NOVALUE
        ELSE IF Len(args[last]) = 2 THEN <<args[last][2]>>
        ELSE ArgumentAt(args, last + 1)

\* What options.valueOf() answers from its cache is what the arguments mean under the options
\* defined by now, whenever an option was defined (options.lua:33-34, 40-62, 135-147).
ValuesCurrent ==
    values # <<>> =>
        values[1] = [t \in {x \in Triggers : IsDefined(definitions, x)} |->
                        ValueMeant(arguments, definitions, t)]

\* Every option that was found valid is executed, once for each time it was given and in that
\* order, whatever options are added by those executed before, as long as none is defined anew
\* (options.lua:40-62, 124-132; main.lua:67-76).
ExecutesWhatWasValidated ==
    step = "done" /\ ~redefined =>
        [k \in DOMAIN executed |-> executed[k].trigger] = validated

\* Options mean what the command line says, whenever they are registered: to those who ask for a value and
\* to the main program that executes them (options.lua; main.lua).
OptionsAsGiven == ValuesCurrent /\ ExecutesWhatWasValidated
=============================================================================
