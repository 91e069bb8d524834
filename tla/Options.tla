------------------------------ MODULE Options ------------------------------
(* nn_parse_options (tools/options.c), the command-line parser of nccat and  *)
(* ncdev: options provide flags, conflict with flags that were provided      *)
(* before, and require flags by the end of the line. The words of the line   *)
(* are taken one by one; nn_parse_long_option reduces a word to the options  *)
(* it may mean: the one with exactly this name, or all that begin with it.   *)
(* A short option means one option, and a cluster of them is several words.  *)
EXTENDS Naturals, FiniteSets, SequencesExt

CONSTANTS Option,      \* the options of the program
          Flag,        \* the bits of the masks
          Provides,    \* mask_set,
          Conflicts,   \* conflicts_mask
          Requires,    \* and requires_mask of each option
          Required,    \* nn_commandline.required_options
          TakesArg,    \* options with an argument (nn_has_arg)
          Checked,     \* options whose argument may be invalid
          Files,       \* options of type NN_OPT_READ_FILE
          Helps,       \* options of type NN_OPT_HELP
          Arg0,        \* options that a name of the program stands for
          Words,       \* what the words of a command line may mean
          MaxOptions   \* bound: options in a command line

ASSUME OptionsAssumption ==
  /\ {Provides, Conflicts, Requires} \subseteq [Option -> SUBSET Flag]
  /\ Required \subseteq Flag
  /\ Checked \subseteq TakesArg /\ Files \subseteq TakesArg
  /\ Arg0 \subseteq Option \ TakesArg    \* assert (!nn_has_arg (opt))
  /\ Words \subseteq SUBSET Option
  /\ MaxOptions \in Nat

(* Two options that cannot be together conflict in either order.             *)
ASSUME SymmetricConflicts ==
  \A a, b \in Option : Conflicts[a] \intersect Provides[b] = {}
                         => Conflicts[b] \intersect Provides[a] = {}

VARIABLES parse,   \* "args" while words are read, then what became of it
          mask,    \* nn_parse_context.mask
          given    \* the options processed (last_option_usage), in order

optVars == <<parse, mask, given>>

(* Mutant of Conflicting: an option is compared with its predecessor only.   *)
ConflictingLast(o) == given # <<>> /\ Conflicts[o] \intersect Provides[Last(given)] # {}
Conflicting(o) == Conflicts[o] \intersect mask # {}

(* nn_process_option: conflicts first, then the value of the argument. A     *)
(* file that cannot be opened is one that does not fit; where reading it     *)
(* fails the loop never ends, since feof is all it looks at, and if it is    *)
(* empty realloc may well return NULL: assert (data).                        *)
Process(o, fits) ==
  /\ given' = Append(given, o)
  /\ mask' = IF Conflicting(o) THEN mask ELSE mask \union Provides[o]
  /\ IF Conflicting(o) THEN parse' = "refused"
     ELSE IF o \in Helps THEN parse' = "helped"
     ELSE IF o \in Checked /\ ~fits THEN parse' = "refused"
     ELSE parse' \in IF o \in Files THEN {"args", "stuck", "aborted"} ELSE {"args"}

Refuse == parse' = "refused" /\ UNCHANGED <<mask, given>>

OptInit == parse = "arg0" /\ mask = {} /\ given = <<>>

(* nn_parse_arg0: the name of the program may stand for an option.           *)
ParseArg0 == /\ parse = "arg0"
             /\ \/ \E o \in Arg0 : Process(o, TRUE)
                \/ parse' = "args" /\ UNCHANGED <<mask, given>>

(* nn_parse_arg for a word that means one option. Its argument is attached   *)
(* or is the next word, if there are more.                                   *)
ParseOption(o, attached, more, fits) ==
  /\ parse = "args"
  /\ Len(given) < MaxOptions
  /\ {o} \in Words
  /\ IF (o \in TakesArg /\ ~attached /\ ~more) \/ (o \notin TakesArg /\ attached)
     THEN Refuse
     ELSE Process(o, fits)

(* A word that means no option, or more than one.                            *)
ParseUnclear == /\ parse = "args"
                /\ \E w \in Words : Cardinality(w) # 1
                /\ Refuse

(* Mutant of Met: only the last option's requirements are looked at.         *)
MetByLast == /\ given # <<>> => Requires[Last(given)] \subseteq mask
             /\ Required \subseteq mask
Met == /\ \A o \in ToSet(given) : Requires[o] \subseteq mask
       /\ Required \subseteq mask

(* nn_check_requires, at the end of the line.                                *)
CheckRequires == /\ parse = "args"
                 /\ parse' = IF Met THEN "accepted" ELSE "refused"
                 /\ UNCHANGED <<mask, given>>

OptNext == \/ ParseArg0
           \/ \E o \in Option, attached, more, fits \in BOOLEAN :
                ParseOption(o, attached, more, fits)
           \/ ParseUnclear
           \/ CheckRequires

OptSpec == OptInit /\ [][OptNext]_optVars

-----------------------------------------------------------------------------
(* An accepted command line holds no two options that exclude each other,    *)
(* and all that its options and the program need, in whatever order they     *)
(* were given (nn_process_option looks back only).                           *)
Provided == UNION {Provides[given[i]] : i \in 1 .. Len(given)}
Compatible == /\ \A i, j \in 1 .. Len(given) :
                   i # j => Conflicts[given[i]] \intersect Provides[given[j]] = {}
              /\ \A i \in 1 .. Len(given) : Requires[given[i]] \subseteq Provided
              /\ Required \subseteq Provided
AcceptedCompatible == parse = "accepted" => Compatible

(* The invariant behind it, while words are read: the mask is what was       *)
(* provided, and what was provided is free of conflicts.                     *)
MaskExact == parse \in {"arg0", "args", "accepted"} =>
  /\ mask = Provided
  /\ \A i, j \in 1 .. Len(given) :
       i # j => Conflicts[given[i]] \intersect Provides[given[j]] = {}
=============================================================================
