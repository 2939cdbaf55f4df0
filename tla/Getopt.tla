------------------------------- MODULE Getopt -------------------------------
(***************************************************************************)
(* Command lines (util/getopt.c, and the macros of getopt.h): a loop of    *)
(* GETOPT and GETOPT_SWITCH.  In the first turn of the loop GETOPT returns *)
(* a dummy and GETOPT_SWITCH visits the lines of the switch one after the  *)
(* other to register the options; then each turn takes one option off the  *)
(* command line and jumps to its line.  A word is a sequence of            *)
(* characters; argv[0] is left out, so argv is indexed from 1.             *)
(***************************************************************************)
EXTENDS Integers, SequencesExt

CONSTANTS
  Chars,     \* the characters
  Switch,    \* the lines of the switch, each NOOPT, MISSING or an option
  Commands,  \* the command lines
  NOOPT,     \* no option, no argument
  MISSING    \* the line of GETOPT_MISSING_ARG

Word == Seq(Chars)
OptionRec == [os : Word, hasarg : BOOLEAN]
Labels == {i \in DOMAIN Switch : Switch[i] \notin {NOOPT, MISSING}}

(* s is the option string o, or o with a value. *)
Fits(o, s) == IsPrefix(o, s) /\ (Len(s) = Len(o) \/ s[Len(o) + 1] = "=")

(* getopt_register_opt takes "-X" and "--foo", and none of them twice. *)
ASSUME GetoptAssumption ==
  /\ {"-", "="} \subseteq Chars /\ Commands \subseteq Seq(Word)
  /\ Switch \in Seq(OptionRec \cup {NOOPT, MISSING})
  /\ NOOPT \notin Word \cup OptionRec \cup {MISSING}
  /\ \A i \in Labels :
       /\ Len(Switch[i].os) >= 2 /\ Switch[i].os[1] = "-"
       /\ Switch[i].os[2] = "-" <=> Len(Switch[i].os) > 2
  /\ \A i, j \in Labels : i < j => ~Fits(Switch[i].os, Switch[j].os)

VARIABLES
  optreset, getopt_initialized,
  opts,                      \* the registered options, by line
  opt_missing, opt_found,    \* lines; Default is GETOPT_DEFAULT's
  optind, packedopts,        \* the next word, and the next character in it or 0
  optarg,
  ln,                        \* the line that the initialization has come to
  ch,                        \* where the loop is: "get", "init", "switch" or "done"
  argv,                      \* the command line
  os,                        \* the option string that getopt returned
  jumps                      \* the lines the loop has jumped to, with optarg

getoptvars == <<optreset, getopt_initialized, opts, opt_missing, opt_found, optind,
                packedopts, optarg, ln, ch, argv, os, jumps>>

nopts == Len(Switch)
Default == nopts + 1

GetoptInit ==
  /\ optreset = TRUE /\ getopt_initialized = FALSE
  /\ opts = <<>> /\ opt_missing = 0 /\ opt_found = 0
  /\ optind = 1 /\ packedopts = 0 /\ optarg = NOOPT /\ ln = 0
  /\ ch = "get" /\ argv \in Commands /\ os = <<>> /\ jumps = <<>>
----------------------------------------------------------------------------
(* reset, and the dummy option that getopt returns then. *)
reset ==
  /\ ch = "get" /\ optreset
  /\ optreset' = FALSE /\ getopt_initialized' = FALSE
  /\ opts' = <<>> /\ optind' = 1 /\ packedopts' = 0
  /\ opt_found' = 0 /\ optarg' = NOOPT
  /\ ch' = "init" /\ ln' = 0
  /\ UNCHANGED <<opt_missing, argv, os, jumps>>

(* getopt_setrange: the first line that has no label makes room. *)
getopt_setrange ==
  /\ ch = "init" /\ ln = 0
  /\ opts' = [i \in 1 .. nopts |-> NOOPT]
  /\ opt_missing' = Default
  /\ ln' = 1
  /\ UNCHANGED <<optreset, getopt_initialized, opt_found, optind, packedopts, optarg,
                 ch, argv, os, jumps>>

(* getopt_register_opt and getopt_register_missing, line by line. *)
getopt_register ==
  /\ ch = "init" /\ ln \in 1 .. nopts
  /\ opts' = (IF Switch[ln] \in {NOOPT, MISSING} THEN opts ELSE [opts EXCEPT ![ln] = Switch[ln]])
  /\ opt_missing' = (IF Switch[ln] = MISSING THEN ln ELSE opt_missing)
  /\ ln' = ln + 1
  /\ UNCHANGED <<optreset, getopt_initialized, opt_found, optind, packedopts, optarg,
                 ch, argv, os, jumps>>

(* The line of GETOPT_DEFAULT ends the initialization. *)
GETOPT_DEFAULT ==
  /\ ch = "init" /\ ln = Default
  /\ getopt_initialized' = TRUE /\ ch' = "get"
  /\ UNCHANGED <<optreset, opts, opt_missing, opt_found, optind, packedopts, optarg,
                 ln, argv, os, jumps>>
----------------------------------------------------------------------------
(* Mutant: an option is taken for a longer one. *)
searchopt_prefix(s) ==
  LET fits == {i \in 1 .. nopts : opts[i] # NOOPT /\ IsPrefix(opts[i].os, s)}
  IN  IF fits = {} THEN Default ELSE Min(fits)

(* searchopt: the first option that is s, or s up to a "=". *)
searchopt(s) ==
  LET fits == {i \in 1 .. nopts : opts[i] # NOOPT /\ Fits(opts[i].os, s)}
  IN  IF fits = {} THEN Default ELSE Min(fits)

(* getopt, first half: takes an option string off the command line, a       *)
(* character of a word of packed options or a word with two dashes.         *)
Start(word) ==
  IF packedopts # 0 THEN packedopts
  ELSE IF Len(word) >= 2 /\ word[1] = "-" /\ word[2] # "-" THEN 2 ELSE 0

Taken ==
  LET word == argv[optind]
      p == Start(word)
      long == Len(word) >= 2 /\ SubSeq(word, 1, 2) = <<"-", "-">>
  IN
  IF optind > Len(argv) THEN [os |-> <<>>, ind |-> optind, packed |-> 0]
  ELSE IF p # 0 THEN [os |-> <<"-", word[p]>>,
                      ind |-> IF p = Len(word) THEN optind + 1 ELSE optind,
                      packed |-> IF p = Len(word) THEN 0 ELSE p + 1]
  ELSE IF long THEN [os |-> IF Len(word) > 2 THEN word ELSE <<>>, ind |-> optind + 1, packed |-> 0]
  ELSE [os |-> <<>>, ind |-> optind, packed |-> 0]

(* getopt, second half: looks the option up and finds its argument, in the  *)
(* rest of the word or in the next one.                                     *)
getopt ==
  LET t == Taken
      found == searchopt(t.os)
      opt == opts[found]
      equals == Len(t.os) > Len(opt.os)
      inword == IF t.packed # 0
                THEN SubSeq(argv[optind], t.packed, Len(argv[optind]))
                ELSE SubSeq(t.os, Len(opt.os) + 2, Len(t.os))
      ind == IF t.packed # 0 THEN t.ind + 1 ELSE t.ind
  IN
  /\ ch = "get" /\ ~optreset /\ getopt_initialized
  /\ IF t.os = <<>>
     THEN /\ ch' = "done" /\ optarg' = NOOPT /\ optind' = t.ind /\ packedopts' = t.packed
          /\ UNCHANGED <<opt_found, os>>
     ELSE /\ ch' = "switch"
          /\ IF found = Default
             THEN /\ os' = t.os /\ opt_found' = Default /\ optarg' = NOOPT
                  /\ optind' = t.ind /\ packedopts' = t.packed
             ELSE /\ os' = opt.os
                  /\ IF ~opt.hasarg
                     THEN /\ opt_found' = (IF equals THEN Default ELSE found)
                          /\ optarg' = NOOPT /\ optind' = t.ind /\ packedopts' = t.packed
                     ELSE /\ packedopts' = 0
                          /\ \/ /\ t.packed # 0 \/ equals
                                /\ optarg' = inword /\ optind' = ind /\ opt_found' = found
                             \/ /\ t.packed = 0 /\ ~equals /\ ind <= Len(argv)
                                /\ optarg' = argv[ind] /\ optind' = ind + 1 /\ opt_found' = found
                             \/ /\ t.packed = 0 /\ ~equals /\ ind > Len(argv)
                                /\ optarg' = NOOPT /\ optind' = ind /\ opt_found' = opt_missing
  /\ UNCHANGED <<optreset, getopt_initialized, opts, opt_missing, ln, argv, jumps>>

(* GETOPT_SWITCH: jumps to the line that getopt_lookup returns, where the   *)
(* program uses optarg.                                                     *)
getopt_lookup ==
  /\ ch = "switch" /\ ~optreset
  /\ jumps' = Append(jumps, [line |-> opt_found, arg |-> optarg])
  /\ ch' = "get"
  /\ UNCHANGED <<optreset, getopt_initialized, opts, opt_missing, opt_found, optind,
                 packedopts, optarg, ln, argv, os>>

(* The program turns to another command line, at any time but between       *)
(* GETOPT and GETOPT_SWITCH.                                                *)
SetOptreset ==
  /\ ch \in {"get", "done"} /\ getopt_initialized /\ ~optreset
  /\ optreset' = TRUE /\ ch' = "get"
  /\ argv' \in Commands /\ jumps' = <<>>
  /\ UNCHANGED <<getopt_initialized, opts, opt_missing, opt_found, optind,
                 packedopts, optarg, ln, os>>

GetoptNext ==
  \/ reset \/ getopt_setrange \/ getopt_register \/ GETOPT_DEFAULT
  \/ getopt \/ getopt_lookup \/ SetOptreset

GetoptSpec == GetoptInit /\ [][GetoptNext]_getoptvars
----------------------------------------------------------------------------
(* What getopt.h says that a command line means, word by word: the lines of *)
(* its options with their arguments, and the first word that is no option.  *)
Jump(line, arg) == [line |-> line, arg |-> arg]
MissingLine ==
  LET lines == {i \in DOMAIN Switch : Switch[i] = MISSING}
  IN  IF lines = {} THEN Default ELSE Max(lines)

(* The line of the option that s names; of several, the longest.            *)
LineOf(s) ==
  LET fits == {i \in Labels : Fits(Switch[i].os, s)}
  IN  IF fits = {} THEN Default
      ELSE CHOOSE i \in fits : \A j \in fits : Len(Switch[j].os) <= Len(Switch[i].os)
TakesArg(line) == line \in Labels /\ Switch[line].hasarg

(* The options of a word, and the word to go on with. *)
Read(means, next) == [jumps |-> means, next |-> next]

(* An option at the end of word i, with the next word as its argument.      *)
ReadArg(words, i, line) ==
  IF i < Len(words) THEN Read(<<Jump(line, words[i + 1])>>, i + 2)
  ELSE Read(<<Jump(MissingLine, NOOPT)>>, i + 1)

(* -abcfoo, from the letter k on: letters up to the first that takes an     *)
(* argument, which is the rest of the word if there is one.                 *)
Letter(w, k) == LineOf(<<"-", w[k]>>)
Taker(w, k) == Min({j \in k .. Len(w) : TakesArg(Letter(w, j))} \cup {Len(w) + 1})
Letters(w, k, l) == [j \in 1 .. l - k |-> Jump(Letter(w, k + j - 1), NOOPT)]
ReadLetters(words, i, k) ==
  LET w == words[i]
      l == Taker(w, k)
      arg == IF l > Len(w) THEN Read(<<>>, i + 1)
             ELSE IF l < Len(w) THEN Read(<<Jump(Letter(w, l), SubSeq(w, l + 1, Len(w)))>>, i + 1)
             ELSE ReadArg(words, i, Letter(w, l))
  IN Read(Letters(w, k, l) \o arg.jumps, arg.next)

(* --foo, --foo bar and --foo=bar. *)
ReadLong(words, i) ==
  LET w == words[i]
      line == LineOf(w)
      named == Len(Switch[line].os)
  IN IF line = Default \/ (~TakesArg(line) /\ named < Len(w)) THEN Read(<<Jump(Default, NOOPT)>>, i + 1)
     ELSE IF ~TakesArg(line) THEN Read(<<Jump(line, NOOPT)>>, i + 1)
     ELSE IF named < Len(w) THEN Read(<<Jump(line, SubSeq(w, named + 2, Len(w)))>>, i + 1)
     ELSE ReadArg(words, i, line)

Dashes == <<"-", "-">>
IsOption(w) == Len(w) >= 2 /\ w[1] = "-" /\ w # Dashes
ReadWord(words, i) == IF words[i][2] = "-" THEN ReadLong(words, i) ELSE ReadLetters(words, i, 2)

(* The meaning of the words from i on. *)
Meanings(words) ==
  LET from[i \in 1 .. Len(words) + 1] ==
        IF i > Len(words) \/ ~IsOption(words[i])
        THEN Read(<<>>, IF i <= Len(words) /\ words[i] = Dashes THEN i + 1 ELSE i)
        ELSE LET option == ReadWord(words, i)
             IN  Read(option.jumps \o from[option.next].jumps, from[option.next].next)
  IN from
Meaning(words) == Meanings(words)[1]

(* The loop jumps to the lines of the options that the command line means,  *)
(* in order and with their arguments, however it writes them and whatever   *)
(* was left of an earlier command line; optind is then the first word that  *)
(* is not an option.  getopt_lookup and GETOPT_OPTARG find what they assert *)
(* of the option found.                                                     *)
OptionsRight ==
  /\ ~optreset /\ getopt_initialized => IsPrefix(jumps, Meaning(argv).jumps)
  /\ ch = "done" => jumps = Meaning(argv).jumps /\ optind = Meaning(argv).next
  /\ ch = "switch" =>
       /\ opt_found \in {opt_missing, Default} \/ os = opts[opt_found].os
       /\ opt_found <= nopts /\ opt_found # opt_missing => (optarg # NOOPT) = opts[opt_found].hasarg
=============================================================================
