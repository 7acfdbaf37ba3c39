# numchk in TLA+

A verification development of [numchk](../src/README.md), which reads strings
and says of each which identifiers it may be (ISIN, IBAN, ISBN, a German VAT id
...), whether its check characters are right and, if not, which ones would be.

Contents: the system; the modules; what is checked; what is proved; what was
found; what is not modelled; the plan.

## 1. The system

numchk is a sequential program. What is hard about it is not concurrency but
state that outlives an input, arithmetic that was simplified by hand, and two
descriptions of every format (a Ragel pattern and a C function) that have to
agree.

| part | source | state | operations | interacts with |
|---|---|---|---|---|
| driver | `src/numchk.c`, `src/numchk.rl` | static arrays `candpr`, `candck`, `surepr`, `sureck` with `ncand`, `nsure`; options | `main` reads arguments or lines, `chck1` classifies, `prnt1_mln` or `prnt1_1ln` prints | calls the recogniser, through it the checkers, then their printers |
| recogniser | patterns in all files, `numchk.rl` | the state of one automaton | executes `c(x)` or `g(x)` when the pattern of x has matched | calls `nmck_x` and files its verdict by `maybe` or `defo` |
| checkers | one file each | none between calls: a sum, an accumulator, an index | `nmck_x(str, len)` returns `nmck_t`: negative for "not one of mine", lowest bit 0 for conformant, the right check characters in the upper bits | `nmpr_x` prints from that number alone |
| country lists | `*.ccl`, `build-aux/cccc.c` | when built: an array that grows, `lst` with `lnt`, `lzt` | `ccl_add` per line, then two functions are written | `valid_cc_p` and `cc_len`, used by `iban`, `isin`, `bic` |

The checkers fall into a few families, and this is how they are modelled:

- **quasigroups**: `verhoeff`, `damm10`, `damm16`, and built on their tables
  `aadhaar` and `iposan`;
- **weighted sums**: `nhs`, `nhi`, `upn`, `abartn`, `sedol`, `cusip`, `figi`,
  `cas`, `imo`, `vin`, `bicc`, `kennitala`, `ppsn`, `imei`, `npi`, `gtin`,
  `isbn`, `issn`, `ismn` and VAT ids of eight countries;
- **remainders of long numbers**: `iban`, `credref`, `lei`, `isni`, `istc` and
  VAT ids of four countries;
- **scans**, whose accumulator is more than a sum: **hybrid systems** (`grid`,
  `isan`, `oib`, `idnr`, German VAT ids), **Luhn** with parity decided late
  (`luhn`, `isin`, `credcard`), **two check digits** (`tckimlik`, `cpf`,
  `titulo_eleitoral`), **forced divisibility** (`tfn`, Danish and Finnish VAT
  ids), Irish and British VAT ids, shapes only (`bic`, `wkn`, the sixteen digits
  of an IMEISV).

What makes each part correct:

- *driver*: stores stay inside arrays whose bounds are never tested; nothing of
  an earlier input is printed for a later one; every input is answered, by all
  sure identifications, and by candidates where `--all` asks for them or nothing
  is sure; one line per input with `--one-line`;
- *recogniser and checkers*: what the pattern lets in the checker does not
  refuse for its length;
- *checkers*: exactly the strings that the scheme documents are conformant; the
  character suggested is the right one and can be typed where it belongs; no
  unsigned subtraction wraps, no buffer or word is too small; the slips a scheme
  was designed to detect are detected; a card number gets the issuer with the
  longest matching beginning;
- *country lists*: what is compiled answers as the list would, repeated codes and
  any number of lines included, and the array never overflows.

## 2. The modules

| module | models | how |
|---|---|---|
| `Numchk` | `main`, `chck1`, `maybe`, `defo`, both printers | one action per step; `pc` is where `main` is |
| `Report` | what numchk promises | abstract: `Ask` an identifier, `Answer` with its report |
| `Tables` | the tables of `verhoeff.c`, `damm.c` | as functions |
| `Quasigroup` | `nmck_verhoeff`, `nmck_damm10`, `nmck_damm16` | one loop, the table as a parameter; two strings at once |
| `Aadhaar`, `Iposan` | `nmck_aadhaar`, `nmck_iposan` | the whole function; an observer runs the generic check beside it |
| `Suggest` | the two beside each other | a module of its own since it is proved about; calls share nothing |
| `WeightedSum` | the weighted-sum checkers | one loop, parameters in `Scheme`; two strings at once |
| `WeightedStandard` | when a sum of the code is the documented one | what that takes, place by place, and `InStep`, that they go together |
| `Schemes` | their parameters | read off each source, with the documented weights beside the code's |
| `Remainder` | the checkers of long numbers | one loop, parameters in `Scheme` |
| `RemainderSchemes` | their parameters | as in `Schemes` |
| `Scan` | the checkers that scan | one loop, its step and its end as operator parameters; two strings at once, the standard beside them |
| `ScanSchemes` | their steps, ends and forms | read off each source |
| `Standards` | what their numbers are documented to be | in the form of the standards, from the right or with the weights as published |
| `ScanForms` | the accumulators of single checkers beside their standards', and the issuers of card numbers | invariants that speak of what `Scan` leaves to its parameters |
| `Countries` | `cccc.c` and the functions it writes | one action per line read, per letter printed, per call |
| `CountryMap` | what a compiled list promises | abstract: a function from codes to lengths |
| `MC*` | instances for TLC | sets of strings and schemes |
| `*Proofs` | theorems | |

**Driver.** A string is what `chck1` can tell of it: the actions that the
recogniser executes on it, `fired`, and what every checker returns, `verdict`.
All orders and combinations are strings, but for one restriction, `Strings`:
an action whose checker does not refuse the string is executed on it once.
That is how Ragel's leaving actions (`%{...}`) work; `istc` has a finishing
action (`@{...}`), which may be executed again, and is modelled so.
`NextInput` is the `getline` loop or the one over `argi->args`, `EndOfInput`
end of file and read error alike, `Chck1` the reset and the entry,
`Refuse`/`maybe`/`defo` one execution of an action, and `Prnt*`, `SureDone`,
`CandDone` the printers' loops; `prnt1_1ln` and `prnt1_mln` differ in what
they count in `names` and `lines`. `Report` has no arrays, no loops and no
layout: `Numchk` maps `cells` to its answer once the driver is back for the
next input, and `ImplementsReport` states the refinement, which the run
`driver` checks and `ReportProofs` proves.

**Generic checks.** A scheme for check digits is there to tell a number from
the same number mistyped, so `Quasigroup` and `WeightedSum` run the checker on
two strings in lockstep, one the typist's copy of the other with at most one
slip. The calls share nothing, so that lockstep loses no behaviour of either.
Strings are met lazily, a character per step, so that lengths are small numbers
and contents are all choices.

**Weighted sums.** The sources differ in weights, in how characters are valued,
in what becomes of two-digit products, in the constant that the sum is
subtracted from, and in the modulus. Those are the fields of a scheme.
A second set of fields is the documented scheme: its weights with the check
character's own, its modulus and residue, and the values of the characters it
knows, `doc`. `std` adds those up as an observer; `odd` notes characters that
are not the scheme's and that only the code gives a value.
Prefixes and separators only count for the length. CAS numbers and GTINs are a
scheme for each number of digits, those included that the pattern admits and the
checker refuses.
The checkers that contradict their documentation are instances of `WeightedSum`,
for the runs that show it, but not of `WeightedStandard`, whose assumption they
do not meet.

**Scans.** Here the checkers do not share the form of a step, so `Step`
and `Finish` are operators, `Take` and `Settle` of `ScanSchemes`. An accumulator
is a tuple: of the sums (Luhn's for both parities, Brazil's two), of what is kept
of the string for the end (the last digit, to be corrected; the first four of a
card number), of what is found wrong on the way (the first check character of an
ISAN). Sums are kept reduced, for they stay far below any word. `Standards` says
the same of a string in the words of its standard, from which the arithmetic
follows and not the other way round: ISO 7064 starts from 10 or 36 and has the
remainder M for 0 where the code adds 9 and 1, Luhn counts from the right (a
digit more swaps the parts of its two totals, `Mirrored`), of an ISAN's one sum
is kept what the first check character closed (`Versioned`),
the Brazilian weights fall where the code's rise, Finnish weights are powers of
two. `Departs` names the strings on which a checker is known to differ, and
`AcceptsDocumented` holds each checker to both: it may depart nowhere else, and
must depart there. Of an Irish number of the form of 2013 the only account is
`test/numchk_01.txt`:60, the first letter weighed and the second compared. With
a W behind the check character, which the patterns of all forms admit, it is a
form of its own (`ievatidW`, `ievatidOldW`), and the character in front of the W
is the check. Of codes without a check character (`wkn`, `bic`, `imeisv`)
`Standards` knows nothing, every string is right: for them `AcceptsDocumented`
says no more than that nothing is called not conformant, for `bic` but for FIN
addresses.

**Country lists.** `Line` is a turn of the `getline` loop with all of `ccl_add`:
the array is enlarged if full, before it is known whether the line needs an entry.
`WriteValid`, `WriteOffs`, `WriteCc` print for one letter of the alphabet; what
is printed is kept as the table that the C compiler would make of it. `Ask` is a
call of `valid_cc_p` and `cc_len` as compiled, with their offsets. `CountryMap`
knows neither array nor offsets, and `Implements` states the refinement.
`cccc.c` orders codes by going through the whole array once for every pair of
letters ("the most idiotic sorting ever"). In the model an entry's `Place`
among those of its first letter, `Of`, is after the entries `Ahead` of it, with
a smaller second letter; as no code has two entries, that is the order printed.

**Long numbers.** `nmck_iban`, `nmck_credref` and `nmck_lei` expand letters to
two digits in a buffer, then add up nine digits, reduce, then seven at a time.
The two loops run as one in the model: a digit is added up when it would be
stored, which the buffer cannot tell. `bsz` counts what it holds. `ref` is the
remainder taken with every digit. `Append00` puts the country's six digits behind
whatever the length, as `nmck_iban` does; only then `CheckLength` compares it with
the country's. So the 66 digits of an overlong IBAN are met, and it is them that
the buffer has to hold. An ISTC without hyphens is a form of its own,
`istcPlain`; its characters are summed up to the end and the string then refused,
so none of them counts.

## 3. What is checked

| run | module | shows |
|---|---|---|
| `driver` | `MCNumchk` | arrays never overflow or leak, the report is the one `Report` prescribes, lines are as promised, every input is answered, with arguments the program ends |
| `groups` | `MCGroups` | of two strings one slip apart at most one passes `verhoeff`, `damm10`, `damm16`; for `damm10` a phonetic error, 13 heard as 30 to 19 as 90, is a slip, too |
| `suggest` | `Suggest` | the character `aadhaar` or `iposan` suggests is the only one that the generic check accepts there |
| `sums` | `MCSums` | 26 checkers on all sums, and after one slip at every place: the sum stays in step with the documented one, exactly the documented strings are conformant but for what `nmck_vin` and `nmck_nhi` accept beside (section 5), constants do not wrap, suggestions can be typed, slips are caught, four checkers alone refuse lengths of their patterns (`Turned`) |
| `remainders` | `MCRemainder` | nine checkers, ISTCs with and without hyphens: the word and the buffers suffice, reducing loses nothing, verdicts are the documented ones, four patterns (`Long`) have forms that are too long |
| `scans` | `MCScan` | 24 checkers and forms: conformant are exactly the right strings, but for the departures in section 5; suggestions repair the number; slips are caught; totals for either parity are Luhn's from the right; one sum serves both check characters of an ISAN; issuers are the longest match, with blanks anywhere; two patterns (`MCMisfit`) have forms that are too long |
| `countries` | `Countries` | the array suffices, no code has two entries, the three tables agree with the list at every step of the printing, the compiled functions implement `CountryMap` |
| `nhi`, `kennitala`, `ppsn`, `issn`, `ismn` | `MCWeighted` | violations, section 5 |

**Bounds, and why they are enough.**
`driver`: three checkers, one of each kind the driver tells apart (generic,
ordinary, re-entrant), an array of three slots, all 12 combinations of firing
with all verdicts, up to two arguments. Nothing in the driver depends on which
checker it is, the arrays are full when all fire, and inputs may follow each
other without end, so stale entries of any input meet any other.
`groups`: up to nine digits for Verhoeff, past the wrap of its permutation
after eight, five for Damm, three for the table of sixteen; an accumulator has
ten or sixteen values, so short strings reach them all.
`suggest`: all lengths from below the shortest to above the longest; the theorems
are for every length.
`sums`: every character at every position, at the true lengths; calls with the
same sum at the same position are one state. A call with a slip has it at every
place and of every kind, the other characters fixed; that they do not matter is
what `SumsStayApart` proves.
`remainders`: the true lengths, for IBANs with few, many and most blanks around
the limits of the checker and of the pattern; at the first positions the least and the
greatest characters, then only the greatest, which fill the word and the buffers
most. That other characters change nothing is what `KeepsRemainder` and
`NoOverflow` prove.
`scans`: as `sums`, for which `AccumulatorsStayApart` is the proof. Luhn's
numbers have two, three, six or seven digits, so that either parity is met with
every pair of totals. Beside the run, TLC evaluates `FollowAssumption`, for every
accumulator with every view of the standard that can belong to it (`Meets`), at
every position and with every character. Of card numbers every first and second
character, five of the third and one of the fourth reach every branch of the
switch but six of the seven Visa Electron prefixes; blanks may stand among the first three. In ISANs
with a version, digits of four values around the first check character, seven of
the last eight fixed, reach every sum before it and a right and a wrong one
behind it. These choices, made for card numbers and ISANs alone, are what
`EveryCharacterMet` and `IssuersFound` do without.
`countries`: three letters, lists of up to three lines, no length, one, and one
that does not fit an octet; the array has one entry at first and is enlarged
twice. With three letters there is one before, at and behind any other.

**Fairness.** Only the driver has liveness properties. `FairSpec` asks that a
process which can take a step takes one (weak fairness of `Chck`, `Prnt`,
parsing and, with arguments, of the loop over them): numchk runs alone and
neither blocks nor waits but in `getline`. Whether another line comes from stdin
is up to its writer: `NextInput` and `EndOfInput` get no fairness there, and
`InputAnswered` speaks of inputs that have been read. `EndOfArgs` and
`EndOfInput` lead to a state that stutters for good, the process being gone, so
that deadlock is checked in every run.

## 4. What is proved

TLAPS checks these for all values of the constants. TLC's runs check the same
formulas on the instances above.

- `NumchkProofs`. `Invariance`: `IInv` is inductive. `TypeCorrect`,
  `NoOverflow`, `NoStaleEntries`: types, `StoresInBounds`, `EntriesCurrent`.
  The difficulty is that `maybe` and `defo` test nothing. That a slot is free is
  no consequence of what is in the slots being right; it needs that no two hold
  the same checker (`Distinct`), which is preserved since every entry stands for
  an action executed earlier (`Executed`) and none is executed twice
  (`Strings`). Then a pigeonhole argument: fewer entries than checkers, and at
  most `NNMCK` checkers (`DriverAssumption`; the sources have 63 for 64 slots).
- `ReportProofs`. `Refinement`: the driver implements `Report`, for every set of
  checkers and strings, both options and any number of inputs. `RInv` follows
  the entries from the recogniser to the page: `Filed`, that the arrays hold
  exactly what was executed and not refused, in that order (one half of it,
  `Executed`, is in `IInv` already); `Page`, that the first entries of the arrays
  are out, the sure ones first. At the end of a page `Knowledge` identifies the
  arrays with what `Report` says of the string, and `PageReport` the page with
  the report. All other steps stutter. `DisciplinedLines`: `LineDiscipline`,
  from the printers' counts and a page never being empty.
- `QuasigroupProofs`. `Difference`: `QInv`, whose part `Apart` says that the
  accumulators differ from the slip on, halfway through a swap that they will.
  It is inductive since rows and columns of the table are permutations.
  `Detection`: `SlipCaught`, for numbers of every length. Assumed: a Latin
  square (`LatinAssumption`) that tells neighbours apart locally
  (`Distinguishes`), facts TLC evaluates for the real tables.
- `SuggestProofs`. `SuggestedVerhoeff`, `SuggestedDamm`: the digit that
  `nmck_aadhaar` suggests is the only one with which `nmck_verhoeff` accepts the
  number, the letter that `nmck_iposan` suggests stands for the only one of
  `nmck_damm10`, for strings of every length with blanks anywhere;
  `TypesOfSuggestions`: no character outside the string is read. Nothing is
  assumed of the tables. `nmck_aadhaar` folds the digits from the last to the
  first before it knows the check digit, with which `nmck_verhoeff` begins; that
  the one can be put behind the other needs the table to be associative.
  `DihedralTable` says that it is the group of the pentagon, `DihedralGroup` that
  this one is associative, from the laws of rotations and reflections rather than
  by its thousand triples, `Inverse5` that `Invert` inverts. `Folded` is then
  inductive: begun with any digit d, `nmck_verhoeff` stands at d times `prod`.
  For Damm's, `Trailing`, it is enough that `nmck_damm10` is two characters
  behind and that the table has its zeros on the diagonal.
- `WeightedSumProofs`. `SumsStayApart`, `SlipDetection`: the same for sums
  modulo a number. Assumed: `Separation`, that a slip changes what a position
  adds, evaluated by TLC for every scheme, position and pair of characters. So
  the detection rests on the code's weights and not on those of a standard.
  `SumsInStep`: `InStep` is inductive; the sum of the code is congruent to the
  documented one, or to its complement, and not above the greatest sum of its
  place. From it `Documentation` (`AcceptsDocumented`), `NoWrap`
  (`NoWraparound`), `Suggestions` (`SuggestionTypable`), and types
  (`TypesOfSums`); `Lengths` is `LengthsAgree`. Assumed: `StandardAssumption`,
  which is about single characters and single residues: each character adds what
  its documentation counts, the check character is right residue by residue
  (`Documents`, or in a residue the scheme leaves without one, `Tolerates`), the
  greatest sum does not pass the constant. A character the scheme does not know
  counts what the code makes of it, is remembered in `odd`, and makes the string
  undocumented. TLC evaluates the assumption for all schemes of the run;
  the sums of whole numbers are what the proof adds.
- `ScanProofs`. `AccumulatorsStayApart`, `ScanDetection`: the same for any
  accumulator at all. Assumed: `Separation`, that steps keep different
  accumulators different and lead to different check characters, evaluated by
  TLC for every accumulator that `Acc` names. What different means, `Differ`, is
  the scheme's: for Luhn both totals must differ, as the parity is not known yet.
  `StandardsMet` (`AcceptsDocumented`) and `SuggestionsRepair`
  (`SuggestionRight`): both rest on `Together`, that the accumulator of the code
  and what the standard knows of the string belong together, at every step, of
  both strings and through the slip. Assumed: `FollowAssumption`, that one step
  of both leads from such a pair to such a pair and that the end agrees for each.
  `TypesOfScans`, `LengthsFit`: `TypeOK`, `LengthsAgree`.
  The rest is of the steps themselves rather than of whatever meets assumptions:
  under `Concrete`, that the parameters are the sources' steps and the standards'
  (`MCScan.cfg` makes them so), for all the characters a checker accepts.
  `Beside` is inductive. Its parts are `Reversed`, that the standard's totals
  are the code's, swapped for odd counts, and that totals stay digits; `Chained`,
  that the sums of ISO 7064 and of `nmck_isan` are one, and what is noted of the
  first check character; `Remembered`, that as many of the first four characters
  of a card number are kept as were read. From it `TotalsMirrored` and
  `VersionsChained` (`Mirrored`, `Versioned`). A digit read from the left has to
  be the same as one put on at the right: the code adds 2d + 1 where Luhn takes 9
  from 2d (`Doubled`), a letter is two digits (`LetterDigits`), and of the
  check characters the code compares only one of those that close the sum
  (`ChecksCompared`).
  With `Told`, that a verdict is what the end makes of the accumulator, follows
  `EveryCharacterMet`: for Luhn numbers, ISINs, card numbers and ISANs with a
  version, `AcceptsDocumented` and `SuggestionRight` without `FollowAssumption`.
  `IssuersFound` (`IssuerTable`): every row of the table that fits the first four
  characters is one of those that `Row` spells out, and conversely (`FitRow`,
  `RowFits`); each branch of the switch is the longest of them (`ThreeChosen` to
  `SwitchFromTwo`), for every number of digits and with a blank in any place.
- `CountryProofs`. `StoredInBounds`, `OneEntryEach`: for every list and every
  first allocation. The two are proved as one invariant: that an overwritten
  entry is the only one of its code needs `OncePerCode`, that a new one lies
  inside the array needs the counters.
  `CompiledRight`: `Implements`, the refinement of `CountryMap`, for every list
  and every range of letters. It needs to know of the tables what nobody looks at
  until they are compiled, so `TablesAgree` proves `TablesWritten`, an invariant
  of the printing: per letter written, the letters that may follow are those of
  the list (`ValidWritten`); the offset is twice the number of entries before
  (`OffsWritten`); there the codes stand in order, their lengths behind them
  (`CcWritten`). That the places counted fill `1 .. n` without gaps, each once,
  is `Ordered`, a pigeonhole argument from `OncePerCode`: of two equal entries
  both would take the same place. No induction over the list is needed, as the
  code does not sort by exchanges. `Line` and `Ask` are the steps of `CountryMap`,
  all others stutter.
- `RemainderProofs`. `KeepsRemainder`: wherever the sum is reduced, it stays
  congruent to the number read so far. `RightVerdicts`: the verdict is the
  documented one for strings of every length. Assumed: `AnswerAssumption`, the
  check characters are right remainder by remainder, evaluated by TLC.
  `NoOverflow`: `SumFits`, no sum or product reaches 10^9, and none the constant
  it is subtracted from. `NoOverrun`: `BufferFits`. Neither is inductive: `Room`
  counts, beside what was added up, the digits of characters already expanded,
  and bounds the sum by `Most`, which grows with the digits since the last
  reduction and falls where the loop reduces. Assumed: `BoundAssumption`,
  that `Most` is such a bound for the greatest digit and that the longest strings
  that get past the first test of the length (`Enters`) fit with any country's
  digits behind them, whether or not their length is that country's; that lengths
  are those of the pattern until then is `Matched`. `TypesOfRemainders`,
  `LengthsFit`: `TypeOK`, `LengthsAgree`.

The assumptions named here are on the parameters of a scheme, that is, on tables
and constants copied from the source; each is local (one character, one step, one
remainder) and TLC evaluates it in every run of its module. What the theorems add
is that nothing can go wrong across characters, for strings of every content.

Only model-checked:

- `InputAnswered` and `ArgsTerminate`, being liveness under fairness, which the
  prover does not treat;
- the five violations of section 5, which are single counterexamples.

## 5. What was found

Each of the first five has a run that violates the property it contradicts.

- `nhi`: `nhi.c:58` says of the letters "A-Z \ {I, O} -> 1 - 24". The code tests
  for A to Z, I counts 9 like J and O counts 14 like P, and numbers with them are
  conformant.
- `kennitala`: the numbers whose sum leaves 10, with the check digit 1, are
  refused; for those that leave 1, which have no check digit, `:` is suggested.
- `ppsn`: where the sum is divisible by 23 the check character is W; the code
  asks for `@`.
- `issn`: seven digits are weighed 1 to 7; ISO 3297 has 8 to 2, that is 3 to 9
  modulo 11.
- `ismn`: the sum of an ISBN is taken for ten-character music numbers, where ISO
  10957 has the one of thirteen-digit numbers.

The runs that pass say of some checkers exactly how they differ from what is
documented; `AcceptsDocumented` fails if one of these differences goes away.

- `nmck_vin` takes I, O and Q, which no VIN has, for 16, the blank in its table;
  `nmck_nhi` I and O, as above (`odd`).
- `nmck_nhi` writes 0 for the residue 0, too, which leaves a number without a check
  digit (`lax`).
- `nmck_ievatid` takes a W behind the check character for the check character,
  which then need not be the right one: of numbers with two letters and a W those
  whose sum is divisible by 23 are conformant, whatever the second letter is
  (`ievatidW`). Numbers of the old form with a W are always refused.
- `nmck_grid` and `nmck_isan` refuse numbers whose check character is 0 and ask
  for `[` there. `nmck_isan` refuses check characters in lower case, which its
  pattern takes.
- `nmck_tfn` finds numbers of nine digits conformant when their right last digit
  would be 0, whatever it is; of eight digits, when the weighted sum before the
  last is 9 modulo 11.
- `nmck_dkvatid` and `nmck_fivatid` take the placeholder for a digit: the number
  that ends in `?` is conformant if the sum before is 7 modulo 11, in `_` if it
  is 10.
- `nmck_bic` returns 1 for a FIN address, which `numchk.h:44` keeps for numbers
  that are not conformant, so that the driver files it with the candidates.
- `nmck_credcard` looks the issuer up in the string with its blanks: one among
  the first four characters cuts the beginning off there, so that `4 026` is
  Visa's and `3 4` nobody's (`IssuerTable`).
- `nmck_credcard` looks numbers up that begin with 2 and are not MasterCard's or
  enRoute's as if they began with 3, the `break` being missing.
- Length tests refuse strings that patterns take. `LengthsAgree` says of each
  family that only its misfits do: CAS numbers with one or more than seven digits
  before the first hyphen; GTINs of 9, 10, 11, 15 and 16 digits, which are of no
  GS1 length; Slovenian numbers without SI and blank and Polish ones with
  everything optional (`Turned`); Belgian numbers with all dots, Greek ones with
  a blank behind GR, IBANs with many blanks, ISTCs with more than three digits in
  front, or six without hyphens (`Long`); IMEISV numbers with three hyphens and
  Irish ones with IE, a blank, two letters and a W (`MCMisfit`).
- All ISTCs without hyphens, which the pattern lets through, are refused: the
  checker looks for the first hyphen to the end (`istcPlain`).

Seen while reading, and not in a run:

- `nmck_ievatid` weighs the first of two letters and compares the second;
  `nmck_ppsn`, for the same numbers, has it the other way round.

Two things looked wrong and are not: `damm16` holds 2x+2y where `numchk.h` has
2x+y, but half of what the one accumulates is what the other does
(`HalfIsDocumented`), so verdicts agree; and the comment `12 mod 11` in `isni.c`
means 1, which the constant leaves.

## 6. What is not modelled

Which patterns match a string: the automaton Ragel generates is a product of
forty patterns and has no state the program keeps; `fired` ranges over what any
such automaton can do, so the driver's properties do not depend on it. The
patterns' lengths and characters enter as parameters of the checkers.
The words of the output, and where in the string a printer puts the check
characters: the verdict carries the characters, and those are modelled. Command
line parsing (generated by yuck) and the build system (run before numchk does), the
test runner.
Of the country lists the compiler is modelled, not their contents; an unlisted
country is one of the refusals (`Foreign`, and a tail that no IBAN has). Lines of
a list whose code is not two capital letters: there are none.

## 7. What could follow

1. `nmck_ievatid` against `nmck_ppsn`, in lockstep on the same number.
2. The patterns of two families as languages, to say which checkers a string is
   given to; the driver's `Strings` would then be their products.
