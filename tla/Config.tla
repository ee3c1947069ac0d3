------------------------------- MODULE Config -------------------------------
(***************************************************************************)
(* The configuration program (config/config.y): declarations of device     *)
(* types, then of devices, turned into the device switch devtab[] and the  *)
(* sizes of the control blocks.  A step is one piece of the grammar with   *)
(* its action; a declaration that is refused ends the program.             *)
(***************************************************************************)
EXTENDS Integers, SequencesExt

CONSTANTS
  Pieces,       \* the pieces of which configurations are made
  MaxPieces     \* length of a configuration

\* name COLON, ON name, an attribute with its value, DEFBRK, name IS type ON device.
\* NONAME stands for an ON that is left out.
NONAME == "none"
TypeP(name)       == [op |-> "tname", name |-> name, key |-> "", value |-> ""]
OnP(name)         == [op |-> "devheader", name |-> name, key |-> "", value |-> ""]
AttrP(key, value) == [op |-> "attribute", name |-> "", key |-> key, value |-> value]
BreakP            == [op |-> "DEFBRK", name |-> "", key |-> "", value |-> ""]
DeviceP(name, type, on) == [op |-> "fspec", name |-> name, key |-> type, value |-> on]

\* What a device has; IRQ sets both vectors.
Keys_ == {"csr", "ivec", "ovec", "iint", "oint", "init", "open", "close", "read",
          "write", "seek", "cntl", "getc", "putc"}
IRQBASE == 32
KeysOf(key) == IF key = "IRQ" THEN {"ivec", "ovec"} ELSE {key}

ASSUME ConfigAssumption == MaxPieces \in Nat

VARIABLES
  symtab,      \* the names met so far: each with symoccurs
  ftypes,      \* the types: dvtname, dvdevice, dvtnum and the attributes
  devs,        \* the devices: dvname and dvminor as well
  currtname,   \* symbol of the type that is being declared
  config,      \* where the program is: in the types, the devices, written or exited
  written,     \* conf.h: the sizes of the control blocks and the routines declared
  program      \* the pieces read so far

configVars == <<symtab, ftypes, devs, currtname, config, written, program>>

ConfigInit ==
  /\ symtab = <<>> /\ ftypes = <<>> /\ devs = <<>> /\ currtname = 0
  /\ config = "types" /\ program = <<>>
  /\ written = [sizes |-> <<>>, externs |-> <<>>]

LastOp == IF program = <<>> THEN "none" ELSE Last(program).op
Reads(p) == program' = Append(program, p) /\ Len(program) < MaxPieces

\* lookup() of names, one after the other.
Symbol(tab, name) == SelectInSeq(tab, LAMBDA s : s.symname = name)
Lookup(tab, name) ==
  IF Symbol(tab, name) # 0 THEN tab ELSE Append(tab, [symname |-> name, symoccurs |-> 0])
Lookups(names) == FoldLeft(Lookup, symtab, names)

\* initattr(): routines are named after the type, numbers are 0.
Suffix(k) == CASE k = "iint" -> "iin" [] k = "oint" -> "oin" [] k = "cntl" -> "control" [] OTHER -> k
Initattr(typnam) ==
  [k \in Keys_ |-> IF k \in {"csr", "ivec", "ovec"} THEN <<"number", 0>>
                    ELSE <<"routine", typnam \o Suffix(k)>>]

\* tname, with cktname().
Tname(p) ==
  LET tab == Lookups(<<p.name>>)
      duplicate == \E t \in Range(ftypes) : t.dvtname = p.name
  IN
  /\ config = "types" /\ p.op = "tname" /\ LastOp # "tname" /\ Reads(p)
  /\ symtab' = tab /\ config' = IF duplicate THEN "exited" ELSE "types"
  /\ currtname' = IF duplicate THEN currtname ELSE Symbol(tab, p.name)
  /\ UNCHANGED <<ftypes, devs>>

\* Mutant: a type is declared for one device only.
TypeOnly(t, tn, dn) == t.dvtname = tn
SameNode(t, tn, dn) == t.dvtname = tn /\ t.dvdevice = dn

\* devheader, with mktype().
Mktype(p) ==
  LET tn == symtab[currtname].symname
      duplicate == \E t \in Range(ftypes) : SameNode(t, tn, p.name)
  IN
  /\ config = "types" /\ p.op = "devheader" /\ LastOp # "none" /\ Reads(p)
  /\ symtab' = Lookups(<<p.name>>) /\ config' = IF duplicate THEN "exited" ELSE "types"
  /\ ftypes' = IF duplicate THEN ftypes
               ELSE Append(ftypes, [dvtname |-> tn, dvdevice |-> p.name, dvtnum |-> currtname,
                                    attr |-> Initattr(tn)])
  /\ UNCHANGED <<devs, currtname>>

\* Mutant: a leading zero means nothing.
TenOrHex(base) == IF base = 16 THEN 16 ELSE 10
Base(base)     == base

\* config_atoi(): digits of any base, read from the left.
ConfigAtoi(base, digits) == FoldLeft(LAMBDA rv, c : rv * Base(base) + c, 0, digits)
Val(p) ==
  IF p.value[1] = "number"
  THEN <<"number", ConfigAtoi(p.value[2], p.value[3]) + IF p.key = "IRQ" THEN IRQBASE ELSE 0>>
  ELSE p.value

\* newattr(), on the last type, or the last device as soon as there is one.  Mutant: an
\* IRQ sets the input vector only.
InputOnly(p) == IF p.key = "IRQ" THEN {"ivec"} ELSE {p.key}
Sets(p)      == KeysOf(p.key)
WithAttr(list, p) ==
  [list EXCEPT ![Len(list)].attr = [k \in Keys_ |-> IF k \in Sets(p) THEN Val(p) ELSE @[k]]]
Newattr(p) ==
  /\ config \in {"types", "devices"} /\ p.op = "attribute"
  /\ LastOp \in {"devheader", "fspec", "attribute"} /\ Reads(p)
  /\ symtab' = IF p.value[1] = "routine" THEN Lookups(<<p.value[2]>>) ELSE symtab
  /\ IF devs = <<>> THEN ftypes' = WithAttr(ftypes, p) /\ UNCHANGED devs
     ELSE devs' = WithAttr(devs, p) /\ UNCHANGED ftypes
  /\ UNCHANGED <<currtname, config>>

Defbrk(p) ==
  /\ config = "types" /\ p.op = "DEFBRK" /\ LastOp # "tname" /\ Reads(p)
  /\ config' = "devices" /\ UNCHANGED <<symtab, ftypes, devs, currtname>>

\* ckdname().
Duplicate(name) == \E d \in Range(devs) : d.dvname = name

\* fspec, with ckdname() and mkdev().  An ON that is left out is passed on as symbol 0,
\* which is the first name in the file.
Mkdev(p) ==
  LET tab  == Lookups(IF p.value = NONAME THEN <<p.name, p.key>> ELSE <<p.name, p.key, p.value>>)
      dn   == IF p.value = NONAME THEN tab[1].symname ELSE p.value
      fits == {i \in DOMAIN ftypes : ftypes[i].dvtname = p.key /\ ftypes[i].dvdevice = dn}
      type == ftypes[Min(fits)]
  IN
  /\ config = "devices" /\ p.op = "fspec" /\ Reads(p)
  /\ symtab' = IF Duplicate(p.name) THEN Lookups(<<p.name>>) ELSE tab
  /\ IF Duplicate(p.name) \/ fits = {} THEN config' = "exited" /\ UNCHANGED devs
     ELSE devs' = Append(devs, [dvname |-> p.name, dvtname |-> type.dvtname, dvtnum |-> type.dvtnum,
                                dvminor |-> 0, attr |-> type.attr]) /\ UNCHANGED config
  /\ UNCHANGED <<ftypes, currtname>>

\* Mutant: the numbers of all devices are counted together.
Together(i) == i - 1
SameType(i) == Cardinality({j \in 1 .. i - 1 : devs[j].dvtnum = devs[i].dvtnum})

\* The routines of all devices, each once, in the order in which they are looked up.
Looked == <<"init", "open", "close", "read", "write", "seek", "cntl", "getc", "putc", "iint", "oint">>
Externs(list) ==
  FoldLeft(LAMBDA names, d :
             FoldLeft(LAMBDA n, k : IF Contains(n, d.attr[k][2]) THEN n ELSE Append(n, d.attr[k][2]),
                      names, Looked),
           <<>>, list)

\* The second DEFBRK or the end of the file: minor numbers, how often a type occurs,
\* and the symbol table emptied for the names of the routines.
Write ==
  /\ config = "devices"
  /\ devs' = [i \in DOMAIN devs |-> [devs[i] EXCEPT !.dvminor = SameType(i)]]
  /\ LET counted == [k \in DOMAIN symtab |->
           [symtab[k] EXCEPT !.symoccurs = Cardinality({i \in DOMAIN devs : devs[i].dvtnum = k})]]
     IN  written' = [sizes |-> SelectSeq(counted, LAMBDA y : y.symoccurs > 0), externs |-> Externs(devs)]
  /\ symtab' = [k \in DOMAIN Externs(devs) |-> [symname |-> Externs(devs)[k], symoccurs |-> 0]]
  /\ config' = "written" /\ UNCHANGED <<ftypes, currtname, program>>

ConfigNext ==
  \/ /\ \E p \in Pieces : Tname(p) \/ Mktype(p) \/ Newattr(p) \/ Defbrk(p) \/ Mkdev(p)
     /\ UNCHANGED written
  \/ Write
-----------------------------------------------------------------------------
(* Properties: what a configuration means. *)

Ops(op) == {i \in DOMAIN program : program[i].op = op}
\* The last piece of the kinds S before i; 0 if there is none.
Before(i, S) == Max({0} \cup {j \in 1 .. i - 1 : program[j].op \in S})
\* The attributes that follow the piece i.
Following(i) == {j \in Ops("attribute") : i < j /\ Before(j, {"devheader", "fspec"}) = i}
TypeAt(i) == program[Before(i, {"tname"})].name

\* Where the type is declared that the device at i is of.
TypesFor(i) ==
  {j \in Ops("devheader") : TypeAt(j) = program[i].key /\ program[j].name = program[i].value}

\* The last value that the pieces after i give to k; none if there is none.
GivenTo(i, k) == {j \in Following(i) : k \in KeysOf(program[j].key)}

\* What a piece gives to k: a number is the sum of its digits times their weights.
RECURSIVE Weighed(_, _)
Weighed(base, digits) ==
  IF digits = <<>> THEN 0 ELSE Head(digits) * base ^ (Len(digits) - 1) + Weighed(base, Tail(digits))
Means(p) ==
  IF p.value[1] = "routine" THEN p.value
  ELSE <<"number", Weighed(p.value[2], p.value[3]) + IF p.key = "IRQ" THEN 32 ELSE 0>>

\* A device has what its own declaration says, else what its type says, else what
\* all types have (config.y:412-466, 518-607): a declaration changes no other.
AsDeclared ==
  \A n \in DOMAIN devs :
    LET i == CHOOSE i \in Ops("fspec") : Cardinality({j \in Ops("fspec") : j < i}) = n - 1
        t == Min(TypesFor(i)) IN
    TypesFor(i) # {} =>
      /\ devs[n].dvname = program[i].name /\ devs[n].dvtname = program[i].key
      /\ \A k \in Keys_ :
           devs[n].attr[k] = IF GivenTo(i, k) # {} THEN Means(program[Max(GivenTo(i, k))])
                             ELSE IF GivenTo(t, k) # {} THEN Means(program[Max(GivenTo(t, k))])
                             ELSE Initattr(program[i].key)[k]

\* The devices of a type are numbered from 0 and the size of its control blocks is how
\* many there are: the drivers index their tables with dvminor (config.y:245-258).
MinorsFit ==
  config = "written" =>
    \A d \in Range(devs) :
      \E y \in Range(written.sizes) :
        /\ y.symname = d.dvtname
        /\ {e.dvminor : e \in {e \in Range(devs) : e.dvtname = d.dvtname}} = 0 .. y.symoccurs - 1
        /\ Cardinality({e \in Range(devs) : e.dvtname = d.dvtname}) = y.symoccurs

\* A configuration is refused for a name that is there already or a type that is not,
\* and for nothing else (config.y:470-505, 593-604, 612-627).  A device without ON is refused
\* as well unless its type is on the first name of the file.
RefusedRightly ==
  (config = "exited") =
    (program # <<>> /\
     LET n == Len(program)
         p == program[n]
         same(q) == q.op = p.op /\ q.name = p.name
     IN CASE p.op = "tname" -> \E i \in Ops("devheader") : TypeAt(i) = p.name
          [] p.op = "devheader" -> \E i \in Ops("devheader") \ {n} : same(program[i]) /\ TypeAt(i) = TypeAt(n)
          [] p.op = "fspec" -> \/ \E i \in Ops("fspec") \ {n} : same(program[i])
                               \/ p.value # NONAME /\ TypesFor(n) = {}
                               \/ /\ p.value = NONAME
                                  /\ ~\E j \in Ops("devheader") :
                                       TypeAt(j) = p.key /\ program[j].name = program[1].name
          [] OTHER -> FALSE)

\* The tables written are those that the configuration declares.
TablesRight == AsDeclared /\ MinorsFit /\ RefusedRightly
=============================================================================
