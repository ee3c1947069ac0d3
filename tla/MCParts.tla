------------------------------ MODULE MCParts ------------------------------
(* Small instances of the parts: what each is given. *)
EXTENDS Parts

\* Main memory in two pieces.
Mem == {[at |-> 0, len |-> 8], [at |-> 10, len |-> 7]}
Kinds == {[size |-> 1, num |-> 3], [size |-> 2, num |-> 2]}

\* Formats with a field of every kind, numbers with and without the highest bit.
D(l, z, mi, ma, k) == Directive(l, z, mi, ma, k)
Fs ==
  {<<D(l, z, m, 0, k)>> : l \in BOOLEAN, z \in BOOLEAN, m \in {0, 3, 7, 9}, k \in NumberKinds}
  \cup {<<D(l, FALSE, m, x, k)>> : l \in BOOLEAN, m \in {0, 4}, x \in {0, 2, ARG}, k \in {"c", "s", "q"}}
  \cup {<<D(FALSE, FALSE, ARG, 0, "d"), D(FALSE, FALSE, 8, 0, k)>> : k \in {"u", "x", "s", "q"}}
Nums == {0, 9, 10, 4095, 32767, 32768, 32769, 50000, 60000, 65535}
Ts == {<<>>, <<"a">>, <<"a", "b", "c">>}
Ins == UNION {[1 .. n -> {"1", "9", "-", " ", "a"}] : n \in 0 .. 4}
SF(k, n) == ScanDirective(TRUE, n, k)
W == ScanDirective(FALSE, 0, "white")
SFs ==
  {<<SF("d", NOLIMIT), SF("d", NOLIMIT)>>, <<SF("d", 2), SF("c", NOLIMIT)>>,
   <<SF("s", NOLIMIT), W, SF("x", NOLIMIT)>>, <<SF("s", 2), SF("d", 1)>>,
   <<ScanDirective(FALSE, NOLIMIT, "o"), ScanDirective(FALSE, "a", "literal"), SF("c", 2)>>,
   <<W, ScanDirective(FALSE, "-", "literal"), SF("d", NOLIMIT)>>,
   <<SF("c", NOLIMIT), ScanDirective(FALSE, "-", "literal")>>,
   <<SF("s", 1), ScanDirective(FALSE, "-", "literal"), SF("d", NOLIMIT)>>}

\* The pieces of configurations: a type for two devices, a device with and without ON.
Ps == {TypeP("tty"), TypeP("com"), OnP("hw"), OnP("tty"), BreakP,
       AttrP("IRQ", <<"number", 16, <<1, 10>>>>), AttrP("ivec", <<"number", 8, <<4, 4>>>>),
       AttrP("read", <<"routine", "comread">>),
       DeviceP("a", "tty", "hw"), DeviceP("b", "tty", "tty"), DeviceP("b", "com", "hw"),
       DeviceP("tty", "tty", NONAME)}

\* BIOS areas with directories that are none, wrong, foreign and good; two kinds of cards.
B(c, s, f) == [code |-> c, base |-> 100, offset |-> 7, signature |-> s, finds |-> f]
Pg(g, m, r, b) == [sig |-> g, sum |-> m, revision |-> r, bios |-> b]
Good == B(0, TRUE, TRUE)
Areas ==
  {<<>>,
   <<Pg(FALSE, 0, 0, Good), Pg(TRUE, 1, 0, B(0, FALSE, TRUE)), Pg(TRUE, 0, 1, Good), Pg(TRUE, 0, 0, Good),
     Pg(TRUE, 0, 0, B(128, TRUE, TRUE))>>,
   <<Pg(TRUE, 0, 0, B(128, TRUE, TRUE)), Pg(TRUE, 0, 0, Good)>>,
   <<Pg(TRUE, 0, 0, B(0, FALSE, TRUE))>>, <<Pg(TRUE, 0, 0, B(0, TRUE, FALSE))>>}
Dv(v, d, w) == [vendor |-> v, device |-> d, where |-> w]
Devs == {<<>>, <<Dv(1,1,1), Dv(2,0,2), Dv(1,1,3), Dv(3,1,4), Dv(1,1,5), Dv(2,3,6)>>, <<Dv(2,2,1), Dv(1,0,2)>>}
Ms == [area : Areas, devices : Devs]
VT == <<1, 2>>
K905 == <<1, 1>>
K100 == <<2, 2>>

\* Cards at the borders of the rows of ports, and one at a port within with every
\* interrupt line, address and memory.
Rom(irq, pre) ==
  [w \in 0 .. 7 |-> CASE w = 4 -> pre [] w = 3 -> 5 [] w = 2 -> 44 [] w = 1 -> 40 + irq [] OTHER -> 63]
INT == <<0, 5, 0>>
Cs == [port : {0, 512, 576, 624, 768, 880, 896}, bus : {36, 236, 100}, obeys : {TRUE},
       rom : {Rom(2, 5)}, ram : {"64"}]
      \cup [port : {544}, bus : {236}, obeys : BOOLEAN, rom : {Rom(i, p) : i \in 0 .. 5, p \in {5, 13}},
            ram : {"32", "64", "bad"}]
=============================================================================
