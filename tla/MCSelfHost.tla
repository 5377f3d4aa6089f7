---------------------------- MODULE MCSelfHost ----------------------------
(* Disks of 32 words (words are bytes here, addresses below 128, and a byte *)
(* has four values: a letter, the dot, the slash and one UTF-8 has not):     *)
(* every small project under a good request, projects whose texts only one   *)
(* reader minds, and every request around a good project.                    *)
EXTENDS SelfHost

MCUtf8(text) == 3 \notin Range(text)

Control(size, project, length, output, capacity, mode) ==
    <<ControlMagic, 1, size, project, length, 0, output, capacity, Pending, 0, mode>>

\* The disk of a control block, and a project from its address on.
Disk(control, project) ==
    [w \in 0 .. 31 |->
        IF w < 11 THEN control[w + 1]
        ELSE LET i == w - control[4] \div 4 + 1
             IN  IF i \in DOMAIN project THEN project[i] ELSE 0]

Header(files, roots, definitions) == <<BundleMagic, 1, 0, files, roots, definitions>>

Tails == UNION {[1 .. n -> {0, 1, 2, 5, Modulus - 2}] : n \in {0, 1, 2, 3}}

Texts == {<<0>>, <<3, 9>>, <<Modulus - 2>>}

Projects ==
    {Header(1, 0, 0) \o t : t \in Tails}
        \cup {Header(1, 1, 0) \o r \o <<1>> \o p \o <<0>> : r \in Texts, p \in Texts}
        \cup {Header(1, 0, 1) \o d \o <<k, 1, 0, 0>> : d \in Texts, k \in {1, 2}}
        \cup {Header(2, 0, 0) \o <<k, 0, 0, 1, 0, 0>> : k \in {1, 2}}
        \cup {Header(n, r, 0) \o <<1, 1, 0, 0>> : n \in {0, 2, Modulus - 1}, r \in {0, 1}}
        \cup {<<BundleMagic, v, f, 1, 0, 0, 1, 1, 0, 0>> : v \in {1, 2}, f \in {0, 1}}

Good == Header(1, 0, 0) \o <<1, 1, 0, 0>>

\* a, aa, "a.", a/a, a//a, ./a; none, ".", "..", /a, a byte that is no text,
\* and a with a byte behind it.
Names ==
    {<<1, 0>>, <<2, 0>>, <<2, 16>>, <<3, 32>>, <<4, 40>>, <<3, 96>>,
     <<0>>, <<1, 64>>, <<2, 80>>, <<2, 128>>, <<1, 192>>, <<1, 1>>}

NamedProjects ==
    {Header(2, 0, 0) \o <<1>> \o p \o <<0, 2>> \o q \o <<0>> : p \in Names, q \in Names}
        \cup {Header(1, 1, 0) \o n \o <<1, 1, 0, 0>> : n \in Names}
        \cup {Header(1, 0, 1) \o n \o <<1, 1, 0, 0>> : n \in Names}
        \cup {Header(1, 0, 0) \o <<1, 1, 0>> \o n : n \in Names}

\* The project and its request; the length may cut the project or go on.
ProjectDisks ==
    {Disk(Control(128, 44, 4 * Len(p) + d, 96, 32, 0), p) : p \in Projects, d \in {-6, -4, 0, 4}}
        \cup {Disk(Control(128, 44, 4 * Len(p), 112, 16, 0), p) : p \in NamedProjects}

RequestDisks ==
    {Disk(Control(size, project, 40, output, capacity, mode), Good) :
        size \in {32, 64, 96, 128}, project \in {40, 44, 46},
        output \in {64, 80, 84, 86, 96, 116}, capacity \in {0, 4, 6, 8, 12, 32, 48, 64},
        mode \in {0, 1, 4}}

OtherDisks ==
    {[Disk(Control(128, 44, 40, 84, 44, 0), Good) EXCEPT ![w] = 7] : w \in {0, 1}}

MCDisks == ProjectDisks \cup RequestDisks \cup OtherDisks
=============================================================================
