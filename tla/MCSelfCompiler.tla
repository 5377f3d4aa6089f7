--------------------------- MODULE MCSelfCompiler ---------------------------
(* Instances of SelfCompiler: programs built from their structure, with the  *)
(* meaning CReference gives them, and programs in C for what that structure  *)
(* leaves out, with the meaning C gives them.                                *)
EXTENDS SelfCompiler

C == INSTANCE CReference

Given == <<5, 3, 9, 2>>

----------------------------------------------------------------------------
(* How a program is written and built. *)

Wordlike == Letters \union DigitsBelow(10)

\* Whether two words written without a blank would be read as others.
Merge(l, r) ==
    LET a == SubSeq(l, Len(l), Len(l))
        b == SubSeq(r, 1, 1)
    IN  \/ a \in Wordlike /\ b \in Wordlike
        \/ a \notin Wordlike \union Characters("(){}[];,")
             /\ b \notin Wordlike \union Characters("(){}[];,")

RECURSIVE Concatenated(_)
Concatenated(strings) ==
    LET half == Len(strings) \div 2
    IN  IF half = 0 THEN strings[1]
        ELSE Concatenated(SubSeq(strings, 1, half))
               \o Concatenated(SubSeq(strings, half + 1, Len(strings)))

Joined(words, between(_, _)) ==
    Concatenated([i \in DOMAIN words |->
        IF i = Len(words) THEN words[i] ELSE words[i] \o between(words[i], words[i + 1])])

Builds ==
    {[full |-> FALSE, tight |-> FALSE, load |-> 0, symphony |-> FALSE],
     [full |-> FALSE, tight |-> TRUE, load |-> 300, symphony |-> TRUE],
     [full |-> TRUE, tight |-> FALSE, load |-> 7, symphony |-> FALSE]}

Spelled(words, build) ==
    CASE build.tight -> Joined(words, LAMBDA l, r : IF Merge(l, r) THEN " " ELSE "")
      [] build.full  -> Joined(words, LAMBDA l, r : IF l = ";" THEN "//;\n/**/" ELSE "\t")
      [] OTHER       -> Joined(words, LAMBDA l, r : " ")

Built(program, build) ==
    LET words   == C!ProgramText(program, build.full)
        meaning == C!Meaning(program, Given)
    IN  [text |-> Spelled(words, build), inputs |-> Given, valid |-> TRUE,
         load |-> build.load, symphony |-> build.symphony,
         outputs |-> meaning.outputs, result |-> meaning.result]

Verbatim(text, valid, outputs, result, build) ==
    [text |-> text, inputs |-> Given, valid |-> valid,
     load |-> build.load, symphony |-> build.symphony, outputs |-> outputs, result |-> result]

----------------------------------------------------------------------------
(* Expressions: every two operators around each other, every operator        *)
(* between operands of every form, and with operands that have effects.      *)

X(name) == C!V(name)
F(n) == C!Call("f", <<C!N(n)>>)

Groups ==
    {<<"*", "/", "%", "+", "-">>, <<"<<", ">>", "<", ">">>, <<"<=", ">=", "==", "!=">>,
     <<"&", "^", "|">>, <<"&&", "||", ",">>}
Signs == UNION {ToSet(g) : g \in Groups}
Forms ==
    <<X("a"), F(2), C!U("-", X("b")), C!U("~", X("a")), C!U("!", X("c")),
      C!Set("c", "=", X("a")), C!Choice(X("c"), X("a"), X("b"))>>

Around(l, group) ==
    FlattenSeq([i \in DOMAIN group |->
        <<C!B(C!B(X("a"), l, X("b")), group[i], C!N(3)),
          C!B(X("a"), l, C!B(X("b"), group[i], C!N(3)))>>])
Between(sign, l) == [i \in DOMAIN Forms |-> C!B(Forms[l], sign, Forms[i])]
Effects(sign) ==
    <<C!B(F(1), sign, F(2)), C!B(F(2), sign, F(1)), C!B(F(1), sign, F(1)),
      C!Choice(C!B(F(1), sign, F(2)), F(3), F(4))>>
Compound(sign) ==
    <<C!Set("a", sign \o "=", X("b")), C!Set("b", sign \o "=", C!Set("a", "=", C!N(2))), X("a")>>

Locals ==
    <<C!Declare("int", "a", C!N(100)), C!Declare("int", "b", C!N(7)),
      C!Declare("int", "c", C!N(0))>>
Echo ==
    C!Function("f", <<"x">>,
        <<C!Do(C!Out(X("x"))), C!Return(C!B(X("x"), "-", C!N(1)))>>)
Main(globals, functions, list) ==
    [globals |-> globals, functions |-> Append(functions, C!Function("main", <<>>, list))]
Showing(list) ==
    Main(<<>>, <<Echo>>,
         Locals \o [i \in DOMAIN Front(list) |-> C!Do(C!Out(list[i]))]
                \o <<C!Return(Last(list))>>)

Expressions ==
    {Showing(Around(l, g)) : l \in Signs, g \in Groups}
    \union {Showing(Between(sign, l)) : sign \in Signs, l \in DOMAIN Forms}
    \union {Showing(Effects(sign)) : sign \in Signs}
    \union {Showing(Compound(sign)) : sign \in ToSet(<<"+", "-", "*", "/", "%", "&", "^", "|", "<<", ">>">>)}

Constants ==
    {Main(<<>>, <<>>, <<C!Return(C!B(C!B(C!N(9), l, C!N(4)), r, C!N(2)))>>) :
        l, r \in Signs \ {"/", "%"}}

----------------------------------------------------------------------------
(* Control: a loop in a loop, each of every kind, with every jump in either. *)

Counts(name, sign, n) == C!B(C!Set(name, "+=", C!N(1)), sign, C!N(n))
LoopOf(kind, name, body) ==
    CASE kind = "for"   -> C!For(C!Do(C!Set(name, "=", C!N(0))), C!B(X(name), "<", C!N(3)),
                                 C!Set(name, "+=", C!N(1)), body)
      [] kind = "while" -> C!While(Counts(name, "<", 4), body)
      [] kind = "do"    -> C!DoWhile(body, Counts(name, "<", 3))
JumpOf(jump, name) ==
    CASE jump = "none"   -> C!If(C!B(X(name), "==", C!N(1)), C!Do(C!Out(C!N(77))), C!Do(X(name)))
      [] jump = "return" -> C!If(C!B(X(name), "==", C!N(2)), C!Return(X(name)), C!Skip)
      [] OTHER           -> C!If(C!B(X(name), "==", C!N(1)), C!Leave(jump), C!Skip)
Jumps == {"none", "break", "continue", "return"}
Kinds == {"for", "while", "do"}
Nested(outer, inner, jump, last) ==
    Main(<<>>, <<>>,
      <<C!Declare("int", "i", C!N(0)),
        LoopOf(outer, "i", C!Block(
            <<C!Declare("int", "j", C!N(0)),
              LoopOf(inner, "j", C!Block(
                <<JumpOf(jump, "j"), C!Do(C!Out(C!B(C!B(X("i"), "*", C!N(8)), "+", X("j"))))>>)),
              JumpOf(last, "i"), C!Do(C!Out(X("j")))>>)),
        C!Return(X("i"))>>)

Controls == {Nested(o, i, j, l) : o, i \in Kinds, j, l \in Jumps}

----------------------------------------------------------------------------
(* Scopes: blocks in a block that declare the names of the others, or not,   *)
(* with and without an object of the file and a parameter behind them.       *)

Opens(name, n) ==
    IF name = "" THEN <<>> ELSE <<C!Declare("int", name, C!N(n))>>
Changes(n) == <<C!Do(C!Set("a", "+=", C!N(n))), C!Do(C!Out(C!B(X("a"), "-", X("b"))))>>
Shadows(first, second, third) ==
    Main(<<C!Declare("int", "a", C!N(20)), C!Declare("int", "b", C!N(30))>>,
         <<C!Function("f", <<"b">>,
            <<C!Block(Opens(first, 1) \o <<C!Block(Opens(second, 2) \o Changes(4))>> \o Changes(8)
                \o <<C!Block(Opens(third, 3) \o Changes(16))>>), C!Return(X("b"))>>)>>,
         <<C!Do(C!Out(C!Call("f", <<C!N(9)>>)))>> \o Changes(3) \o <<C!Return(X("a"))>>)
Scopes == {Shadows(x, y, z) : x, y, z \in {"", "a", "b"}}

----------------------------------------------------------------------------
(* Calls: any number of parameters, calls among the arguments, recursion,    *)
(* and objects that hold less than a word.                                   *)

Letter(i) == <<"p", "q", "r", "s", "t", "u", "v", "w", "x", "y">>[i]
Parameters10(n) == [i \in 1 .. n |-> Letter(i)]
Passing(n) ==
    Main(<<>>, <<Echo, C!Function("g", Parameters10(n),
            [i \in 1 .. n |-> C!Do(C!Out(X(Letter(i))))]
              \o <<C!Return(C!B(X("p"), "-", X(Letter(n))))>>)>>,
         <<C!Do(C!Out(C!Call("g", [i \in 1 .. n |-> IF i <= 7 THEN F(i) ELSE C!N(i)]))),
           C!Return(C!B(C!N(1), "+", C!Call("g", [i \in 1 .. n |->
                IF i = n THEN C!Call("g", [k \in 1 .. n |-> C!N(k)]) ELSE C!N(i)])))>>)

Fibonacci ==
    Main(<<>>,
         <<C!Function("h", <<"n">>,
            <<C!If(C!B(X("n"), "<", C!N(2)), C!Return(X("n")), C!Skip),
              C!Return(C!B(C!Call("h", <<C!B(X("n"), "-", C!N(1))>>), "+",
                           C!Call("h", <<C!B(X("n"), "-", C!N(2))>>)))>>)>>,
         <<C!Declare("int", "n", C!B(C!Call("input", <<>>), "-", C!N(1))),
           C!Do(C!Out(C!Call("h", <<X("n")>>))), C!Return(C!Call("h", <<C!Call("input", <<>>)>>))>>)

Narrow(type) ==
    Main(<<C!Declare(type, "g", C!N(5))>>, <<Echo>>,
      <<C!Declare(type, "a", C!N(300)), C!Declare(type, "b", C!N(0)), C!Declare("int", "c", C!N(9)),
        C!Do(C!Set("b", "=", X("a"))), C!Do(C!Set("a", "+=", C!N(6))), C!Do(C!Set("g", "*=", X("c"))),
        C!Do(C!Out(X("a"))), C!Do(C!Out(X("b"))), C!Do(C!Out(X("g"))), C!Do(C!Out(X("c"))),
        C!Return(C!B(X("a"), "+", C!B(X("b"), "*", C!N(16))))>>)

Functions ==
    {Passing(n) : n \in 1 .. 10} \union {Fibonacci} \union {Narrow(t) : t \in {"int", "char", "_Bool"}}

----------------------------------------------------------------------------
(* Objects: arrays, pointers, structures and what a declaration says of      *)
(* them.  The texts are followed by what they output and return.             *)

ObjectPrograms ==
    {<<"int main(void){int a[3]; int *p=a; int i; for(i=0;i<3;i++) a[i]=i*i+1; p++; *p=*p+5; output(*(p+1)); output(a[1]); return p-a;}",
       <<5, 7>>, 1>>,
     <<"int m[2][3]={1,2,3,4,5,6}; int main(void){int t[2][3]; int i; int j; for(i=0;i<2;i++) for(j=0;j<3;j++) t[i][j]=m[i][j]*2; output(t[1][0]); output(t[0][2]); int *row=m[1]; return row[2];}",
       <<8, 6>>, 6>>,
     <<"struct P{char c; int x; short s;}; struct P g; struct P *q=&g; int main(void){struct P l; int k; l.c=3; l.x=9; l.s=5; k=1; q->x=l.x+l.c; g.s=l.s; output(g.x); output(q->s); output(sizeof(struct P)); return l.c+k;}",
       <<12, 5, 12>>, 4>>,
     <<"struct N; typedef struct N *L; struct N{int v; L next;}; typedef struct N Node; int sum(L p){int t=0; while(p){t+=p->v; p=p->next;} return t;} int main(void){Node a; Node b; Node c; a.v=1; b.v=20; c.v=300; a.next=&b; b.next=&c; c.next=0; output(sum(&b)); return sum(&a);}",
       <<320>>, 321>>,
     <<"void swap(int *x,int *y){int t=*x; *x=*y; *y=t;} int main(void){int a=4; int b=6; swap(&a,&b); output(a); return b;}",
       <<6>>, 4>>,
     <<"int n; int next(void){static int k=10; static int *w=&k; k=k+1; return *w;} int other(void){static int k; k=k+2; return k;} int main(void){output(next()); output(other()); output(next()); output(n); return other();}",
       <<11, 2, 12, 0>>, 4>>,
     <<"enum E{A,B=7,C}; enum E e=C; int main(void){enum {A=3,D}; output(A); output(D); {enum {B=1}; output(B);} output(B); return e;}",
       <<3, 4, 1, 7>>, 8>>,
     <<"typedef int W; typedef char *S; W f(W x){return x+1;} int main(void){typedef short W; S s; char a[3]; a[0]=2; a[1]=5; a[2]=0; s=a; output(sizeof(W)); output(s[1]); int n=0; while(s[n]) n++; return f(n);}",
       <<2, 5>>, 3>>,
     <<"int main(void){int n=input(); int v[n]; int w[n][2]; int i; for(i=0;i<n;i++){v[i]=i+1; w[i][0]=i; w[i][1]=i*3;} output(v[4]); output(w[3][1]); output(w[4][0]); return sizeof v;}",
       <<5, 9, 4>>, 20>>,
     <<"char t[4]={1,2,3}; short h=9; int z[2]; int *p=z; char *s=0; int main(void){p[1]=8; t[3]=t[2]+t[0]; output(t[3]); output(z[1]); output(h); output(s==0); return t[1];}",
       <<4, 8, 9, 1>>, 2>>,
     <<"int later(int x); extern int g; int main(void){output(later(g)); return later(3);} int g=6; int later(int x){if(x==0) return 0; return x+later(x-1);}",
       <<21>>, 6>>,
     <<"int sum(int m[2][2],int n){int t=0; int i; for(i=0;i<n;i++) t+=m[i][0]*10+m[i][1]; return t;} int main(void){int m[2][2]; m[0][0]=1; m[0][1]=2; m[1][0]=3; m[1][1]=4; return sum(m,2);}",
       <<>>, 46>>,
     <<"struct I{char a; char b;}; struct O{char k; struct I in[2]; int *p;}; int main(void){struct O o; int x=7; o.k=1; o.in[0].b=2; o.in[1].a=3; o.in[1].b=4; o.p=&x; *o.p=5; output(o.in[0].b); output(o.in[1].a+o.in[1].b); output(sizeof(struct O)); return x+o.k;}",
       <<2, 7, 12>>, 6>>,
     <<"int main(void){int a=1; int *p=&a; int **q=&p; **q=9; output(a); int b=a++; output(b); output(a--); output(++a); output(--a); return *p;}",
       <<9, 9, 10, 10, 9>>, 9>>,
     <<"_Bool b(int x){return x;} int main(void){_Bool f[2]; f[0]=5; f[1]=0; output(f[0]); output(b(6)+b(0)); output((_Bool)4); return !f[1];}",
       <<1, 1, 1>>, 1>>,
     <<"int main(void){const unsigned int a=07; signed char c=0x3; long l='\\a'; unsigned short u=4u; output(a); output(c); output(l); output(u); return sizeof(char)+sizeof(short)*10+sizeof(long)*100;}",
       <<7, 3, 7, 4>>, 421>>,
     <<"int main(void){int i; int t=0; for(i=0;;i++){if(i==6) break; if(i%2) continue; int k=0; do{k++; if(k==2) continue; t+=k;}while(k<3); t+=i;} return t;}",
       <<>>, 18>>,
     <<"char *s=\"\\a\\n\" \"y\"; int len(char *p){int n=0; while(p[n]) n++; return n;} int main(void){output(s[0]); return len(\"abc\")+len(s);}",
       <<7>>, 6>>,
     <<"int g(int a,int b,int c,int d,int e,int f,_Bool h,char i,int j){return a+b+c+d+e+f+h*100+i*200+j;} int main(void){int x=1; return g(1,1,1,1,1,1,9,2,4)+x;}",
       <<>>, 511>>,
     <<"int main(void){int a=2; {int a=3; {int a; a=4; output(a);} output(a); int b=a; output(b);} return a;}",
       <<4, 3, 3>>, 2>>}

\* What is not C, and what the compiler says it does not compile.
Rejected ==
    {"int main(void){return x;}", "int main(void){return f(1);}", "int f(void){return 1;}",
     "int main(void){int a; int a; return 0;}", "int main(void){{int a=1;} return a;}",
     "int main(void){break; return 0;}", "int main(void){continue; return 0;}",
     "int main(void){int a[2]; int b[2]; a=b; return 0;}", "int main(void){3=4; return 0;}",
     "struct S{int x;}; int main(void){struct S a; struct S b; a=b; return 0;}",
     "struct S{int x;}; int main(void){struct S a; return a.y;}",
     "struct S{int x;}; int main(void){struct S a; return a->x;}",
     "struct S{int x;}; int main(void){struct S *p; return p.x;}",
     "struct S{int x; int x;}; int main(void){return 0;}",
     "struct S{int x;}; struct S{int y;}; int main(void){return 0;}",
     "struct S{int x;}; struct S f(void){return 0;} int main(void){return 0;}",
     "struct S{int x;}; int f(struct S s){return 0;} int main(void){return 0;}",
     "int main(void){return 1/0;}", "int main(void){return 1%(2-2);}", "int main(void){return 1<<12;}",
     "int main(void){int a[0]; return 0;}", "int g[2]={1,2,3}; int main(void){return 0;}",
     "int f(void){return 1;} int g=f(); int main(void){return g;}",
     "enum {A,A}; int main(void){return A;}", "enum E{A}; enum E{B}; int main(void){return A;}",
     "typedef int T; typedef int T; int main(void){return 0;}",
     "int main(void){int T=1; {typedef int U; U v=1;} U w=2; return w;}",
     "int main(void){return 1", "int main(void){return 1;", "int main(void){return (1;}",
     "int main(void){if 1 return 2;}", "int main(void){do return 1; while(1) return 2;}",
     "int main(void){for(1;2) return 3;}", "int main(void){return 'ab';}",
     "int main(void){return \"a;}", "int main(void){return 1; /* }", "int main(void){int a; a@=1; return a;}",
     "int main(void){1++; return 0;}", "int main(void){int a; (a+1)++; return a;}",
     "int main(void){static int a=input(); return a;}", "int main(void){int n=2; static int a[n]; return 0;}",
     "int main(void){int n=2; int a[n]={1}; return 0;}",
     "int main(void){return &3;}", "int main(void){int *p; return 1-p;}", "int main(void){int *p; return p+p;}"}

----------------------------------------------------------------------------
Structured == Expressions \union Constants \union Controls \union Scopes \union Functions

\* The parameters.  What TLC counts of an action does not go into a LET here.
Sources ==
    LET written  == {Built(p, b) : p \in Structured, b \in {x \in Builds : x.full \/ x.tight}}
        objects  == {Verbatim(o[1], TRUE, o[2], o[3], b) : o \in ObjectPrograms, b \in Builds}
        rejected == {Verbatim(text, FALSE, <<>>, 0, b) : text \in Rejected, b \in Builds}
    IN  written \union objects \union rejected

UnitParsed(before) == LET after == ParseUnit(before) IN after
FunctionEmitted(before, f) == LET after == EmitFunction(before, f) IN after
=============================================================================
