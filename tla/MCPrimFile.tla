---------------------------- MODULE MCPrimFile -----------------------------
(* Executables of one to four entries with names of a few characters, run  *)
(* by two processes: both open an entry, or one a file of its own.         *)
EXTENDS PrimFile

CONSTANTS p1, p2, DiskModel

a == 97
b == 98

MCErlArgs == <<101>>
MCDefaults == <<<<45>>, <<b>>>>

E(path, data, deflated) == [path |-> path, data |-> data, deflated |-> deflated]
Flags == <<<<45, a>>, <<a>>, <<>>>>
ErlArgsEntry(deflated) == E(<<MCErlArgs>>, Render(Flags), deflated)

Nothing == [p \in Proc |-> {}]
OpenEntries == (p1 :> {<<a>>}) @@ (p2 :> {<<a>>, <<b>>})
OwnFile == (p1 :> {DiskModel, <<a>>}) @@ (p2 :> {})

L(code, entries, raw, home, tokens) ==
  [opens |-> IF entries = None THEN OwnFile ELSE IF home = None THEN Nothing ELSE OpenEntries,
   code |-> code, entries |-> entries, raw |-> raw, home |-> home, tokens |-> tokens,
   argv |-> <<"gleepack", "x", "y">>]

Code == [is |-> "code"]
\* An end record inside the code: the archive of another executable.
Older == [is |-> "end", entries |-> 1, size |-> 0, offset |-> 0]

MCLaunches ==
  {L(<<Code, Code>>, None, FALSE, None, <<>>)}
  \cup
  {L(<<Code, Older>>,
     <<E(<<<<a>>>>, <<1, 2, 3>>, TRUE), E(<<<<b>>>>, <<4>>, FALSE)>>, FALSE, "/h", <<>>)}
  \cup
  {L(<<Code>>, <<E(<<<<a, a>>, <<b>>>>, <<1>>, TRUE), ErlArgsEntry(d),
                 E(<<<<a, a>>, <<a, b>>>>, <<2>>, FALSE), E(<<<<a, b>>, <<b>>>>, <<3>>, FALSE)>>,
     raw, None, Flags) : d \in BOOLEAN, raw \in BOOLEAN}
  \cup
  \* A path that begins like another, in both orders, and the same one twice.
  {L(<<>>, <<E(<<<<b>>, <<a>>>>, <<1>>, TRUE), E(<<<<b>>, <<a, b>>, <<a>>>>, <<2>>, FALSE),
             E(<<<<b, 45>>>>, <<3>>, FALSE), E(<<<<b>>, <<a>>>>, <<4>>, FALSE)>>,
     FALSE, None, <<>>),
   L(<<>>, <<E(<<<<a, b>>, <<b>>>>, <<1>>, FALSE), E(<<<<a, b, b>>>>, <<2>>, FALSE),
             E(<<<<a, a>>, <<a>>, <<b>>>>, <<3>>, TRUE), E(<<<<a, a>>, <<a>>, <<b, b>>>>, <<4>>, TRUE)>>,
     FALSE, None, <<>>)}
  \cup
  \* Too many entries, a name too long, not in the last place and there, and
  \* an entry too large.
  {L(<<>>, [i \in 1 .. 5 |-> E(<<[j \in 1 .. i |-> b]>>, <<i>>, FALSE)], FALSE, None, <<>>),
   L(<<>>, <<E(<<[j \in 1 .. 9 |-> b]>>, <<1>>, FALSE), E(<<<<b>>>>, <<2>>, FALSE)>>,
     FALSE, None, <<>>),
   L(<<Code>>, <<E(<<<<a>>>>, <<1>>, FALSE), E(<<<<b>>>>, [j \in 1 .. 17 |-> j], TRUE)>>,
     FALSE, "/h", <<>>),
   L(<<>>, <<E(<<<<b>>>>, <<2>>, FALSE), E(<<[j \in 1 .. 9 |-> b]>>, <<1>>, FALSE)>>,
     FALSE, None, <<>>)}

MCReadIovs == {<<1, 2>>}
MCWriteIovs == {<<1, 0, 2>>}
MCOffsets == {-1, 1}
=============================================================================
