----------------------------- MODULE MCWordFilter -----------------------------
(* Small instances of WordFilter: a = 1, b = 2, A = 3, a symbol 4, a byte   *)
(* from 128 on 5.                                                          *)
EXTENDS WordFilter

UpTo(chars, length) == UNION { [1 .. k -> chars] : k \in 1 .. length }

MCLower == [char \in {1, 2, 3} |-> IF char = 3 THEN 1 ELSE char]

\* One or two words of up to three letters; three words of which each holds
\* others; upper case, symbols, an empty word, a word that is refused.
MCDicts ==
  { <<word, other>> : word \in UpTo({1, 2}, 2), other \in UpTo({1, 2}, 3) }
  \cup { <<word>> : word \in UpTo({1, 2}, 3) }
  \cup { << >>, <<<<1, 1, 2>>, <<1, 2, 2>>>>, <<<<2, 1, 1>>, <<1, 2, 1>>>>,
         <<<<2, 1, 1>>, <<1>>, <<1, 2, 1>>>>, <<<<2, 1, 1, 2>>, <<1, 1>>, <<1, 2>>>>,
         <<<<3, 4, 2>>, << >>>>,
         <<<<4>>, <<2, 3>>>>, <<<<1, 2>>, <<2, 5>>>> }

MCTexts ==
  UpTo({1, 2, 4}, 4) \cup UpTo({1, 2}, 5)
  \cup { << >>, <<3, 2>>, <<2, 5, 3>>, <<1, 4, 4, 1, 2>>, <<2, 2, 4, 1, 1>>, <<2, 4, 1, 4, 1>> }
===============================================================================
