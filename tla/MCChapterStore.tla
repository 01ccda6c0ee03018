--------------------------- MODULE MCChapterStore ---------------------------
(* Model values for ChapterStore: a book of two chapters with two blocks and *)
(* one block; characters are numbers.                                        *)
EXTENDS ChapterStore, TLC
CONSTANTS t1, t2
MCBook == << << <<1, 2>>, <<3>> >>, << <<4>> >> >>
MCDrafts == { << >>, << <<1>>, <<3, 5>> >> }
MCReplacements == { <<3, <<>> >> }
\* Texts that share a character are similar.
MCSimilar(a, b) == ToSet(a) \cap ToSet(b) # {}
MCThreads == {t1, t2}
Symmetry == Permutations(MCThreads)

\* Bound: of two requests that are under way together one is a merge, which takes no new
\* identifier; and nothing follows a state in which sessions have overlapped, where no
\* property says anything.
Together == \A t \in MCThreads : thread[t] # Idle
Apart == /\ ~overlapped
         /\ Together => \E t \in MCThreads : thread[t].op = "merge"
=============================================================================
