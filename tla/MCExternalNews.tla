--------------------------- MODULE MCExternalNews ---------------------------
(* The instance of ExternalNews that TLC checks: two feeds that share a      *)
(* story.  The first may show it twice under two ids, or after an undated    *)
(* item of low quality, where the limit cuts the second copy off; the second *)
(* may show it after an item with neither title nor link.                    *)
EXTENDS ExternalNews

Story == [guid |-> "g1", link |-> "l1", title |-> "t1", longTitle |-> TRUE, digit |-> FALSE,
          longSummary |-> FALSE, http |-> FALSE, published |-> 0]
Again == [Story EXCEPT !.guid = "g3"]
Copy == [Story EXCEPT !.guid = ""]
Poor == [guid |-> "g2", link |-> "l2", title |-> "t2", longTitle |-> FALSE, digit |-> FALSE,
         longSummary |-> FALSE, http |-> FALSE, published |-> Undated]
Bare == [Poor EXCEPT !.guid = "", !.link = "", !.title = ""]

MCShows == <<{<<Again, Story>>, <<Poor, Story, Again>>}, {<<Copy>>, <<Bare, Copy>>}>>

\* What the theorems about duplicates and pages ask of the feeds.
ASSUME MCFeeds == StableIds /\ OwnIds /\ RoomForAll

\* Requests are interchangeable.
Symmetry == Permutations(Requests)
=============================================================================
