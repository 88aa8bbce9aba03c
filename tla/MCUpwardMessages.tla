-------------------------- MODULE MCUpwardMessages --------------------------
\* A small instance of UpwardMessages: one type of each class, a payload that
\* fits and one that does not, two places in the queue.
EXTENDS UpwardMessages

MCUserTypes == {"Lock"}
MCSessionTypes == {"EraPayout"}
MCSizes == {1, 2}
MCIntervals == {1, 2, 3}
=============================================================================
