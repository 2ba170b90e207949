---------------------------- MODULE MCTablePair ----------------------------
EXTENDS TablePair

\* Keys -3..3: with at most two elements before an insert this covers the
\* append key 0, the position 0 that key -(len+1) gives, and keys out of
\* range on both sides.
MCInsertKeys == -3..3
=============================================================================
