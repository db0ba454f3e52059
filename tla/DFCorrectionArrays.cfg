SPECIFICATION Spec
\* The script ends once both tables are built.
CHECK_DEADLOCK FALSE
INVARIANTS BitsetPrefix TablesAreHammingBalls
