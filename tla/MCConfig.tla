------------------------------ MODULE MCConfig ------------------------------
EXTENDS Config

\* Sizes a user may give for the second level; zero means none.
MCSecondSizes == {-1, 0, 8, 12}

\* Lines of a file a user may write.
MCJsonLines == {Open("l1"), Open("l2"), Open("prefetch"), Inline("prefetch", 0), Close,
                Set("size", 4), Set("size", 8), Set("block_size", 2)}
=============================================================================
