---------------------------- MODULE MCH2RequestBody ----------------------------
EXTENDS H2RequestBody

\* Short and long, without data, and padded.
DataFrames == {<<1, 0>>, <<2, 0>>, <<0, 1>>, <<1, 1>>}
===============================================================================
