------------------------------ MODULE MCFdtLife ------------------------------
(***************************************************************************)
(* One life of a blob on a small instance.                                 *)
(***************************************************************************)
EXTENDS FdtLife

MCNodeNames == {<<110>>, <<110, 64, 49>>}

\* One name is the end of another; a value that fills its last cell and some
\* that do not; a list of strings.
MCProps ==
    {<<S_phandle, Word(3)>>,
     <<<<98>> \o S_phandle, <<5>>>>,
     <<S_compatible, <<120, 121, 0, 121, 0>>>>}

MCRanges == {<<15, 2>>}

=============================================================================
