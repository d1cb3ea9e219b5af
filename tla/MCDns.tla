------------------------------- MODULE MCDns -------------------------------
(***************************************************************************)
(* Names and answers for TLC.                                              *)
(***************************************************************************)
EXTENDS Dns

\* "8.8.4.255", "8.8.4.256" and, numeric where int has 16 bits, "info"
MCNames == { << <<8>>, <<8>>, <<4>>, <<2, 5, 5>> >>, << <<8>>, <<8>>, <<4>>, <<2, 5, 6>> >>,
             << <<57, 62, 54, 63>> >> }

\* An error, no address, an address, an alias before it, and one alias too many
MCAnswers == { <<"error">>, << >>, <<"A">>, <<"CNAME", "A">>, <<"A of another length">>,
               <<"CNAME", "CNAME", "A">> }
=============================================================================
