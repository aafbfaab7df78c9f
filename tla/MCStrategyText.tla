---------------------------- MODULE MCStrategyText ----------------------------
(* An instance of StrategyText: options of native and of legacy texts,     *)
(* one of each kind that strategy.py tells apart.                          *)
EXTENDS StrategyText

MCOptions ==
    {Opt("--filter-tcp", <<"443">>), Opt("--filter-tcp", <<"80">>), Opt("--filter-udp", <<"443">>),
     Opt("--new", <<>>),
     Opt("--dpi-desync", <<"fake", "split">>), Opt("--dpi-desync", <<"disorder", "syndata">>),
     Opt("--dpi-desync-split-pos", <<"1", "midsld">>),
     Opt("--dpi-desync-fooling", <<"ts", "datanoack">>),
     Opt("--dpi-desync-ttl", <<"3">>),
     Opt("--payload", <<"tls_client_hello">>), Opt("--lua-desync", <<"fake", "1">>),
     Opt("--reasm-disable", <<"tls_client_hello">>),
     Opt("--qnum", <<"200">>)}
MCPayloads == {<<>>, <<"tls_client_hello", "quic_initial">>}
=============================================================================
