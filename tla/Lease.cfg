\* Three tokens, so that a lease is taken, ends and is taken again twice.
SPECIFICATION LeaseSpec
CONSTANTS
    NoToken = NoToken
    Token = {t1, t2, t3}
    MaxTtl = 3
PROPERTIES EagerSpec DeadTokensStayDead
