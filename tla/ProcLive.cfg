SPECIFICATION FairSpec
PROPERTIES ZombieReaped
CONSTANTS NPROC=3 Calls={"fork"} KillPids={} MaxPid=4
