--------------------------- MODULE MCCalculations ---------------------------
EXTENDS Calculations, TLC

\* With two bytes to the mebibyte, memory advice is in steps of 256 bytes.
MCUsages ==
    [cpuRequest : {0, 14, 60000}, cpuLimit : {0, 10, 495, 9999, 15000, 40000},
     throttled : {0, 25, 80}, peak : {0, 130, 171, 256, 300}, memRequest : {0, 900},
     memLimit : {0, 256, 300, 341}, diskRead : {0}, diskWrite : {0}]

MCFacts ==
    [name : {"job"}, duration : {600}, usage : MCUsages, trace : {{"Java", "Gradle"}}]
        \cup [name : {"job"}, duration : {599, 601}, usage : {NoUsage}, trace : {{}, {"Maven"}}]

MCSamples == {-3, 0, 1, 9}

\* "+4" is the instant of "4" in another text; "" and "noon" are no instant.
MCSeconds == "0" :> 0 @@ "2" :> 2 @@ "4" :> 4 @@ "+4" :> 4 @@ "7" :> 7
MCDates == DOMAIN MCSeconds \cup {"", "noon"}

MCThresholds ==
    [throttle : {0, 25}, longJob : {600}, memory : {50, 67, 90}]
        \cup [throttle : {NaN}, longJob : {600}, memory : {NaN}]
=============================================================================
